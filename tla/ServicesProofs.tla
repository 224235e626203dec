--------------------------- MODULE ServicesProofs ---------------------------
(***************************************************************************)
(* Proofs about what starts work without a person, for every value of the  *)
(* constants of MCServices: the outbox of plugins (PluginOutbox), their    *)
(* background turns (PluginTurns, the instance Turns), the children of a   *)
(* Work (Subagents, the instance Children) and scheduled tasks             *)
(* (Automation, the instance Tasks), and then for all of them at once the  *)
(* properties of the sum SpecAll.                                          *)
(***************************************************************************)
EXTENDS MCServices, FiniteSetTheorems, TLAPS

-----------------------------------------------------------------------------
(* PluginOutbox, for any keys, callers, contents, parts, attempts and      *)
(* faults.                                                                 *)
(*                                                                         *)
(* RowInv says of every part what its row, its ledger event and the count  *)
(* of deliveries say of each other; WorkerInv what the one worker knows of *)
(* the part it holds; LayoutInv that a row without a route is the only row *)
(* of its key, so that a layout never overwrites a part already sent.      *)
(* CallInv relates the receipts of the callers to the event of their key.  *)
(* TidyInv counts the attempts of a row (none before it has a route, no    *)
(* more than max_attempts over a platform); KeyInv relates events, order and *)
(* rows.  The types hold on top of the first four, which do not need them. *)

St   == {"absent", "pending", "processing"} \cup Terminal
Errs == {"none", "permanent", "lease", "gateway", "local", "revoked", "unknown", "unrecorded"}

Row == [st : St, route : {"none", "local", "platform"}, attempts : Nat,
        lease : {"none", "live", "past"}, due : BOOLEAN, err : Errs,
        message : BOOLEAN, event : BOOLEAN]

BeforeSend == {"claimed", "ready", "granted", "away", "refused"}

HeldAttempt ==
    [at : BeforeSend \cup {"taken", "unknown", "unrecorded"}, part : Parts, attempt : Nat]

(* The types of what a delivery touches.                                   *)
Types ==
    /\ row \in [Parts -> Row]
    /\ delivered \in [Parts -> {0, 1}]
    /\ ledger \in [Parts -> {0, 1}]
    /\ worker \in {Idle} \cup HeldAttempt

(* What the row of a part says of its deliveries and of its event.         *)
PartInv(p) ==
    /\ row[p].st = "absent" => row[p] = NoRow
    /\ row[p].event => row[p].st = "sent"
    /\ ledger[p] = IF row[p].st = "sent" THEN 1 ELSE 0
    /\ row[p].route # "platform" => delivered[p] = 0
    /\ row[p].route = "none" => row[p].st \notin {"processing", "sent", "uncertain"}
    /\ row[p].st \in {"pending", "failed"} => delivered[p] = 0
    /\ row[p].st = "sent" /\ row[p].route = "platform" => delivered[p] = 1
    /\ row[p].lease # "none" => row[p].st = "processing"

RowInv == \A p \in Parts : PartInv(p)

(* A row waiting for its layout is alone.                                  *)
LayoutInv ==
    \A k \in Keys : row[<<k, 1>>].route = "none" =>
        \A i \in 2 .. MaxParts : row[<<k, i>>].st = "absent"

(* What the worker knows of the part it holds.                             *)
WorkerInv ==
    worker # Idle =>
        /\ row[worker.part].route # "none"
        /\ row[worker.part].st \in {"processing", "cancelled", "sent"}
        /\ row[worker.part].st = "sent" => worker.at = "unrecorded"
        /\ worker.at \in BeforeSend => delivered[worker.part] = 0
        /\ worker.at \in {"taken", "unrecorded"} /\ row[worker.part].route = "platform" =>
              delivered[worker.part] = 1

(* A key that was not published has no row.                                *)
EventInv == \A k \in Keys : event[k] = "none" => row[<<k, 1>>].st = "absent"

IInv == Types /\ RowInv /\ LayoutInv /\ WorkerInv /\ EventInv

(* The receipts of the callers and the events they are about.              *)
Call == [at : {"prepared", "again"}, key : Keys, content : Contents]
        \cup [at : {"done"}, key : Keys, content : Contents,
              receipt : {"created", "deduplicated", "conflict", "refused"}]

Success == {"created", "deduplicated"}

CallInv ==
    /\ event \in [Keys -> Contents \cup {"none"}]
    /\ call \in [Callers -> {Idle} \cup Call]
    /\ \A c \in Callers : (call[c].at = "done" /\ call[c].receipt \in Success)
                          => event[call[c].key] = call[c].content
    /\ \A c, d \in Callers :
          (/\ c # d /\ call[c].at = "done" /\ call[c].receipt = "created"
           /\ call[d].at = "done" /\ call[d].receipt = "created")
          => call[c].key # call[d].key

-----------------------------------------------------------------------------
(* Every part is a pair, and the first part of a key is one.               *)
LEMMA FirstPart ==
    ASSUME BoundsAssumption, NEW k \in Keys
    PROVE  <<k, 1>> \in Parts
PROOF BY DEF BoundsAssumption, Parts

LEMMA InitIInv ==
    ASSUME BoundsAssumption
    PROVE  Init => IInv
PROOF
  <1> SUFFICES ASSUME Init  PROVE IInv
    OBVIOUS
  <1>1. NoRow \in Row
    BY DEF NoRow, Row, St, Errs
  <1>2. \A p \in Parts : row[p] = NoRow /\ delivered[p] = 0 /\ ledger[p] = 0
    BY DEF Init
  <1>3. Types
    BY <1>1 DEF Init, Types
  <1>4. RowInv
    BY <1>2 DEF RowInv, PartInv, NoRow
  <1>5. LayoutInv
    <2> SUFFICES ASSUME NEW k \in Keys, NEW i \in 2 .. MaxParts  PROVE row[<<k, i>>].st = "absent"
      BY DEF LayoutInv
    <2>1. <<k, i>> \in Parts
      BY DEF Parts, BoundsAssumption
    <2> QED BY <1>2, <2>1 DEF NoRow
  <1>6. WorkerInv
    BY DEF Init, WorkerInv
  <1>7. EventInv
    BY <1>2, FirstPart DEF EventInv, NoRow
  <1> QED BY <1>3, <1>4, <1>5, <1>6, <1>7 DEF IInv

-----------------------------------------------------------------------------
(* What the worker may do beside a change of one row: it lets go of its     *)
(* part, goes on before the send, or does nothing.                         *)
Moves ==
    \/ worker' = Idle
    \/ worker' = worker
    \/ /\ worker # Idle /\ worker' \in HeldAttempt /\ worker'.part = worker.part
       /\ worker'.at \in BeforeSend /\ worker.at \in BeforeSend

(* No row changes.                                                         *)
LEMMA Unmoved ==
    ASSUME IInv, UNCHANGED <<event, row, delivered, ledger>>, Moves
    PROVE  IInv' /\ Settling
PROOF
  <1>1. Types'
    BY DEF IInv, Types, Moves
  <1>2. RowInv' /\ LayoutInv' /\ EventInv'
    BY DEF IInv, RowInv, PartInv, LayoutInv, EventInv
  <1>3. WorkerInv'
    BY DEF IInv, WorkerInv, Moves, BeforeSend
  <1>4. Settling
    BY DEF Settling
  <1> QED BY <1>1, <1>2, <1>3, <1>4 DEF IInv

(* The row of one open part changes, and neither its route nor its event.  *)
LEMMA RowMove ==
    ASSUME BoundsAssumption, IInv, NEW p \in Parts, NEW r \in Row,
           row' = [row EXCEPT ![p] = r], UNCHANGED <<event, delivered, ledger>>,
           row[p].st \in {"pending", "processing"},
           row[p].route = r.route,
           ~r.event, r.st # "sent", r.st # "absent",
           r.route = "none" => r.st \notin {"processing", "uncertain"},
           r.st \in {"pending", "failed"} => delivered[p] = 0,
           r.lease # "none" => r.st = "processing",
           Moves,
           worker' # Idle /\ p = worker.part => r.st \in {"processing", "cancelled"}
    PROVE  IInv' /\ Settling
PROOF
  <1>1. \A q \in Parts : row'[q] = IF q = p THEN r ELSE row[q]
    BY DEF IInv, Types
  <1>2. Types'
    BY DEF IInv, Types, Moves
  <1>3. RowInv'
    <2> SUFFICES ASSUME NEW q \in Parts  PROVE PartInv(q)'
      BY DEF RowInv
    <2>1. CASE q # p
      BY <1>1, <2>1 DEF IInv, RowInv, PartInv
    <2>2. CASE q = p
      BY <1>1, <2>2 DEF IInv, RowInv, PartInv
    <2> QED BY <2>1, <2>2
  <1>4. LayoutInv'
    <2> SUFFICES ASSUME NEW k \in Keys, row'[<<k, 1>>].route = "none", NEW i \in 2 .. MaxParts
                 PROVE  row'[<<k, i>>].st = "absent"
      BY DEF LayoutInv
    <2>1. <<k, 1>> \in Parts /\ <<k, i>> \in Parts
      BY DEF Parts, BoundsAssumption
    <2>2. row[<<k, 1>>].route = "none"
      BY <1>1, <2>1
    <2>3. row[<<k, i>>].st = "absent"
      BY <2>2 DEF IInv, LayoutInv
    <2>4. <<k, i>> # p
      BY <2>3
    <2> QED BY <1>1, <2>1, <2>3, <2>4
  <1>5. WorkerInv'
    <2>1. CASE worker' = Idle
      BY <2>1 DEF WorkerInv
    <2>2. CASE worker' # Idle
      <3>1. worker # Idle /\ worker'.part = worker.part
            /\ (worker' = worker \/ (worker'.at \in BeforeSend /\ worker.at \in BeforeSend))
        BY <2>2 DEF Moves
      <3>2. worker.part \in Parts
        BY <3>1 DEF IInv, Types, HeldAttempt
      <3>3. row'[worker.part].route = row[worker.part].route
        BY <1>1, <3>2
      <3>4. row'[worker.part].st = row[worker.part].st
            \/ row'[worker.part].st \in {"processing", "cancelled"}
        BY <1>1, <2>2, <3>2
      <3> QED BY <3>1, <3>2, <3>3, <3>4 DEF IInv, WorkerInv, BeforeSend
    <2> QED BY <2>1, <2>2
  <1>6. EventInv'
    BY <1>1, FirstPart DEF IInv, EventInv
  <1>7. Settling
    BY <1>1 DEF Settling
  <1> QED BY <1>2, <1>3, <1>4, <1>5, <1>6, <1>7 DEF IInv

-----------------------------------------------------------------------------
(* The settlement operators, as functions of a row.                        *)

(* retry_outbox and recover_local_outbox put the row back or close it.     *)
LEMMA RetryResult ==
    ASSUME NEW r \in Row, NEW n
    PROVE  LET f == RetryOutbox(r, n, "gateway") IN
           \/ f = r
           \/ /\ r.st = "processing" /\ f \in Row /\ f.st \in {"pending", "failed"}
              /\ f.route = r.route /\ f.event = r.event /\ f.lease = "none"
PROOF
  <1> DEFINE full == r.attempts >= MaxAttempts
             st == IF full THEN "failed" ELSE "pending"
             f == [r EXCEPT !.st = st, !.due = full, !.err = "gateway", !.lease = "none"]
  <1>1. full \in BOOLEAN
    BY DEF Row
  <1>2. st \in {"pending", "failed"}
    OBVIOUS
  <1>3. RetryOutbox(r, n, "gateway") = r \/ (r.st = "processing" /\ RetryOutbox(r, n, "gateway") = f)
    BY DEF RetryOutbox, Owns
  <1> HIDE DEF full, st
  <1>4. f \in Row /\ f.st = st /\ f.route = r.route /\ f.event = r.event /\ f.lease = "none"
    BY <1>1, <1>2 DEF Row, St, Terminal, Errs
  <1> HIDE DEF f
  <1> QED BY <1>2, <1>3, <1>4

LEMMA RecoverResult ==
    ASSUME NEW r \in Row, NEW n
    PROVE  LET f == RecoverLocal(r, n) IN
           \/ f = r
           \/ /\ r.st = "processing" /\ r.route = "local" /\ f \in Row /\ f.st = "pending"
              /\ f.route = r.route /\ f.event = r.event /\ f.lease = "none"
PROOF
  BY DEF RecoverLocal, Owns, Row, St, Errs

(* The worker settles the part it holds with one of these results.         *)
LEMMA SettlesInv ==
    ASSUME BoundsAssumption, IInv, worker # Idle, NEW r,
           Settles(worker.part, r), UNCHANGED <<event, delivered, ledger>>,
           \/ r = row[worker.part]
           \/ /\ row[worker.part].st = "processing" /\ r \in Row
              /\ r.st \in {"pending", "failed", "uncertain", "cancelled"}
              /\ r.route = row[worker.part].route /\ r.event = row[worker.part].event
              /\ r.lease = "none"
              /\ r.st \in {"pending", "failed"} => delivered[worker.part] = 0
    PROVE  IInv' /\ Settling
PROOF
  <1> DEFINE p == worker.part
  <1>1. p \in Parts /\ row[p] \in Row
    BY DEF IInv, Types, HeldAttempt
  <1>2. row' = [row EXCEPT ![p] = r] /\ worker' = Idle /\ Moves
    BY DEF Settles, Moves
  <1>3. CASE r = row[p]
    <2>1. row' = row
      BY <1>1, <1>2, <1>3 DEF IInv, Types
    <2> QED BY <1>2, <2>1, Unmoved
  <1>4. CASE r # row[p]
    <2>1. row[p].st = "processing" /\ r \in Row /\ r.lease = "none" /\ r.route = row[p].route
          /\ r.st \in {"pending", "failed", "uncertain", "cancelled"}
          /\ (r.st \in {"pending", "failed"} => delivered[p] = 0)
          /\ r.event = row[p].event
      BY <1>4
    <2>2. ~r.event
      BY <1>1, <2>1 DEF IInv, RowInv, PartInv, Row
    <2>3. r.route # "none"
      BY <1>1, <2>1 DEF IInv, WorkerInv
    <2> HIDE DEF p
    <2> QED BY <1>1, <1>2, <2>1, <2>2, <2>3, RowMove
  <1> QED BY <1>3, <1>4

-----------------------------------------------------------------------------
(* The worker's steps, action by action.                                   *)

LEMMA OutboxReadyInv ==
    ASSUME BoundsAssumption, IInv, OutboxReady
    PROVE  IInv' /\ Settling
PROOF
  <1> DEFINE p == worker.part
             n == worker.attempt
  <1>1. worker # Idle /\ worker \in HeldAttempt /\ worker.at = "claimed"
    BY DEF OutboxReady, At, IInv, Types, Idle
  <1>2. p \in Parts /\ row[p] \in Row
    BY <1>1 DEF IInv, Types, HeldAttempt
  <1>3. UNCHANGED <<event, delivered, ledger>>
    BY DEF OutboxReady
  <1>4. row[p].st # "uncertain" /\ delivered[p] = 0 /\ row[p].route # "none"
    BY <1>1 DEF IInv, WorkerInv, BeforeSend
  <1>5. CASE ~Owns(row[p], n)
    <2>1. worker' = Idle /\ row' = row
      BY <1>5 DEF OutboxReady
    <2> QED BY <1>3, <2>1, Unmoved DEF Moves
  <1>6. CASE Owns(row[p], n) /\ ~readable
    <2> DEFINE r == FinishOutbox(row[p], n, "failed", FALSE, "permanent")
    <2>1. Settles(p, r)
      BY <1>6 DEF OutboxReady
    <2>2. \/ r = row[p]
          \/ /\ row[p].st = "processing" /\ r \in Row /\ r.st = "failed"
             /\ r.route = row[p].route /\ r.event = row[p].event /\ r.lease = "none"
      BY <1>2, <1>4 DEF FinishOutbox, Owns, Row, St, Terminal, Errs
    <2> HIDE DEF r
    <2> QED BY <1>1, <1>3, <1>4, <2>1, <2>2, SettlesInv
  <1>7. CASE Owns(row[p], n) /\ readable
    <2> DEFINE r == [row[p] EXCEPT !.lease = "live"]
    <2>1. row' = [row EXCEPT ![p] = r] /\ worker' = [worker EXCEPT !.at = "ready"]
      BY <1>7 DEF OutboxReady
    <2>2. row[p].st = "processing" /\ ~row[p].event
      BY <1>2, <1>7 DEF Owns, IInv, RowInv, PartInv
    <2>3. r \in Row /\ r.st = "processing" /\ r.route = row[p].route /\ ~r.event
      BY <1>2, <2>2 DEF Row
    <2>4. worker' \in HeldAttempt /\ worker'.part = p /\ worker'.at = "ready"
      BY <1>1, <2>1 DEF HeldAttempt, BeforeSend
    <2>5. Moves
      BY <1>1, <2>4 DEF Moves, BeforeSend
    <2> HIDE DEF r, p
    <2> QED BY <1>2, <1>3, <1>4, <2>1, <2>2, <2>3, <2>5, RowMove
  <1> QED BY <1>5, <1>6, <1>7

LEMMA CheckGrantInv ==
    ASSUME BoundsAssumption, IInv, CheckGrant
    PROVE  IInv' /\ Settling
PROOF
  <1> DEFINE p == worker.part
             n == worker.attempt
             r == FinishOutbox(row[p], n, "cancelled", FALSE, "revoked")
  <1>1. worker # Idle /\ worker \in HeldAttempt /\ worker.at = "ready"
    BY DEF CheckGrant, At, IInv, Types, Idle
  <1>2. p \in Parts /\ row[p] \in Row /\ row[p].st # "uncertain"
    BY <1>1 DEF IInv, Types, WorkerInv, HeldAttempt
  <1>3. UNCHANGED <<event, delivered, ledger>>
    BY DEF CheckGrant
  <1>4. CASE granted
    <2>1. worker' = [worker EXCEPT !.at = "granted"] /\ row' = row
      BY <1>4 DEF CheckGrant
    <2>2. Moves
      BY <1>1, <2>1 DEF Moves, HeldAttempt, BeforeSend
    <2> QED BY <1>3, <2>1, <2>2, Unmoved
  <1>5. CASE ~granted
    <2>1. Settles(p, r)
      BY <1>5 DEF CheckGrant
    <2>2. \/ r = row[p]
          \/ /\ row[p].st = "processing" /\ r \in Row /\ r.st = "cancelled"
             /\ r.route = row[p].route /\ r.event = row[p].event /\ r.lease = "none"
      BY <1>2 DEF FinishOutbox, Owns, Row, St, Terminal, Errs
    <2> HIDE DEF r
    <2> QED BY <1>1, <1>3, <2>1, <2>2, SettlesInv
  <1> QED BY <1>4, <1>5

LEMMA SendFailedInv ==
    ASSUME BoundsAssumption, IInv, SendFailed
    PROVE  IInv' /\ Settling
PROOF
  <1> DEFINE p == worker.part
             n == worker.attempt
  <1>1. worker # Idle /\ worker \in HeldAttempt
    <2>1. worker.at \in {"away", "refused", "unknown"}
      BY DEF SendFailed, At
    <2> QED BY <2>1 DEF IInv, Types, Idle
  <1>2. p \in Parts /\ row[p] \in Row /\ row[p].st # "uncertain"
    BY <1>1 DEF IInv, Types, WorkerInv, HeldAttempt
  <1>3. UNCHANGED <<event, delivered, ledger>>
    BY DEF SendFailed
  <1>4. worker.at \in {"away", "refused"} => delivered[p] = 0
    BY <1>1 DEF IInv, WorkerInv, BeforeSend
  <1>5. PICK r : /\ Settles(p, r)
                 /\ \/ worker.at = "away" /\ r = RetryOutbox(row[p], n, "gateway")
                    \/ worker.at = "refused" /\ r = FinishOutbox(row[p], n, "failed", FALSE, "permanent")
                    \/ worker.at = "unknown" /\ r = FinishOutbox(row[p], n, "uncertain", FALSE, "unknown")
    BY DEF SendFailed, At
  <1>6. \/ r = row[p]
        \/ /\ row[p].st = "processing" /\ r \in Row
           /\ r.st \in {"pending", "failed", "uncertain"}
           /\ r.st \in {"pending", "failed"} => worker.at \in {"away", "refused"}
           /\ r.route = row[p].route /\ r.event = row[p].event /\ r.lease = "none"
    <2>1. CASE worker.at = "away"
      BY <1>2, <1>5, <2>1, RetryResult
    <2>2. CASE worker.at = "refused"
      BY <1>2, <1>5, <2>2 DEF FinishOutbox, Owns, Row, St, Terminal, Errs
    <2>3. CASE worker.at = "unknown"
      BY <1>2, <1>5, <2>3 DEF FinishOutbox, Owns, Row, St, Terminal, Errs
    <2> QED BY <1>5, <2>1, <2>2, <2>3
  <1> QED BY <1>1, <1>3, <1>4, <1>5, <1>6, SettlesInv

LEMMA AfterRecordInv ==
    ASSUME BoundsAssumption, IInv, AfterRecord
    PROVE  IInv' /\ Settling
PROOF
  <1> DEFINE p == worker.part
             n == worker.attempt
             local == RecoverLocal(row[p], n)
             late == FinishOutbox(row[p], n, "uncertain", TRUE, "unrecorded")
  <1>1. worker # Idle /\ worker \in HeldAttempt
    BY DEF AfterRecord, At, IInv, Types, Idle
  <1>2. p \in Parts /\ row[p] \in Row /\ row[p].st # "uncertain"
    BY <1>1 DEF IInv, Types, WorkerInv, HeldAttempt
  <1>3. UNCHANGED <<event, delivered, ledger>>
    BY DEF AfterRecord
  <1>4. CASE row[p].route = "local"
    <2>1. Settles(p, local)
      BY <1>4 DEF AfterRecord
    <2>2. delivered[p] = 0
      BY <1>2, <1>4 DEF IInv, RowInv, PartInv
    <2>3. \/ local = row[p]
          \/ /\ row[p].st = "processing" /\ local \in Row /\ local.st = "pending"
             /\ local.route = row[p].route /\ local.event = row[p].event /\ local.lease = "none"
      BY <1>2, RecoverResult
    <2> HIDE DEF local
    <2> QED BY <1>1, <1>3, <2>1, <2>2, <2>3, SettlesInv
  <1>5. CASE row[p].route # "local"
    <2>1. Settles(p, late)
      BY <1>5 DEF AfterRecord
    <2>2. \/ late = row[p]
          \/ /\ row[p].st = "processing" /\ late \in Row /\ late.st = "uncertain"
             /\ late.route = row[p].route /\ late.event = row[p].event /\ late.lease = "none"
      BY <1>2 DEF FinishOutbox, Owns, Row, St, Terminal, Errs
    <2> HIDE DEF late
    <2> QED BY <1>1, <1>3, <2>1, <2>2, SettlesInv
  <1> QED BY <1>4, <1>5

-----------------------------------------------------------------------------
(* The clock, a refused preparation and the answer of the transport.       *)

LEMMA PrepareRefusedInv ==
    ASSUME BoundsAssumption, IInv, NEW p \in Parts, PrepareRefused(p)
    PROVE  IInv' /\ Settling
PROOF
  <1> DEFINE r == [row[p] EXCEPT !.st = "failed", !.err = "permanent"]
  <1>1. row[p] \in Row /\ row[p].st = "pending" /\ PartInv(p)
    BY DEF PrepareRefused, IInv, Types, RowInv
  <1>2. worker = Idle /\ worker' = Idle /\ Moves
    BY DEF PrepareRefused, IInv, Types, HeldAttempt, BeforeSend, Idle, Moves
  <1>3. row' = [row EXCEPT ![p] = r] /\ UNCHANGED <<event, delivered, ledger>>
    BY DEF PrepareRefused
  <1>4. r \in Row /\ r.st = "failed" /\ ~r.event /\ r.route = row[p].route
        /\ r.lease = "none" /\ delivered[p] = 0
    BY <1>1 DEF Row, St, Terminal, Errs, PartInv
  <1> HIDE DEF r
  <1> QED BY <1>1, <1>2, <1>3, <1>4, RowMove

LEMMA BecomesDueInv ==
    ASSUME BoundsAssumption, IInv, NEW p \in Parts, BecomesDue(p)
    PROVE  IInv' /\ Settling
PROOF
  <1> DEFINE r == [row[p] EXCEPT !.due = TRUE]
  <1>1. row[p] \in Row /\ row[p].st = "pending" /\ PartInv(p)
    BY DEF BecomesDue, IInv, Types, RowInv
  <1>2. worker' = worker /\ Moves
    BY DEF BecomesDue, Moves
  <1>3. row' = [row EXCEPT ![p] = r] /\ UNCHANGED <<event, delivered, ledger>>
    BY DEF BecomesDue
  <1>4. r \in Row /\ r.st = "pending" /\ ~r.event /\ r.route = row[p].route
        /\ r.lease = "none" /\ delivered[p] = 0
    BY <1>1 DEF Row, PartInv
  <1>5. worker # Idle => worker.part # p
    BY <1>1 DEF IInv, WorkerInv
  <1> HIDE DEF r
  <1> QED BY <1>1, <1>2, <1>3, <1>4, <1>5, RowMove

LEMMA LeasePassesInv ==
    ASSUME BoundsAssumption, IInv, NEW p \in Parts, LeasePasses(p)
    PROVE  IInv' /\ Settling
PROOF
  <1> DEFINE r == [row[p] EXCEPT !.lease = "past"]
  <1>1. row[p] \in Row /\ row[p].st = "processing" /\ PartInv(p)
    BY DEF LeasePasses, IInv, Types, RowInv, PartInv
  <1>2. worker' = worker /\ Moves
    BY DEF LeasePasses, Moves
  <1>3. row' = [row EXCEPT ![p] = r] /\ UNCHANGED <<event, delivered, ledger>>
    BY DEF LeasePasses
  <1>4. r \in Row /\ r.st = "processing" /\ ~r.event /\ r.route = row[p].route /\ r.route # "none"
    BY <1>1 DEF Row, PartInv
  <1> HIDE DEF r
  <1> QED BY <1>1, <1>2, <1>3, <1>4, RowMove

LEMMA TransportInv ==
    ASSUME IInv, NEW answer \in {"taken", "away", "refused", "unknown"}, NEW took \in BOOLEAN,
           Transport(answer, took)
    PROVE  IInv' /\ Settling
PROOF
  <1> DEFINE p == worker.part
  <1>1. worker # Idle /\ worker \in HeldAttempt /\ worker.at = "granted"
    BY DEF Transport, At, IInv, Types, Idle
  <1>2. p \in Parts /\ delivered[p] = 0
        /\ row[p].route # "none" /\ row[p].st \in {"processing", "cancelled"}
    BY <1>1 DEF IInv, Types, HeldAttempt, WorkerInv, BeforeSend
  <1>3. worker' = [worker EXCEPT !.at = answer] /\ UNCHANGED <<event, row, ledger>>
    BY DEF Transport
  <1>4. worker' \in HeldAttempt /\ worker'.at = answer /\ worker'.part = p
    BY <1>1, <1>3 DEF HeldAttempt, BeforeSend
  <1>5. \A q \in Parts : delivered'[q] = IF q = p /\ took THEN 1 ELSE delivered[q]
    BY <1>2 DEF Transport, IInv, Types
  <1>6. delivered' \in [Parts -> {0, 1}]
    BY <1>2 DEF Transport, IInv, Types
  <1>7. /\ took => row[p].route # "local"
        /\ answer = "taken" /\ row[p].route # "local" => took
        /\ answer \in {"away", "refused"} => ~took
    BY DEF Transport
  <1>8. row[p].route \in {"local", "platform"}
    BY <1>2 DEF IInv, Types, Row
  <1>9. Types' /\ LayoutInv' /\ EventInv' /\ Settling
    BY <1>3, <1>4, <1>6 DEF IInv, Types, LayoutInv, EventInv, Settling
  <1>10. RowInv'
    <2> SUFFICES ASSUME NEW q \in Parts  PROVE PartInv(q)'
      BY DEF RowInv
    <2>1. PartInv(q)
      BY DEF IInv, RowInv
    <2> QED BY <1>2, <1>3, <1>5, <1>7, <1>8, <2>1 DEF PartInv
  <1>11. WorkerInv'
    BY <1>2, <1>3, <1>4, <1>5, <1>7, <1>8 DEF WorkerInv, BeforeSend
  <1> QED BY <1>9, <1>10, <1>11 DEF IInv

-----------------------------------------------------------------------------
(* Steps that change several rows at once.                                 *)

(* revoke_target cancels every open row; the worker may still hold one.    *)
LEMMA RevokeInv ==
    ASSUME BoundsAssumption, IInv, RevokeTarget
    PROVE  IInv' /\ Settling
PROOF
  <1> DEFINE open(q) == row[q].st \in {"pending", "processing"}
             r(q) == [row[q] EXCEPT !.st = "cancelled", !.lease = "none"]
  <1>1. UNCHANGED <<event, worker, delivered, ledger>>
        /\ row' = [q \in Parts |-> IF open(q) THEN r(q) ELSE row[q]]
    BY DEF RevokeTarget
  <1>2. \A q \in Parts : row[q] \in Row /\ PartInv(q)
    BY DEF IInv, Types, RowInv
  <1>3. \A q \in Parts : /\ r(q) \in Row /\ r(q).st = "cancelled" /\ r(q).lease = "none"
                         /\ r(q).route = row[q].route /\ r(q).event = row[q].event
    BY <1>2 DEF Row, St, Terminal
  <1>4. \A q \in Parts : row'[q] = IF open(q) THEN r(q) ELSE row[q]
    BY <1>1
  <1> HIDE DEF r
  <1>5. Types'
    BY <1>1, <1>2, <1>3 DEF IInv, Types
  <1>6. RowInv'
    <2> SUFFICES ASSUME NEW q \in Parts  PROVE PartInv(q)'
      BY DEF RowInv
    <2>1. CASE open(q)
      BY <1>1, <1>2, <1>3, <1>4, <2>1 DEF PartInv
    <2>2. CASE ~open(q)
      BY <1>1, <1>2, <1>4, <2>2 DEF PartInv
    <2> QED BY <2>1, <2>2
  <1>7. \A q \in Parts : /\ row'[q].route = row[q].route
                         /\ row[q].st = "absent" => row'[q].st = "absent"
                         /\ ~open(q) => row'[q].st = row[q].st
                         /\ open(q) => row'[q].st = "cancelled"
    BY <1>3, <1>4
  <1>8. LayoutInv'
    <2> SUFFICES ASSUME NEW k \in Keys, row'[<<k, 1>>].route = "none", NEW i \in 2 .. MaxParts
                 PROVE  row'[<<k, i>>].st = "absent"
      BY DEF LayoutInv
    <2>1. <<k, 1>> \in Parts /\ <<k, i>> \in Parts
      BY DEF Parts, BoundsAssumption
    <2>2. row[<<k, i>>].st = "absent"
      BY <1>7, <2>1 DEF IInv, LayoutInv
    <2> QED BY <1>7, <2>1, <2>2
  <1>9. EventInv'
    BY <1>1, <1>7, FirstPart DEF IInv, EventInv
  <1>10. WorkerInv'
    <2> SUFFICES ASSUME worker # Idle  PROVE WorkerInv'
      BY <1>1 DEF WorkerInv
    <2>1. worker.part \in Parts
      BY DEF IInv, Types, HeldAttempt
    <2> QED BY <1>1, <1>7, <2>1 DEF IInv, WorkerInv
  <1>11. Settling
    BY <1>7 DEF Settling
  <1> QED BY <1>5, <1>6, <1>8, <1>9, <1>10, <1>11 DEF IInv

(* A publication creates the first row of a key that has none.             *)
LEMMA PublishCommitInv ==
    ASSUME BoundsAssumption, "none" \notin Contents, IInv, CallInv,
           NEW c \in Callers, PublishCommit(c)
    PROVE  IInv' /\ Settling
PROOF
  <1> DEFINE k == call[c].key
             v == call[c].content
             new == [NoRow EXCEPT !.st = "pending"]
  <1>1. UNCHANGED <<worker, delivered, ledger>>
    BY DEF PublishCommit
  <1>2. CASE row' = row /\ event' = event
    BY <1>1, <1>2, Unmoved DEF Moves
  <1>3. CASE ~(row' = row /\ event' = event)
    <2>1. /\ event[k] = "none" /\ event' = [event EXCEPT ![k] = v]
          /\ row' = [row EXCEPT ![<<k, 1>>] = new] /\ call[c].at = "prepared"
      BY <1>3 DEF PublishCommit
    <2>2. k \in Keys /\ v \in Contents
      BY <2>1 DEF CallInv, Idle, Call
    <2> DEFINE p == <<k, 1>>
    <2>3. p \in Parts
      BY <2>2, FirstPart
    <2>4. row[p].st = "absent" /\ row[p] = NoRow /\ PartInv(p)
      BY <2>1, <2>2, <2>3 DEF IInv, EventInv, RowInv, PartInv
    <2>5. delivered[p] = 0 /\ ledger[p] = 0 /\ row[p].route = "none"
      BY <2>4 DEF PartInv, NoRow
    <2>6. /\ new \in Row /\ new.st = "pending" /\ new.route = "none" /\ new.event = FALSE
          /\ new.lease = "none"
      BY DEF NoRow, Row, St, Terminal, Errs
    <2>7. \A q \in Parts : row'[q] = IF q = p THEN new ELSE row[q]
      BY <2>1 DEF IInv, Types
    <2>8. \A j \in Keys : event'[j] = IF j = k THEN v ELSE event[j]
      BY <2>1 DEF CallInv
    <2> HIDE DEF new
    <2>9. Types'
      BY <1>1, <2>1, <2>3, <2>6 DEF IInv, Types
    <2>10. RowInv'
      <3> SUFFICES ASSUME NEW q \in Parts  PROVE PartInv(q)'
        BY DEF RowInv
      <3>1. CASE q = p
        BY <1>1, <2>5, <2>6, <2>7, <3>1 DEF PartInv
      <3>2. CASE q # p
        BY <1>1, <2>7, <3>2 DEF IInv, RowInv, PartInv
      <3> QED BY <3>1, <3>2
    <2>11. LayoutInv'
      <3> SUFFICES ASSUME NEW j \in Keys, row'[<<j, 1>>].route = "none", NEW i \in 2 .. MaxParts
                   PROVE  row'[<<j, i>>].st = "absent"
        BY DEF LayoutInv
      <3>1. <<j, 1>> \in Parts /\ <<j, i>> \in Parts /\ i # 1
        BY DEF Parts, BoundsAssumption
      <3>2. row[<<j, 1>>].route = "none"
        BY <2>5, <2>7, <3>1
      <3>3. row[<<j, i>>].st = "absent"
        BY <3>2 DEF IInv, LayoutInv
      <3> QED BY <2>7, <3>1, <3>3
    <2>12. EventInv'
      <3> SUFFICES ASSUME NEW j \in Keys, event'[j] = "none"  PROVE row'[<<j, 1>>].st = "absent"
        BY DEF EventInv
      <3>1. j # k /\ event[j] = "none"
        BY <2>2, <2>8
      <3>2. row[<<j, 1>>].st = "absent" /\ <<j, 1>> \in Parts /\ <<j, 1>> # p
        BY <3>1, FirstPart DEF IInv, EventInv
      <3> QED BY <2>7, <3>2
    <2>13. WorkerInv'
      <3> SUFFICES ASSUME worker # Idle  PROVE WorkerInv'
        BY <1>1 DEF WorkerInv
      <3>1. worker.part \in Parts
        BY DEF IInv, Types, HeldAttempt
      <3>2. worker.part # p
        BY <2>4 DEF IInv, WorkerInv
      <3>3. row'[worker.part] = row[worker.part]
        BY <2>7, <3>1, <3>2
      <3> QED BY <1>1, <3>1, <3>3 DEF IInv, WorkerInv
    <2>14. Settling
      <3> SUFFICES ASSUME NEW q \in Parts, row[q].st \in Terminal  PROVE row'[q] = row[q]
        BY DEF Settling, Terminal
      <3> QED BY <2>4, <2>7 DEF Terminal
    <2> QED BY <2>9, <2>10, <2>11, <2>12, <2>13, <2>14 DEF IInv
  <1> QED BY <1>2, <1>3

(* A layout copies a pending first row over parts that do not exist yet.   *)
LEMMA PrepareOutboxInv ==
    ASSUME BoundsAssumption, IInv, NEW p \in Parts, NEW n \in 1 .. MaxParts,
           NEW r \in {"local", "platform"}, PrepareOutbox(p, n, r)
    PROVE  IInv' /\ Settling
PROOF
  <1> DEFINE new == [row[p] EXCEPT !.route = r]
             laid(q) == q[1] = p[1] /\ q[2] \in 1 .. n
  <1>1. row[p].st = "pending" /\ row[p].route = "none" /\ row[p] \in Row /\ PartInv(p)
    BY DEF PrepareOutbox, IInv, Types, RowInv
  <1>2. worker = Idle /\ worker' = Idle /\ UNCHANGED <<event, delivered, ledger>>
    BY DEF PrepareOutbox, IInv, Types, HeldAttempt, BeforeSend, Idle
  <1>3. row' = [q \in Parts |-> IF laid(q) THEN new ELSE row[q]]
    BY DEF PrepareOutbox
  <1>4. p[1] \in Keys /\ p = <<p[1], 1>>
    BY DEF PrepareOutbox, Parts
  <1>5. /\ new \in Row /\ new.st = "pending" /\ new.route = r /\ new.route # "none"
        /\ ~new.event /\ new.lease = "none"
    BY <1>1 DEF Row, PartInv
  <1>6. ASSUME NEW q \in Parts, laid(q)
        PROVE  row[q].st \in {"absent", "pending"} /\ delivered[q] = 0 /\ ledger[q] = 0
    <2>1. CASE q[2] = 1
      <3>1. q = p
        BY <1>4, <1>6, <2>1 DEF Parts
      <3> QED BY <1>1, <3>1 DEF PartInv
    <2>2. CASE q[2] # 1
      <3>1. q = <<p[1], q[2]>> /\ q[2] \in 2 .. MaxParts
        BY <1>6, <2>2 DEF Parts, BoundsAssumption
      <3>2. row[q].st = "absent"
        BY <1>1, <1>4, <3>1 DEF IInv, LayoutInv
      <3> QED BY <3>2 DEF IInv, RowInv, PartInv, NoRow
    <2> QED BY <2>1, <2>2
  <1>7. \A q \in Parts : row'[q] = IF laid(q) THEN new ELSE row[q]
    BY <1>3
  <1> HIDE DEF new
  <1>8. Types'
    BY <1>2, <1>3, <1>5 DEF IInv, Types
  <1>9. RowInv'
    <2> SUFFICES ASSUME NEW q \in Parts  PROVE PartInv(q)'
      BY DEF RowInv
    <2>1. CASE laid(q)
      BY <1>2, <1>5, <1>6, <1>7, <2>1 DEF PartInv
    <2>2. CASE ~laid(q)
      BY <1>2, <1>7, <2>2 DEF IInv, RowInv, PartInv
    <2> QED BY <2>1, <2>2
  <1>10. LayoutInv'
    <2> SUFFICES ASSUME NEW k \in Keys, row'[<<k, 1>>].route = "none", NEW i \in 2 .. MaxParts
                 PROVE  row'[<<k, i>>].st = "absent"
      BY DEF LayoutInv
    <2>1. <<k, 1>> \in Parts /\ <<k, i>> \in Parts
      BY DEF Parts, BoundsAssumption
    <2>2. k # p[1]
      BY <1>5, <1>7, <2>1
    <2>3. row'[<<k, 1>>] = row[<<k, 1>>] /\ row'[<<k, i>>] = row[<<k, i>>]
      BY <1>7, <2>1, <2>2
    <2> QED BY <2>3 DEF IInv, LayoutInv
  <1>11. EventInv'
    <2> SUFFICES ASSUME NEW k \in Keys, event[k] = "none"  PROVE row'[<<k, 1>>].st = "absent"
      BY <1>2 DEF EventInv
    <2>1. row[<<k, 1>>].st = "absent" /\ <<k, 1>> \in Parts
      BY FirstPart DEF IInv, EventInv
    <2>2. k # p[1]
      BY <1>1, <1>4, <2>1
    <2> QED BY <1>7, <2>1, <2>2
  <1>12. WorkerInv'
    BY <1>2 DEF WorkerInv
  <1>13. Settling
    BY <1>6, <1>7 DEF Settling
  <1> QED BY <1>8, <1>9, <1>10, <1>11, <1>12, <1>13 DEF IInv

(* A claim sweeps the expired leases and takes one part: every row stays   *)
(* as it is or moves among the open, failed and uncertain ones.            *)
LEMMA ClaimMove ==
    ASSUME BoundsAssumption, IInv, worker = Idle, UNCHANGED <<event, delivered, ledger>>,
           row' \in [Parts -> Row],
           \A q \in Parts : row'[q] = row[q] \/
              /\ row[q].st \in {"pending", "processing"}
              /\ row'[q].st \in {"pending", "processing", "failed", "uncertain"}
              /\ row'[q].route = row[q].route /\ row[q].route # "none"
              /\ ~row'[q].event
              /\ row'[q].st \in {"pending", "failed"} => delivered[q] = 0
              /\ row'[q].lease # "none" => row'[q].st = "processing",
           \/ worker' = Idle
           \/ /\ worker' \in HeldAttempt /\ worker'.at = "claimed"
              /\ delivered[worker'.part] = 0
              /\ row'[worker'.part].st = "processing" /\ row'[worker'.part].route # "none"
    PROVE  IInv' /\ Settling
PROOF
  <1>1. Types'
    BY DEF IInv, Types
  <1>2. RowInv'
    <2> SUFFICES ASSUME NEW q \in Parts  PROVE PartInv(q)'
      BY DEF RowInv
    <2> QED BY DEF IInv, RowInv, PartInv
  <1>3. LayoutInv'
    <2> SUFFICES ASSUME NEW k \in Keys, row'[<<k, 1>>].route = "none", NEW i \in 2 .. MaxParts
                 PROVE  row'[<<k, i>>].st = "absent"
      BY DEF LayoutInv
    <2>1. <<k, 1>> \in Parts /\ <<k, i>> \in Parts
      BY DEF Parts, BoundsAssumption
    <2>2. row[<<k, 1>>].route = "none"
      BY <2>1
    <2>3. row[<<k, i>>].st = "absent"
      BY <2>2 DEF IInv, LayoutInv
    <2> QED BY <2>1, <2>3
  <1>4. EventInv'
    <2> SUFFICES ASSUME NEW k \in Keys, event[k] = "none"  PROVE row'[<<k, 1>>].st = "absent"
      BY DEF EventInv
    <2>1. row[<<k, 1>>].st = "absent" /\ <<k, 1>> \in Parts
      BY FirstPart DEF IInv, EventInv
    <2> QED BY <2>1
  <1>5. WorkerInv'
    BY DEF WorkerInv, BeforeSend
  <1>6. Settling
    BY DEF Settling
  <1> QED BY <1>1, <1>2, <1>3, <1>4, <1>5, <1>6 DEF IInv

(* A part whose lease expired is queued again only if it is local.         *)
LEMMA SweptRows ==
    ASSUME IInv, NEW q \in Parts
    PROVE  /\ Swept[q] \in Row
           /\ \/ Swept[q] = row[q]
              \/ /\ row[q].st = "processing" /\ row[q].route # "none"
                 /\ Swept[q].st \in {"pending", "uncertain"} /\ Swept[q].route = row[q].route
                 /\ ~Swept[q].event /\ Swept[q].lease = "none"
                 /\ Swept[q].st = "pending" => delivered[q] = 0
PROOF
  <1>1. row[q] \in Row /\ PartInv(q)
    BY DEF IInv, Types, RowInv
  <1>2. CASE ~(row[q].st = "processing" /\ row[q].lease = "past")
    BY <1>1, <1>2 DEF Swept
  <1>3. CASE row[q].st = "processing" /\ row[q].lease = "past"
    <2> DEFINE st == IF row[q].route = "local" THEN "pending" ELSE "uncertain"
               e == [row[q] EXCEPT !.st = st, !.err = "lease", !.lease = "none"]
    <2>1. ~row[q].event
      BY <1>1, <1>3 DEF PartInv
    <2>2. Swept[q] = Expired(row[q]) /\ Expired(row[q]) = e
      BY <1>3, <2>1 DEF Swept, Expired
    <2>3. st \in {"pending", "uncertain"} /\ (st = "pending" => row[q].route = "local")
      OBVIOUS
    <2> HIDE DEF st
    <2>4. e \in Row /\ e.st = st /\ e.route = row[q].route /\ e.event = row[q].event /\ e.lease = "none"
      BY <1>1, <2>3 DEF Row, St, Terminal, Errs
    <2> HIDE DEF e
    <2> QED BY <1>1, <1>3, <2>1, <2>2, <2>3, <2>4 DEF PartInv
  <1> QED BY <1>2, <1>3

LEMMA ClaimOutboxInv ==
    ASSUME BoundsAssumption, IInv, ClaimOutbox
    PROVE  IInv' /\ Settling
PROOF
  <1>1. worker = Idle /\ UNCHANGED <<event, delivered, ledger>>
    BY DEF ClaimOutbox, IInv, Types, HeldAttempt, BeforeSend, Idle
  <1>2. Swept \in [Parts -> Row]
    BY SweptRows DEF Swept
  <1>3. CASE row' = Swept /\ UNCHANGED worker
    BY <1>1, <1>2, <1>3, SweptRows, ClaimMove
  <1>4. ASSUME NEW p \in Claimable(Swept), NEW r \in Row, row' = [Swept EXCEPT ![p] = r],
               r.st \in {"processing", "failed"}, r.route = Swept[p].route,
               r.event = Swept[p].event, r.lease # "none" => r.st = "processing",
               \/ worker' = Idle
               \/ /\ worker' \in HeldAttempt /\ worker'.at = "claimed"
                  /\ worker'.part = p /\ r.st = "processing"
        PROVE  IInv' /\ Settling
    <2>1. p \in Parts /\ Swept[p].st = "pending" /\ Swept[p].route # "none"
      BY DEF Claimable
    <2>2. \A q \in Parts : row'[q] = IF q = p THEN r ELSE Swept[q]
      BY <1>2, <1>4
    <2>3. PartInv(p) /\ row[p] \in Row
      BY <2>1 DEF IInv, RowInv, Types
    <2>4. /\ row[p].st \in {"pending", "processing"} /\ row[p].route = Swept[p].route
          /\ delivered[p] = 0 /\ ~Swept[p].event
      BY <2>1, <2>3, SweptRows DEF PartInv, Row
    <2>5. row' \in [Parts -> Row]
      BY <1>2, <1>4
    <2>6. \A q \in Parts : row'[q] = row[q] \/
              /\ row[q].st \in {"pending", "processing"}
              /\ row'[q].st \in {"pending", "processing", "failed", "uncertain"}
              /\ row'[q].route = row[q].route /\ row[q].route # "none"
              /\ ~row'[q].event
              /\ row'[q].st \in {"pending", "failed"} => delivered[q] = 0
              /\ row'[q].lease # "none" => row'[q].st = "processing"
      <3> SUFFICES ASSUME NEW q \in Parts, row'[q] # row[q]
                   PROVE /\ row[q].st \in {"pending", "processing"}
                         /\ row'[q].st \in {"pending", "processing", "failed", "uncertain"}
                         /\ row'[q].route = row[q].route /\ row[q].route # "none"
                         /\ ~row'[q].event
                         /\ row'[q].st \in {"pending", "failed"} => delivered[q] = 0
                         /\ row'[q].lease # "none" => row'[q].st = "processing"
        OBVIOUS
      <3>1. CASE q = p
        BY <1>4, <2>1, <2>2, <2>4, <3>1
      <3>2. CASE q # p
        BY <2>2, <3>2, SweptRows
      <3> QED BY <3>1, <3>2
    <2>7. \/ worker' = Idle
          \/ /\ worker' \in HeldAttempt /\ worker'.at = "claimed"
             /\ delivered[worker'.part] = 0
             /\ row'[worker'.part].st = "processing" /\ row'[worker'.part].route # "none"
      BY <1>4, <2>1, <2>2, <2>4
    <2> QED BY <1>1, <2>5, <2>6, <2>7, ClaimMove
  <1>5. CASE ~(row' = Swept /\ UNCHANGED worker)
    <2> DEFINE n(p) == Swept[p].attempts + 1
               taken(p) == [Swept[p] EXCEPT !.st = "processing", !.attempts = n(p), !.lease = "live"]
               ended(p) == [Swept[p] EXCEPT !.st = "failed", !.attempts = n(p), !.err = "permanent"]
    <2>1. PICK p \in Claimable(Swept) :
             \/ /\ row' = [Swept EXCEPT ![p] = taken(p)]
                /\ worker' = [at |-> "claimed", part |-> p, attempt |-> n(p)]
             \/ row' = [Swept EXCEPT ![p] = ended(p)] /\ worker' = worker
      <3>1. PICK p \in Claimable(Swept) :
               \/ /\ row' = [Swept EXCEPT ![p].st = "processing", ![p].attempts = n(p),
                                          ![p].lease = "live"]
                  /\ worker' = [at |-> "claimed", part |-> p, attempt |-> n(p)]
               \/ /\ row' = [Swept EXCEPT ![p].st = "failed", ![p].attempts = n(p),
                                          ![p].err = "permanent"]
                  /\ worker' = worker
        <4> HIDE DEF taken, ended
        <4> QED BY <1>5 DEF ClaimOutbox
      <3> HIDE DEF n
      <3> QED BY <1>2, <3>1
    <2>2. p \in Parts /\ Swept[p] \in Row /\ Swept[p].st = "pending"
      BY <1>2 DEF Claimable
    <2>3. n(p) \in Nat
      BY <2>2 DEF Row
    <2>4. Swept[p].lease = "none"
      BY <2>2, SweptRows DEF IInv, RowInv, PartInv
    <2> HIDE DEF n
    <2>5. /\ taken(p) \in Row /\ taken(p).st = "processing" /\ taken(p).route = Swept[p].route
          /\ taken(p).event = Swept[p].event
      BY <2>2, <2>3 DEF Row, St
    <2>6. /\ ended(p) \in Row /\ ended(p).st = "failed" /\ ended(p).route = Swept[p].route
          /\ ended(p).event = Swept[p].event /\ ended(p).lease = "none"
      BY <2>2, <2>3, <2>4 DEF Row, St, Terminal, Errs
    <2>7. CASE row' = [Swept EXCEPT ![p] = taken(p)]
               /\ worker' = [at |-> "claimed", part |-> p, attempt |-> n(p)]
      <3>1. worker' \in HeldAttempt /\ worker'.at = "claimed" /\ worker'.part = p
        BY <2>2, <2>3, <2>7 DEF HeldAttempt, BeforeSend
      <3> HIDE DEF taken
      <3> QED BY <1>4, <2>5, <2>7, <3>1
    <2>8. CASE row' = [Swept EXCEPT ![p] = ended(p)] /\ worker' = worker
      <3> HIDE DEF ended
      <3> QED BY <1>1, <1>4, <2>6, <2>8
    <2> QED BY <2>1, <2>7, <2>8
  <1> QED BY <1>3, <1>5

-----------------------------------------------------------------------------
(* The record.                                                             *)

(* What a commit of the outbound event finds and leaves.                   *)
LEMMA RecordedInv ==
    ASSUME BoundsAssumption, IInv, At("taken"), Recordable(worker.part, worker.attempt),
           Recorded(worker.part), UNCHANGED <<event, delivered>>,
           worker' = Idle \/ worker' = [worker EXCEPT !.at = "unrecorded"]
    PROVE  IInv' /\ Settling
PROOF
  <1> DEFINE p == worker.part
             m == row[p].route # "local"
             new == [row[p] EXCEPT !.st = "sent", !.event = TRUE, !.err = "none",
                                   !.message = m, !.lease = "none"]
  <1>1. worker # Idle /\ worker \in HeldAttempt /\ worker.at = "taken"
    BY DEF At, IInv, Types, Idle
  <1>2. /\ p \in Parts /\ row[p] \in Row /\ PartInv(p) /\ row[p].route # "none"
        /\ row[p].route = "platform" => delivered[p] = 1
        /\ row[p].st \in {"processing", "cancelled"}
    BY <1>1 DEF IInv, Types, RowInv, WorkerInv, HeldAttempt
  <1>3. row[p].st = "processing"
    <2>1. CASE row[p].route = "local"
      BY <2>1 DEF Recordable, SettleLocal, Owns
    <2>2. CASE row[p].route # "local"
      <3>1. FinishOutbox(row[p], worker.attempt, "sent", TRUE, "none").st = "sent"
        BY <2>2 DEF Recordable
      <3>2. FinishOutbox(row[p], worker.attempt, "sent", TRUE, "none") # row[p]
        BY <1>2, <3>1
      <3> QED BY <1>2, <3>2 DEF FinishOutbox, Owns
    <2> QED BY <2>1, <2>2
  <1>4. ledger[p] = 0
    BY <1>2, <1>3 DEF PartInv
  <1>5. row' = [row EXCEPT ![p] = new] /\ ledger' = [ledger EXCEPT ![p] = 1]
    <2>1. row' = [row EXCEPT ![p].st = "sent", ![p].event = TRUE, ![p].err = "none",
                             ![p].message = m, ![p].lease = "none"]
      BY DEF Recorded
    <2>2. row \in [Parts -> Row] /\ ledger' = [ledger EXCEPT ![p] = ledger[p] + 1]
      BY DEF Recorded, IInv, Types
    <2> HIDE DEF m, p
    <2>3. ledger' = [ledger EXCEPT ![p] = 1]
      BY <1>4, <2>2
    <2>4. row' = [row EXCEPT ![p] = new]
      BY <1>2, <2>1, <2>2
    <2> QED BY <2>3, <2>4
  <1>6. /\ new \in Row /\ new.st = "sent" /\ new.route = row[p].route /\ new.lease = "none"
    <2>1. m \in BOOLEAN
      OBVIOUS
    <2> HIDE DEF m
    <2> QED BY <1>2, <2>1 DEF Row, St, Terminal, Errs
  <1> HIDE DEF new, m
  <1>7. \A q \in Parts : /\ row'[q] = IF q = p THEN new ELSE row[q]
                         /\ ledger'[q] = IF q = p THEN 1 ELSE ledger[q]
    BY <1>2, <1>5 DEF IInv, Types
  <1>8. worker' = Idle \/ (worker' \in HeldAttempt /\ worker'.at = "unrecorded" /\ worker'.part = p)
    BY <1>1 DEF HeldAttempt
  <1>9. Types'
    BY <1>2, <1>5, <1>6, <1>8 DEF IInv, Types
  <1>10. RowInv'
    <2> SUFFICES ASSUME NEW q \in Parts  PROVE PartInv(q)'
      BY DEF RowInv
    <2>1. CASE q = p
      BY <1>2, <1>6, <1>7, <2>1 DEF PartInv
    <2>2. CASE q # p
      BY <1>7, <2>2 DEF IInv, RowInv, PartInv
    <2> QED BY <2>1, <2>2
  <1>11. LayoutInv'
    <2> SUFFICES ASSUME NEW k \in Keys, row'[<<k, 1>>].route = "none", NEW i \in 2 .. MaxParts
                 PROVE  row'[<<k, i>>].st = "absent"
      BY DEF LayoutInv
    <2>1. <<k, 1>> \in Parts /\ <<k, i>> \in Parts
      BY DEF Parts, BoundsAssumption
    <2>2. row[<<k, i>>].st = "absent"
      BY <1>6, <1>7, <2>1 DEF IInv, LayoutInv
    <2> QED BY <1>3, <1>7, <2>1, <2>2
  <1>12. EventInv'
    <2> SUFFICES ASSUME NEW k \in Keys, event[k] = "none"  PROVE row'[<<k, 1>>].st = "absent"
      BY DEF EventInv
    <2>1. row[<<k, 1>>].st = "absent" /\ <<k, 1>> \in Parts
      BY FirstPart DEF IInv, EventInv
    <2> QED BY <1>3, <1>7, <2>1
  <1>13. WorkerInv'
    BY <1>2, <1>6, <1>7, <1>8 DEF WorkerInv, BeforeSend
  <1>14. Settling
    BY <1>3, <1>7 DEF Settling
  <1> QED BY <1>9, <1>10, <1>11, <1>12, <1>13, <1>14 DEF IInv

(* Nothing was recorded: the worker lets go of the part or looks for it.   *)
LEMMA NotRecorded ==
    ASSUME IInv, At("taken"), UNCHANGED <<event, row, delivered, ledger>>,
           worker' = Idle \/ worker' = [worker EXCEPT !.at = "unrecorded"]
    PROVE  IInv' /\ Settling
PROOF
  <1>1. worker # Idle /\ worker \in HeldAttempt /\ worker.at = "taken"
    BY DEF At, IInv, Types, Idle
  <1>2. worker' = Idle
        \/ (worker' \in HeldAttempt /\ worker'.at = "unrecorded" /\ worker'.part = worker.part)
    BY <1>1 DEF HeldAttempt
  <1>3. Types' /\ RowInv' /\ LayoutInv' /\ EventInv' /\ Settling
    BY <1>2 DEF IInv, Types, RowInv, PartInv, LayoutInv, EventInv, Settling
  <1>4. WorkerInv'
    BY <1>1, <1>2 DEF IInv, WorkerInv, BeforeSend
  <1> QED BY <1>3, <1>4 DEF IInv

LEMMA RecordOutboundInv ==
    ASSUME BoundsAssumption, IInv, RecordOutbound
    PROVE  IInv' /\ Settling
PROOF
  <1>1. At("taken") /\ UNCHANGED <<event, delivered>>
    BY DEF RecordOutbound
  <1>2. CASE Recordable(worker.part, worker.attempt)
    <2>1. Recorded(worker.part) /\ worker' = Idle
      BY <1>2 DEF RecordOutbound
    <2> QED BY <1>1, <1>2, <2>1, RecordedInv
  <1>3. CASE ~Recordable(worker.part, worker.attempt)
    <2>1. UNCHANGED <<row, ledger>>
          /\ (worker' = Idle \/ worker' = [worker EXCEPT !.at = "unrecorded"])
      BY <1>3 DEF RecordOutbound
    <2> QED BY <1>1, <2>1, NotRecorded
  <1> QED BY <1>2, <1>3

LEMMA RecordRaisesInv ==
    ASSUME BoundsAssumption, IInv, NEW committed \in BOOLEAN, RecordRaises(committed)
    PROVE  IInv' /\ Settling
PROOF
  <1>1. /\ At("taken") /\ UNCHANGED <<event, delivered>>
        /\ worker' = [worker EXCEPT !.at = "unrecorded"]
    BY DEF RecordRaises
  <1>2. CASE committed
    <2>1. Recordable(worker.part, worker.attempt) /\ Recorded(worker.part)
      BY <1>2 DEF RecordRaises
    <2> QED BY <1>1, <2>1, RecordedInv
  <1>3. CASE ~committed
    <2>1. UNCHANGED <<row, ledger>>
      BY <1>3 DEF RecordRaises
    <2> QED BY <1>1, <2>1, NotRecorded
  <1> QED BY <1>2, <1>3

-----------------------------------------------------------------------------
(* The receipts.                                                           *)

LEMMA InitCallInv == Init => CallInv
PROOF BY DEF Init, CallInv, Idle

LEMMA PublishReadCall ==
    ASSUME "none" \notin Contents, CallInv,
           NEW c \in Callers, NEW k \in Keys, NEW v \in Contents, PublishRead(c, k, v)
    PROVE  CallInv'
PROOF
  <1> DEFINE new == IF ~granted \/ ~readable
                    THEN [at |-> "done", key |-> k, content |-> v, receipt |-> "refused"]
                    ELSE IF event[k] # "none" THEN ExistingReceipt(k, v)
                    ELSE [at |-> "prepared", key |-> k, content |-> v]
  <1>1. call' = [call EXCEPT ![c] = new] /\ event' = event
    BY DEF PublishRead
  <1>2. /\ new \in Call
        /\ new.at = "done" => new.receipt # "created"
        /\ (new.at = "done" /\ new.receipt \in Success) => event[new.key] = new.content
    BY DEF Call, ExistingReceipt, Success
  <1> HIDE DEF new
  <1>3. \A d \in Callers : call'[d] = IF d = c THEN new ELSE call[d]
    BY <1>1 DEF CallInv
  <1> QED BY <1>1, <1>2, <1>3 DEF CallInv

(* Only the commit that finds its key free gets the receipt of a creation; *)
(* a key with such a receipt is not free.                                  *)
LEMMA PublishCommitCall ==
    ASSUME "none" \notin Contents, CallInv, NEW c \in Callers, PublishCommit(c)
    PROVE  CallInv'
PROOF
  <1> DEFINE k == call[c].key
             v == call[c].content
  <1>1. call[c] \in Call /\ k \in Keys /\ v \in Contents /\ call[c].at = "prepared"
    BY DEF PublishCommit, CallInv, Call, Idle
  <1>2. CASE ~granted \/ ~readable
    <2> DEFINE new == [at |-> "done", key |-> k, content |-> v, receipt |-> "refused"]
    <2>1. call' = [call EXCEPT ![c] = new] /\ event' = event
      BY <1>2 DEF PublishCommit
    <2>2. new \in Call /\ new.receipt = "refused"
      BY <1>1 DEF Call
    <2> HIDE DEF new
    <2>3. \A d \in Callers : call'[d] = IF d = c THEN new ELSE call[d]
      BY <2>1 DEF CallInv
    <2> QED BY <2>1, <2>2, <2>3 DEF CallInv, Success
  <1>3. CASE granted /\ readable /\ event[k] # "none"
    <2> DEFINE new == [call[c] EXCEPT !.at = "again"]
    <2>1. call' = [call EXCEPT ![c] = new] /\ event' = event
      BY <1>3 DEF PublishCommit, CallInv
    <2>2. new \in Call /\ new.at = "again"
      BY <1>1 DEF Call
    <2> HIDE DEF new
    <2>3. \A d \in Callers : call'[d] = IF d = c THEN new ELSE call[d]
      BY <2>1 DEF CallInv
    <2> QED BY <2>1, <2>2, <2>3 DEF CallInv
  <1>4. CASE granted /\ readable /\ event[k] = "none"
    <2> DEFINE new == [at |-> "done", key |-> k, content |-> v, receipt |-> "created"]
    <2>1. call' = [call EXCEPT ![c] = new] /\ event' = [event EXCEPT ![k] = v]
      BY <1>4 DEF PublishCommit
    <2>2. new \in Call /\ new.key = k /\ new.content = v
      BY <1>1 DEF Call
    <2> HIDE DEF new
    <2>3. \A d \in Callers : call'[d] = IF d = c THEN new ELSE call[d]
      BY <2>1 DEF CallInv
    <2>4. \A j \in Keys : event'[j] = IF j = k THEN v ELSE event[j]
      BY <2>1 DEF CallInv
    <2>5. \A d \in Callers : (call[d].at = "done" /\ call[d].receipt \in Success)
                             => call[d] \in Call /\ call[d].key \in Keys /\ call[d].key # k
      <3> SUFFICES ASSUME NEW d \in Callers, call[d].at = "done", call[d].receipt \in Success
                   PROVE  call[d] \in Call /\ call[d].key \in Keys /\ call[d].key # k
        OBVIOUS
      <3>1. call[d] \in Call /\ call[d].key \in Keys /\ call[d].content \in Contents
        BY DEF CallInv, Call, Idle
      <3>2. event[call[d].key] = call[d].content
        BY DEF CallInv
      <3> QED BY <1>4, <3>1, <3>2
    <2>6. event' \in [Keys -> Contents \cup {"none"}] /\ call' \in [Callers -> {Idle} \cup Call]
      BY <1>1, <2>1, <2>2 DEF CallInv
    <2>7. ASSUME NEW d \in Callers, call'[d].at = "done", call'[d].receipt \in Success
          PROVE  event'[call'[d].key] = call'[d].content
      <3>1. CASE d = c
        BY <1>1, <2>2, <2>3, <2>4, <3>1
      <3>2. CASE d # c
        BY <2>3, <2>4, <2>5, <2>7, <3>2 DEF CallInv
      <3> QED BY <3>1, <3>2
    <2>8. ASSUME NEW d \in Callers, NEW e \in Callers, d # e,
                 call'[d].at = "done", call'[d].receipt = "created",
                 call'[e].at = "done", call'[e].receipt = "created"
          PROVE  call'[d].key # call'[e].key
      <3>1. CASE d # c /\ e # c
        BY <2>3, <2>8, <3>1 DEF CallInv
      <3>2. CASE d = c
        BY <2>2, <2>3, <2>5, <2>8, <3>2 DEF Success
      <3>3. CASE e = c
        BY <2>2, <2>3, <2>5, <2>8, <3>3 DEF Success
      <3> QED BY <3>1, <3>2, <3>3
    <2> QED BY <2>6, <2>7, <2>8 DEF CallInv
  <1> QED BY <1>2, <1>3, <1>4

LEMMA PublishLostCall ==
    ASSUME CallInv, NEW c \in Callers, PublishLost(c)
    PROVE  CallInv'
PROOF
  <1> DEFINE new == [at |-> "again", key |-> call[c].key, content |-> call[c].content]
  <1>1. call' = [call EXCEPT ![c] = new] /\ event' = event /\ call[c].at = "done"
    BY DEF PublishLost
  <1>2. new \in Call /\ new.at = "again"
    BY <1>1 DEF CallInv, Call, Idle
  <1> HIDE DEF new
  <1>3. \A d \in Callers : call'[d] = IF d = c THEN new ELSE call[d]
    BY <1>1 DEF CallInv
  <1> QED BY <1>1, <1>2, <1>3 DEF CallInv

LEMMA CallUnchanged ==
    ASSUME CallInv, UNCHANGED <<event, call>>
    PROVE  CallInv'
PROOF BY DEF CallInv

-----------------------------------------------------------------------------
(* Every step keeps the invariant and lets settled rows stay.              *)
LEMMA StepInv ==
    ASSUME BoundsAssumption, "none" \notin Contents, IInv, CallInv, [Next]_vars
    PROVE  IInv' /\ CallInv' /\ Settling
PROOF
  <1>1. CASE UNCHANGED vars
    BY <1>1, Unmoved, CallUnchanged DEF vars, Moves
  <1>2. ASSUME NEW c \in Callers, NEW k \in Keys, NEW v \in Contents, PublishRead(c, k, v)
        PROVE  IInv' /\ CallInv' /\ Settling
    <2>1. UNCHANGED <<event, row, worker, delivered, ledger>>
      BY <1>2 DEF PublishRead
    <2> QED BY <1>2, <2>1, Unmoved, PublishReadCall DEF Moves
  <1>3. ASSUME NEW c \in Callers, PublishCommit(c)
        PROVE  IInv' /\ CallInv' /\ Settling
    BY <1>3, PublishCommitInv, PublishCommitCall
  <1>4. ASSUME NEW c \in Callers, PublishLost(c)
        PROVE  IInv' /\ CallInv' /\ Settling
    <2>1. UNCHANGED <<event, row, worker, delivered, ledger>>
      BY <1>4 DEF PublishLost
    <2> QED BY <1>4, <2>1, Unmoved, PublishLostCall DEF Moves
  <1>5. CASE RevokeTarget
    BY <1>5, RevokeInv, CallUnchanged DEF RevokeTarget
  <1>6. CASE GrantTarget \/ OwnerEnds \/ WorkerLost
    <2>1. UNCHANGED <<event, row, delivered, ledger, call>> /\ Moves
      BY <1>6 DEF GrantTarget, OwnerEnds, WorkerLost, Moves
    <2> QED BY <2>1, Unmoved, CallUnchanged
  <1>7. ASSUME NEW p \in Parts, NEW n \in 1 .. MaxParts, NEW r \in {"local", "platform"},
               PrepareOutbox(p, n, r)
        PROVE  IInv' /\ CallInv' /\ Settling
    BY <1>7, PrepareOutboxInv, CallUnchanged DEF PrepareOutbox
  <1>8. ASSUME NEW p \in Parts, PrepareRefused(p)
        PROVE  IInv' /\ CallInv' /\ Settling
    BY <1>8, PrepareRefusedInv, CallUnchanged DEF PrepareRefused
  <1>9. ASSUME NEW p \in Parts, LeasePasses(p)
        PROVE  IInv' /\ CallInv' /\ Settling
    BY <1>9, LeasePassesInv, CallUnchanged DEF LeasePasses
  <1>10. ASSUME NEW p \in Parts, BecomesDue(p)
         PROVE  IInv' /\ CallInv' /\ Settling
    BY <1>10, BecomesDueInv, CallUnchanged DEF BecomesDue
  <1>11. CASE ClaimOutbox
    BY <1>11, ClaimOutboxInv, CallUnchanged DEF ClaimOutbox
  <1>12. CASE OutboxReady
    BY <1>12, OutboxReadyInv, CallUnchanged DEF OutboxReady
  <1>13. CASE CheckGrant
    BY <1>13, CheckGrantInv, CallUnchanged DEF CheckGrant
  <1>14. CASE SendFailed
    BY <1>14, SendFailedInv, CallUnchanged DEF SendFailed
  <1>15. CASE RecordOutbound
    BY <1>15, RecordOutboundInv, CallUnchanged DEF RecordOutbound
  <1>16. CASE AfterRecord
    BY <1>16, AfterRecordInv, CallUnchanged DEF AfterRecord
  <1>17. ASSUME NEW answer \in {"taken", "away", "refused", "unknown"}, NEW took \in BOOLEAN,
                Transport(answer, took)
         PROVE  IInv' /\ CallInv' /\ Settling
    BY <1>17, TransportInv, CallUnchanged DEF Transport
  <1>18. ASSUME NEW committed \in BOOLEAN, RecordRaises(committed)
         PROVE  IInv' /\ CallInv' /\ Settling
    BY <1>18, RecordRaisesInv, CallUnchanged DEF RecordRaises
  <1> QED BY <1>1, <1>2, <1>3, <1>4, <1>5, <1>6, <1>7, <1>8, <1>9, <1>10, <1>11, <1>12,
             <1>13, <1>14, <1>15, <1>16, <1>17, <1>18 DEF Next, Deliver

-----------------------------------------------------------------------------
(* The inductive invariant holds in every behaviour: rows, ledger and      *)
(* worker keep their types and say of each other what RowInv and WorkerInv *)
(* state, for any keys, callers, parts and faults.                         *)
THEOREM Inductive ==
    ASSUME BoundsAssumption, "none" \notin Contents
    PROVE  Spec => [](IInv /\ CallInv)
PROOF
  <1>1. Init => IInv /\ CallInv
    BY InitIInv, InitCallInv
  <1>2. (IInv /\ CallInv) /\ [Next]_vars => (IInv /\ CallInv)'
    BY StepInv
  <1> QED BY <1>1, <1>2, PTL DEF Spec

(* No physical part is handed to the platform twice: through failed sends  *)
(* with an unknown outcome, retries, expired leases and restarts of the    *)
(* delivery worker (PluginOutbox!DeliveredOnce).                           *)
THEOREM AtMostOneDelivery ==
    ASSUME BoundsAssumption, "none" \notin Contents
    PROVE  Spec => []DeliveredOnce
PROOF
  <1>1. IInv => DeliveredOnce
    BY DEF IInv, Types, DeliveredOnce
  <1> QED BY <1>1, Inductive, PTL

(* claim_outbox and retry_outbox never queue again what the platform may   *)
(* have taken, nor call it failed (PluginOutbox!QueuedIsUnsent).           *)
THEOREM NeverRequeued ==
    ASSUME BoundsAssumption, "none" \notin Contents
    PROVE  Spec => []QueuedIsUnsent
PROOF
  <1>1. IInv => QueuedIsUnsent
    BY DEF IInv, RowInv, PartInv, QueuedIsUnsent
  <1> QED BY <1>1, Inductive, PTL

(* A part has exactly one outbound event in the ledger when its row is     *)
(* "sent" and none otherwise, and a sent part of a platform was taken by   *)
(* it (PluginOutbox!LedgerMatchesSent).                                    *)
THEOREM TrueLedger ==
    ASSUME BoundsAssumption, "none" \notin Contents
    PROVE  Spec => []LedgerMatchesSent
PROOF
  <1>1. IInv => LedgerMatchesSent
    BY DEF IInv, RowInv, PartInv, LedgerMatchesSent
  <1> QED BY <1>1, Inductive, PTL

(* Of all calls of notifications.publish with one event key at most one    *)
(* creates the event, and each receipt of success is for the content that  *)
(* was published (PluginOutbox!ReceiptsAgree).                             *)
THEOREM OneCreation ==
    ASSUME BoundsAssumption, "none" \notin Contents
    PROVE  Spec => []ReceiptsAgree
PROOF
  <1>1. CallInv => ReceiptsAgree
    BY DEF CallInv, ReceiptsAgree, Success
  <1> QED BY <1>1, Inductive, PTL

(* Sent, failed and cancelled rows keep their status and an uncertain row  *)
(* can only become sent, whatever late worker, revocation or sweep of      *)
(* expired leases follows (PluginOutbox!EndsAreFinal).                     *)
THEOREM SettledForGood ==
    ASSUME BoundsAssumption, "none" \notin Contents
    PROVE  Spec => EndsAreFinal
PROOF
  <1>1. (IInv /\ CallInv) /\ [Next]_vars => [Settling]_vars
    BY StepInv
  <1> QED BY <1>1, Inductive, PTL DEF Spec, EndsAreFinal

-----------------------------------------------------------------------------
(* The types that the invariants above do not need: only a row in          *)
(* processing has a lease, an unrouted row was never attempted, and a part *)
(* that leaves the process is attempted at most MaxAttempts times.         *)
Tidy(r) ==
    /\ r.st = "processing" => r.lease # "none"
    /\ r.route = "none" => r.attempts = 0
    /\ r.route = "platform" => /\ r.attempts <= MaxAttempts
                               /\ r.st = "pending" => r.attempts < MaxAttempts

Kept(old, new) == Tidy(new) /\ (old.st # "absent" => new.st # "absent")

TidyInv == \A p \in Parts : Tidy(row[p])

(* The keys in the order of their rows, and a row for each.                *)
KeyInv ==
    /\ order \in Seq(Keys)
    /\ ToSet(order) = {k \in Keys : event[k] # "none"}
    /\ \A k \in Keys : event[k] # "none" => row[<<k, 1>>].st # "absent"

CountInv ==
    /\ granted \in BOOLEAN /\ readable \in BOOLEAN
    /\ faults \in 0 .. MaxFaults /\ changes \in 0 .. MaxChanges

RowsKept == \A p \in Parts : Kept(row[p], row'[p])

LEMMA Unaltered ==
    ASSUME TidyInv, row' = row
    PROVE  RowsKept
PROOF BY DEF TidyInv, RowsKept, Kept

LEMMA OneRow ==
    ASSUME IInv, TidyInv, NEW p \in Parts, NEW r, row' = [row EXCEPT ![p] = r], Kept(row[p], r)
    PROVE  RowsKept
PROOF
  <1>1. \A q \in Parts : row'[q] = IF q = p THEN r ELSE row[q]
    BY DEF IInv, Types
  <1> QED BY <1>1 DEF TidyInv, RowsKept, Kept

LEMMA FinishKept ==
    ASSUME BoundsAssumption, NEW r \in Row, Tidy(r), NEW n, NEW m \in BOOLEAN, NEW e,
           NEW st \in {"sent", "failed", "uncertain", "cancelled"}
    PROVE  Kept(r, FinishOutbox(r, n, st, m, e))
PROOF
  <1> DEFINE f == [r EXCEPT !.st = st, !.message = m, !.err = e, !.lease = "none"]
  <1>1. FinishOutbox(r, n, st, m, e) \in {r, f}
    BY DEF FinishOutbox
  <1>2. f.st = st /\ f.route = r.route /\ f.attempts = r.attempts
    BY DEF Row
  <1> HIDE DEF f
  <1>3. Kept(r, f)
    BY <1>2 DEF Kept, Tidy
  <1> QED BY <1>1, <1>3 DEF Kept

LEMMA RetryKept ==
    ASSUME BoundsAssumption, NEW r \in Row, Tidy(r), NEW n, NEW e
    PROVE  Kept(r, RetryOutbox(r, n, e))
PROOF
  <1> DEFINE full == r.attempts >= MaxAttempts
             st == IF full THEN "failed" ELSE "pending"
             f == [r EXCEPT !.st = st, !.due = full, !.err = e, !.lease = "none"]
  <1>1. RetryOutbox(r, n, e) \in {r, f}
    BY DEF RetryOutbox
  <1>2. st \in {"failed", "pending"} /\ (st = "pending" => ~(r.attempts >= MaxAttempts))
    OBVIOUS
  <1> HIDE DEF st, full
  <1>3. f.st = st /\ f.route = r.route /\ f.attempts = r.attempts
    BY DEF Row
  <1> HIDE DEF f
  <1>4. r.attempts \in Nat /\ MaxAttempts \in Nat
    BY DEF Row, BoundsAssumption
  <1>5. Kept(r, f)
    BY <1>2, <1>3, <1>4 DEF Kept, Tidy
  <1> QED BY <1>1, <1>5 DEF Kept

LEMMA RecoverKept ==
    ASSUME NEW r \in Row, Tidy(r), NEW n
    PROVE  Kept(r, RecoverLocal(r, n))
PROOF
  <1>1. RecoverLocal(r, n) = r
        \/ /\ r.route = "local" /\ RecoverLocal(r, n).st = "pending"
           /\ RecoverLocal(r, n).route = r.route
    BY DEF RecoverLocal, Row
  <1> QED BY <1>1 DEF Kept, Tidy

LEMMA ExpiredKept ==
    ASSUME NEW r \in Row, Tidy(r), r.st = "processing"
    PROVE  Kept(r, Expired(r)) /\ Expired(r).attempts = r.attempts
PROOF
  <1> DEFINE st == IF r.event THEN "sent" ELSE IF r.route = "local" THEN "pending" ELSE "uncertain"
             e  == IF st = "sent" THEN "none" ELSE "lease"
             f  == [r EXCEPT !.st = st, !.err = e, !.lease = "none"]
  <1>1. Expired(r) = f
    BY DEF Expired
  <1>2. st \in {"sent", "pending", "uncertain"} /\ (st = "pending" => r.route = "local")
    OBVIOUS
  <1> HIDE DEF st, e
  <1>3. f.st = st /\ f.route = r.route /\ f.attempts = r.attempts
    BY DEF Row
  <1> HIDE DEF f
  <1> QED BY <1>1, <1>2, <1>3 DEF Kept, Tidy

(* The worker's steps on the row of its part.                              *)
LEMMA WorkerRows ==
    ASSUME BoundsAssumption, IInv, TidyInv, OutboxReady \/ CheckGrant \/ SendFailed \/ AfterRecord
    PROVE  RowsKept
PROOF
  <1> DEFINE p == worker.part
             n == worker.attempt
  <1>1. worker # Idle
    <2>1. worker.at \in {"claimed", "ready", "away", "refused", "unknown", "unrecorded"}
      BY DEF OutboxReady, CheckGrant, SendFailed, AfterRecord, At
    <2> QED BY <2>1 DEF Idle
  <1>2. p \in Parts /\ row[p] \in Row /\ Tidy(row[p])
    BY <1>1 DEF IInv, Types, HeldAttempt, TidyInv
  <1>3. CASE OutboxReady
    <2>1. \/ row' = row
          \/ row' = [row EXCEPT ![p] = FinishOutbox(row[p], n, "failed", FALSE, "permanent")]
          \/ row' = [row EXCEPT ![p].lease = "live"]
      BY <1>3 DEF OutboxReady, Settles
    <2>2. CASE row' = [row EXCEPT ![p].lease = "live"]
      <3> DEFINE r == [row[p] EXCEPT !.lease = "live"]
      <3>1. row' = [row EXCEPT ![p] = r]
        BY <2>2
      <3>2. r.st = row[p].st /\ r.route = row[p].route /\ r.attempts = row[p].attempts
            /\ r.lease = "live"
        BY <1>2 DEF Row
      <3> HIDE DEF r
      <3>3. Kept(row[p], r)
        BY <1>2, <3>2 DEF Kept, Tidy
      <3> HIDE DEF p
      <3> QED BY <1>2, <3>1, <3>3, OneRow
    <2> HIDE DEF p
    <2>3. Kept(row[p], FinishOutbox(row[p], n, "failed", FALSE, "permanent"))
      BY <1>2, FinishKept
    <2> QED BY <1>2, <2>1, <2>2, <2>3, Unaltered, OneRow
  <1>4. CASE CheckGrant
    <2>1. \/ row' = row
          \/ row' = [row EXCEPT ![p] = FinishOutbox(row[p], n, "cancelled", FALSE, "revoked")]
      BY <1>4 DEF CheckGrant, Settles
    <2> HIDE DEF p
    <2>2. Kept(row[p], FinishOutbox(row[p], n, "cancelled", FALSE, "revoked"))
      BY <1>2, FinishKept
    <2> QED BY <1>2, <2>1, <2>2, Unaltered, OneRow
  <1>5. CASE SendFailed
    <2>1. \/ row' = [row EXCEPT ![p] = RetryOutbox(row[p], n, "gateway")]
          \/ row' = [row EXCEPT ![p] = FinishOutbox(row[p], n, "failed", FALSE, "permanent")]
          \/ row' = [row EXCEPT ![p] = FinishOutbox(row[p], n, "uncertain", FALSE, "unknown")]
      BY <1>5 DEF SendFailed, Settles
    <2> HIDE DEF p
    <2>2. /\ Kept(row[p], RetryOutbox(row[p], n, "gateway"))
          /\ Kept(row[p], FinishOutbox(row[p], n, "failed", FALSE, "permanent"))
          /\ Kept(row[p], FinishOutbox(row[p], n, "uncertain", FALSE, "unknown"))
      BY <1>2, RetryKept, FinishKept
    <2> QED BY <1>2, <2>1, <2>2, OneRow
  <1>6. CASE AfterRecord
    <2>1. \/ row' = [row EXCEPT ![p] = RecoverLocal(row[p], n)]
          \/ row' = [row EXCEPT ![p] = FinishOutbox(row[p], n, "uncertain", TRUE, "unrecorded")]
      BY <1>6 DEF AfterRecord, Settles
    <2> HIDE DEF p
    <2>2. /\ Kept(row[p], RecoverLocal(row[p], n))
          /\ Kept(row[p], FinishOutbox(row[p], n, "uncertain", TRUE, "unrecorded"))
      BY <1>2, RecoverKept, FinishKept
    <2> QED BY <1>2, <2>1, <2>2, OneRow
  <1> QED BY <1>3, <1>4, <1>5, <1>6

LEMMA RecordRows ==
    ASSUME IInv, TidyInv,
           RecordOutbound \/ (\E committed \in BOOLEAN : RecordRaises(committed))
    PROVE  RowsKept
PROOF
  <1> DEFINE p == worker.part
  <1>1. At("taken") /\ (row' = row \/ Recorded(p))
    BY DEF RecordOutbound, RecordRaises
  <1>2. worker # Idle
    BY <1>1 DEF At, Idle
  <1>3. p \in Parts /\ row[p] \in Row /\ Tidy(row[p])
    BY <1>2 DEF IInv, Types, HeldAttempt, TidyInv
  <1>4. CASE Recorded(p)
    <2> DEFINE m == row[p].route # "local"
               r == [row[p] EXCEPT !.st = "sent", !.event = TRUE, !.err = "none",
                                   !.message = m, !.lease = "none"]
    <2>1. row' = [row EXCEPT ![p] = r]
      BY <1>3, <1>4 DEF Recorded, IInv, Types
    <2> HIDE DEF m
    <2>2. r.st = "sent" /\ r.route = row[p].route /\ r.attempts = row[p].attempts
      BY <1>3 DEF Row
    <2> HIDE DEF r, p
    <2>3. Kept(row[p], r)
      BY <1>3, <2>2 DEF Kept, Tidy
    <2> QED BY <1>3, <2>1, <2>3, OneRow
  <1> QED BY <1>1, <1>4, Unaltered

(* The clock, the owner and the layout.                                    *)
LEMMA PartRows ==
    ASSUME IInv, TidyInv, NEW p \in Parts, PrepareRefused(p) \/ LeasePasses(p) \/ BecomesDue(p)
    PROVE  RowsKept
PROOF
  <1>1. row[p] \in Row /\ Tidy(row[p])
    BY DEF IInv, Types, TidyInv
  <1>2. PICK r : /\ row' = [row EXCEPT ![p] = r]
                 /\ \/ r = [row[p] EXCEPT !.st = "failed", !.err = "permanent"]
                    \/ r = [row[p] EXCEPT !.lease = "past"]
                    \/ r = [row[p] EXCEPT !.due = TRUE]
    BY DEF PrepareRefused, LeasePasses, BecomesDue
  <1>3. /\ r.route = row[p].route /\ r.attempts = row[p].attempts
        /\ \/ r.st = "failed"
           \/ r.st = row[p].st /\ (r.lease = row[p].lease \/ r.lease = "past")
    BY <1>1, <1>2 DEF Row
  <1>4. Kept(row[p], r)
    BY <1>1, <1>3 DEF Kept, Tidy
  <1> QED BY <1>2, <1>4, OneRow

LEMMA RevokeRows ==
    ASSUME IInv, TidyInv, RevokeTarget
    PROVE  RowsKept
PROOF
  <1> DEFINE open(q) == row[q].st \in {"pending", "processing"}
             r(q) == [row[q] EXCEPT !.st = "cancelled", !.lease = "none"]
  <1>1. row' = [q \in Parts |-> IF open(q) THEN r(q) ELSE row[q]]
    BY DEF RevokeTarget
  <1>2. \A q \in Parts : row[q] \in Row /\ Tidy(row[q])
    BY DEF IInv, Types, TidyInv
  <1>3. \A q \in Parts : /\ r(q).st = "cancelled" /\ r(q).route = row[q].route
                         /\ r(q).attempts = row[q].attempts
    BY <1>2 DEF Row
  <1>4. \A q \in Parts : row'[q] = r(q) \/ row'[q] = row[q]
    BY <1>1
  <1> HIDE DEF r
  <1> QED BY <1>2, <1>3, <1>4 DEF RowsKept, Kept, Tidy

LEMMA PrepareRows ==
    ASSUME BoundsAssumption, IInv, TidyInv, NEW p \in Parts, NEW n \in 1 .. MaxParts,
           NEW k \in {"local", "platform"}, PrepareOutbox(p, n, k)
    PROVE  RowsKept
PROOF
  <1> DEFINE r == [row[p] EXCEPT !.route = k]
  <1>1. row[p] \in Row /\ Tidy(row[p]) /\ row[p].st = "pending" /\ row[p].route = "none"
    BY DEF PrepareOutbox, IInv, Types, TidyInv
  <1>2. r.st = "pending" /\ r.attempts = 0 /\ r.route = k
    BY <1>1 DEF Row, Tidy
  <1>3. \A q \in Parts : row'[q] = r \/ row'[q] = row[q]
    BY DEF PrepareOutbox
  <1> HIDE DEF r
  <1>4. Tidy(r)
    BY <1>2 DEF Tidy, BoundsAssumption
  <1> QED BY <1>2, <1>3, <1>4 DEF RowsKept, Kept, TidyInv

LEMMA ClaimRows ==
    ASSUME BoundsAssumption, IInv, TidyInv, ClaimOutbox
    PROVE  RowsKept
PROOF
  <1>1. \A q \in Parts : Kept(row[q], Swept[q]) /\ Swept[q].attempts \in Nat
    <2> SUFFICES ASSUME NEW q \in Parts
                 PROVE  Kept(row[q], Swept[q]) /\ Swept[q].attempts \in Nat
      OBVIOUS
    <2>1. row[q] \in Row /\ Tidy(row[q]) /\ row[q].attempts \in Nat
      BY DEF IInv, Types, TidyInv, Row
    <2>2. Swept[q] = row[q] \/ (row[q].st = "processing" /\ Swept[q] = Expired(row[q]))
      BY DEF Swept
    <2> QED BY <2>1, <2>2, ExpiredKept DEF Kept
  <1>2. CASE row' = Swept
    BY <1>1, <1>2 DEF RowsKept
  <1>3. CASE row' # Swept
    <2> DEFINE m(q) == Swept[q].attempts + 1
    <2>1. PICK p \in Claimable(Swept) :
             \/ row' = [Swept EXCEPT ![p].st = "processing", ![p].attempts = m(p),
                                     ![p].lease = "live"]
             \/ row' = [Swept EXCEPT ![p].st = "failed", ![p].attempts = m(p),
                                     ![p].err = "permanent"]
      BY <1>3, ZenonT(60) DEF ClaimOutbox
    <2>2. p \in Parts /\ Swept[p].st = "pending" /\ Swept[p].route # "none"
      BY DEF Claimable
    <2> DEFINE n == m(p)
               taken == [Swept[p] EXCEPT !.st = "processing", !.attempts = n, !.lease = "live"]
               gone == [Swept[p] EXCEPT !.st = "failed", !.attempts = n, !.err = "permanent"]
    <2>3. DOMAIN Swept = Parts
      BY DEF Swept
    <2>4. row' = [Swept EXCEPT ![p] = taken] \/ row' = [Swept EXCEPT ![p] = gone]
      <3> HIDE DEF m
      <3> QED BY <2>1, <2>2, <2>3
    <2>5. Swept[p] \in Row
      BY <2>2, SweptRows
    <2>6. n \in Nat /\ MaxAttempts \in Nat /\ Swept[p].attempts \in Nat
          /\ (Swept[p].route = "platform" => n <= MaxAttempts)
      BY <1>1, <2>2 DEF BoundsAssumption, Kept, Tidy
    <2>7. /\ taken.st = "processing" /\ taken.lease = "live" /\ taken.attempts = n
          /\ taken.route = Swept[p].route
          /\ gone.st = "failed" /\ gone.attempts = n /\ gone.route = Swept[p].route
      <3> HIDE DEF n
      <3> QED BY <2>5 DEF Row
    <2> HIDE DEF taken, gone, n
    <2>8. Tidy(taken) /\ Tidy(gone) /\ taken.st # "absent" /\ gone.st # "absent"
      BY <2>2, <2>6, <2>7 DEF Tidy
    <2>9. \A q \in Parts : row'[q] = IF q = p THEN row'[p] ELSE Swept[q]
      BY <2>3, <2>4
    <2>10. row'[p] \in {taken, gone}
      BY <2>2, <2>3, <2>4
    <2> QED BY <1>1, <2>8, <2>9, <2>10 DEF RowsKept, Kept
  <1> QED BY <1>2, <1>3

(* A publication: the event, its place and its row commit together.        *)
LEMMA PublishRows ==
    ASSUME BoundsAssumption, "none" \notin Contents, IInv, CallInv, TidyInv, KeyInv,
           NEW c \in Callers, PublishCommit(c)
    PROVE  TidyInv' /\ KeyInv'
PROOF
  <1>1. CASE UNCHANGED <<event, order, row>>
    BY <1>1 DEF TidyInv, KeyInv
  <1>2. CASE ~UNCHANGED <<event, order, row>>
    <2> DEFINE k == call[c].key
               v == call[c].content
               new == [NoRow EXCEPT !.st = "pending"]
    <2>1. /\ event[k] = "none" /\ event' = [event EXCEPT ![k] = v] /\ order' = Append(order, k)
          /\ row' = [row EXCEPT ![<<k, 1>>] = new] /\ call[c].at = "prepared"
      BY <1>2 DEF PublishCommit
    <2>2. k \in Keys /\ v \in Contents /\ v # "none"
      BY <2>1 DEF CallInv, Idle, Call
    <2>3. <<k, 1>> \in Parts
      BY <2>2, FirstPart
    <2>4. new.st = "pending" /\ new.route = "none" /\ new.attempts = 0
      BY DEF NoRow
    <2> HIDE DEF new
    <2>5. Tidy(new) /\ new.st # "absent"
      BY <2>4 DEF Tidy
    <2>6. \A q \in Parts : row'[q] = IF q = <<k, 1>> THEN new ELSE row[q]
      BY <2>1 DEF IInv, Types
    <2>7. TidyInv'
      BY <2>5, <2>6 DEF TidyInv
    <2>8. \A j \in Keys : event'[j] = IF j = k THEN v ELSE event[j]
      BY <2>1 DEF CallInv
    <2> HIDE DEF k, v
    <2>9. order' \in Seq(Keys) /\ ToSet(order') = ToSet(order) \cup {k}
      <3>1. /\ order' \in Seq(Keys) /\ Len(order') = Len(order) + 1 /\ Len(order) \in Nat
            /\ \A i \in 1 .. Len(order) : order'[i] = order[i]
            /\ order'[Len(order) + 1] = k
            /\ DOMAIN order = 1 .. Len(order) /\ DOMAIN order' = 1 .. Len(order')
        BY <2>1, <2>2 DEF KeyInv
      <3> QED BY <3>1 DEF ToSet
    <2>10. ToSet(order') = {j \in Keys : event'[j] # "none"}
      BY <2>2, <2>8, <2>9 DEF KeyInv
    <2>11. \A j \in Keys : event'[j] # "none" => row'[<<j, 1>>].st # "absent"
      <3> SUFFICES ASSUME NEW j \in Keys, event'[j] # "none"  PROVE row'[<<j, 1>>].st # "absent"
        OBVIOUS
      <3>1. <<j, 1>> \in Parts
        BY FirstPart
      <3> QED BY <2>5, <2>6, <2>8, <3>1 DEF KeyInv
    <2> QED BY <2>7, <2>9, <2>10, <2>11 DEF KeyInv
  <1> QED BY <1>1, <1>2

(* The steps by what they count: publications, the owner's changes, the    *)
(* work on rows, and faults.                                               *)
Published == \E c \in Callers : PublishCommit(c)
OwnerStep ==
    /\ UNCHANGED <<event, order, faults>> /\ granted' \in {granted, TRUE, FALSE}
    /\ readable' \in {readable, FALSE}
    /\ changes < MaxChanges /\ changes' = changes + 1
RowStep == UNCHANGED <<event, order, granted, readable, faults, changes>>
FaultStep ==
    /\ UNCHANGED <<event, order, granted, readable, changes>>
    /\ faults < MaxFaults /\ faults' = faults + 1

LEMMA StepGroups ==
    ASSUME [Next]_vars
    PROVE  Published \/ OwnerStep \/ RowStep \/ FaultStep
PROOF
  <1>1. CASE Published
    BY <1>1
  <1>2. CASE RevokeTarget \/ GrantTarget \/ OwnerEnds
    <2>1. CASE RevokeTarget
      BY <2>1 DEF RevokeTarget, OwnerStep
    <2>2. CASE GrantTarget
      BY <2>2 DEF GrantTarget, OwnerStep
    <2>3. CASE OwnerEnds
      BY <2>3 DEF OwnerEnds, OwnerStep
    <2> QED BY <1>2, <2>1, <2>2, <2>3
  <1>3. CASE UNCHANGED vars
    BY <1>3 DEF vars, RowStep
  <1>4. ASSUME NEW c \in Callers, NEW k \in Keys, NEW v \in Contents, PublishRead(c, k, v)
        PROVE  RowStep
    BY <1>4 DEF PublishRead, RowStep
  <1>5. ASSUME NEW c \in Callers, PublishLost(c)
        PROVE  FaultStep
    BY <1>5 DEF PublishLost, FaultStep
  <1>6. ASSUME NEW p \in Parts, NEW n \in 1 .. MaxParts, NEW r \in {"local", "platform"},
               PrepareOutbox(p, n, r)
        PROVE  RowStep
    BY <1>6 DEF PrepareOutbox, RowStep
  <1>7. ASSUME NEW p \in Parts, PrepareRefused(p) \/ BecomesDue(p)
        PROVE  RowStep
    BY <1>7 DEF PrepareRefused, BecomesDue, RowStep
  <1>8. ASSUME NEW p \in Parts, LeasePasses(p)
        PROVE  RowStep \/ FaultStep
    BY <1>8 DEF LeasePasses, RowStep, FaultStep
  <1>9. CASE ClaimOutbox
    BY <1>9, Zenon DEF ClaimOutbox, RowStep
  <1>10. CASE Deliver
    BY <1>10 DEF Deliver, OutboxReady, CheckGrant, SendFailed, RecordOutbound, AfterRecord, RowStep
  <1>11. ASSUME NEW answer \in {"taken", "away", "refused", "unknown"}, NEW took \in BOOLEAN,
                Transport(answer, took)
         PROVE  RowStep
    BY <1>11 DEF Transport, RowStep
  <1>12. ASSUME NEW committed \in BOOLEAN, RecordRaises(committed)
         PROVE  FaultStep
    BY <1>12 DEF RecordRaises, FaultStep
  <1>13. CASE WorkerLost
    BY <1>13 DEF WorkerLost, FaultStep
  <1> QED BY <1>1, <1>2, <1>3, <1>4, <1>5, <1>6, <1>7, <1>8, <1>9, <1>10, <1>11, <1>12,
             <1>13 DEF Next, Published

LEMMA CountStep ==
    ASSUME BoundsAssumption, CountInv, [Next]_vars
    PROVE  CountInv'
PROOF
  <1>1. CASE Published
    BY <1>1 DEF Published, PublishCommit, CountInv
  <1>2. CASE OwnerStep
    <2>1. granted' \in BOOLEAN /\ readable' \in BOOLEAN /\ faults' = faults
      BY <1>2 DEF OwnerStep, CountInv
    <2>2. changes' \in 0 .. MaxChanges
      BY <1>2 DEF OwnerStep, CountInv, BoundsAssumption
    <2> QED BY <2>1, <2>2 DEF CountInv
  <1>3. CASE RowStep
    BY <1>3 DEF RowStep, CountInv
  <1>4. CASE FaultStep
    BY <1>4 DEF FaultStep, CountInv, BoundsAssumption
  <1> QED BY <1>1, <1>2, <1>3, <1>4, StepGroups

LEMMA TypeStep ==
    ASSUME BoundsAssumption, "none" \notin Contents, IInv, CallInv, TidyInv, KeyInv, CountInv,
           [Next]_vars
    PROVE  TidyInv' /\ KeyInv' /\ CountInv'
PROOF
  <1>1. CountInv'
    BY CountStep
  <1>2. CASE \E c \in Callers : PublishCommit(c)
    BY <1>1, <1>2, PublishRows
  <1>3. CASE ~(\E c \in Callers : PublishCommit(c))
    <2>1. UNCHANGED <<event, order>>
      BY <1>3, StepGroups DEF Published, OwnerStep, RowStep, FaultStep
    <2>2. RowsKept
      <3>1. CASE \/ UNCHANGED vars \/ GrantTarget \/ OwnerEnds \/ WorkerLost
                 \/ \E c \in Callers, k \in Keys, v \in Contents : PublishRead(c, k, v)
                 \/ \E c \in Callers : PublishLost(c)
                 \/ \E answer \in {"taken", "away", "refused", "unknown"}, took \in BOOLEAN :
                       Transport(answer, took)
        <4>1. row' = row
          BY <3>1 DEF vars, GrantTarget, OwnerEnds, WorkerLost, PublishRead, PublishLost, Transport
        <4> QED BY <4>1, Unaltered
      <3>2. ASSUME NEW p \in Parts, PrepareRefused(p) \/ LeasePasses(p) \/ BecomesDue(p)
            PROVE  RowsKept
        BY <3>2, PartRows
      <3>3. ASSUME NEW p \in Parts, NEW n \in 1 .. MaxParts, NEW r \in {"local", "platform"},
                   PrepareOutbox(p, n, r)
            PROVE  RowsKept
        BY <3>3, PrepareRows
      <3>4. CASE OutboxReady \/ CheckGrant \/ SendFailed \/ AfterRecord
        BY <3>4, WorkerRows
      <3>5. CASE RecordOutbound \/ (\E committed \in BOOLEAN : RecordRaises(committed))
        BY <3>5, RecordRows
      <3>6. CASE RevokeTarget \/ ClaimOutbox
        BY <3>6, RevokeRows, ClaimRows
      <3> QED BY <1>3, <3>1, <3>2, <3>3, <3>4, <3>5, <3>6 DEF Next, Deliver
    <2>3. \A k \in Keys : row[<<k, 1>>].st # "absent" => row'[<<k, 1>>].st # "absent"
      BY <2>2, FirstPart DEF RowsKept, Kept
    <2> QED BY <1>1, <2>1, <2>2, <2>3 DEF RowsKept, Kept, TidyInv, KeyInv
  <1> QED BY <1>2, <1>3

(* Every part of the state of the outbox keeps its type: rows exist exactly *)
(* for the published keys, a lease is held exactly by a row in processing,  *)
(* and no part that leaves the process is attempted more often than         *)
(* max_attempts (PluginOutbox!TypeOK).                                      *)
THEOREM TypeCorrect ==
    ASSUME BoundsAssumption, "none" \notin Contents
    PROVE  Spec => []TypeOK
PROOF
  <1>1. Init => TidyInv /\ KeyInv /\ CountInv
    <2> SUFFICES ASSUME Init  PROVE TidyInv /\ KeyInv /\ CountInv
      OBVIOUS
    <2>1. TidyInv
      BY DEF Init, TidyInv, Tidy, NoRow
    <2>2. KeyInv
      BY DEF Init, KeyInv, ToSet
    <2>3. CountInv
      BY DEF Init, CountInv, BoundsAssumption
    <2> QED BY <2>1, <2>2, <2>3
  <1>2. /\ IInv /\ CallInv /\ TidyInv /\ KeyInv /\ CountInv
        /\ [Next]_vars
        => (TidyInv /\ KeyInv /\ CountInv)'
    BY TypeStep
  <1>3. IInv /\ CallInv /\ TidyInv /\ KeyInv /\ CountInv => TypeOK
    <2> SUFFICES ASSUME IInv, CallInv, TidyInv, KeyInv, CountInv  PROVE TypeOK
      OBVIOUS
    <2>1. ASSUME NEW k \in Keys
          PROVE  row[<<k, 1>>].st = "absent" <=> event[k] = "none"
      <3>1. event[k] = "none" => row[<<k, 1>>].st = "absent"
        BY DEF IInv, EventInv
      <3>2. event[k] # "none" => row[<<k, 1>>].st # "absent"
        BY DEF KeyInv
      <3> QED BY <3>1, <3>2
    <2>2. ASSUME NEW p \in Parts
          PROVE  /\ row[p].st \in {"absent", "pending", "processing"} \cup Terminal
                 /\ row[p].lease # "none" <=> row[p].st = "processing"
                 /\ row[p].route = "platform" => row[p].attempts <= MaxAttempts
      <3>1. row[p] \in Row /\ PartInv(p) /\ Tidy(row[p])
        BY DEF IInv, Types, RowInv, TidyInv
      <3>2. row[p].st \in {"absent", "pending", "processing"} \cup Terminal
        BY <3>1 DEF Row, St
      <3> QED BY <3>1, <3>2 DEF PartInv, Tidy
    <2> QED BY <2>1, <2>2 DEF TypeOK, CallInv, KeyInv, CountInv
  <1> QED BY <1>1, <1>2, <1>3, Inductive, PTL DEF Spec

(* What the outbox, its ledger and the receipts of publishers say is what   *)
(* happened (PluginOutbox!OutboxIsTrue).                                    *)
THEOREM OutboxTellsTruth ==
    ASSUME BoundsAssumption, "none" \notin Contents
    PROVE  Spec => []OutboxIsTrue
PROOF
  <1>1. TypeOK /\ ReceiptsAgree /\ DeliveredOnce /\ QueuedIsUnsent /\ LedgerMatchesSent
        => OutboxIsTrue
    BY DEF OutboxIsTrue
  <1> QED BY <1>1, TypeCorrect, OneCreation, AtMostOneDelivery, NeverRequeued, TrueLedger, PTL

-----------------------------------------------------------------------------
(* PluginTurns: the jobs of plugins, the Works they admit and who executes *)
(* them.                                                                   *)

(* The attempt a claimed job spends, and the one a lost executor has spent. *)
Spent == IF job.st = "processing" THEN 1 ELSE 0
Lost  == IF job.st = "processing" /\ server.at = "idle" THEN 1 ELSE 0

JobRow == [st : Turns!Open \cup Turns!WorkEnd, left : Int, due : BOOLEAN,
           lease : {"none", "live", "past"}, bound : BOOLEAN]
WorkState == {"none", "queued", "running"} \cup Turns!Paused \cup Turns!WorkEnd

TurnTypes ==
  /\ job \in JobRow
  /\ work \in WorkState
  /\ server \in [at : {"idle", "claimed", "begun", "running", "settled", "report"},
                 seen : {"none", "queued", "running"} \cup Turns!Paused \cup Turns!WorkEnd]
  /\ scope \in {"free", "job", "sched", "lost"}
  /\ resumer \in {"idle", "running"}
  /\ charged \in Nat /\ turnFaults \in Nat /\ events \in Nat

(* One executor at a time: the worker that runs and the resumer that runs  *)
(* hold the scope, and no resumer runs beside a worker.                    *)
ExecutorInv ==
  /\ server.at = "running" <=> scope = "job"
  /\ resumer = "running" <=> scope = "sched"
  /\ server.at \in {"begun", "running", "settled", "report"} => resumer = "idle"
  /\ server.at # "idle" => job.st \in {"processing", "cancelled"}

(* A job is bound to at most one Work, and completes with it. *)
BindInv ==
  /\ job.lease # "none" <=> job.st = "processing"
  /\ job.bound <=> work # "none"
  /\ admitted = IF job.bound THEN 1 ELSE 0
  /\ job.st = "completed" => work = "completed"

(* What a worker brings back of a Work that ended is still its end, unless *)
(* a failed one was taken up again.                                        *)
SeenInv ==
  /\ server.at # "report" => server.seen = "none"
  /\ server.seen \in {"completed", "cancelled"} => work = server.seen
  /\ server.seen = "failed" => work \in {"failed", "queued", "cancelled"}

(* An attempt is spent by a claim and given back by everything that is not *)
(* a failure, so what is gone was charged.                                 *)
BudgetInv ==
  /\ job.st \in Turns!Open => job.left = TurnAttempts - charged - Spent
  /\ charged + Lost <= turnFaults
  /\ turnFaults <= MaxTurnFaults
  /\ job.left \in -(MaxTurnFaults + 1) .. TurnAttempts

TurnInv == TurnTypes /\ ExecutorInv /\ BindInv /\ SeenInv /\ BudgetInv

(* What the exits of a worker write: the end of the job, or a requeue. *)
LEMMA Retires ==
  ASSUME TurnTypes, NEW s \in Turns!WorkEnd, NEW x \in Turns!WorkEnd, NEW w \in WorkState,
         Turns!RetireTurn(s, x, w)
  PROVE  /\ job' \in JobRow
         /\ job'.st = s /\ job'.lease = "none"
         /\ job'.left = job.left /\ job'.bound = job.bound
         /\ work' = IF job.bound /\ w \notin Turns!WorkEnd THEN x ELSE w
<1>1. job' \in JobRow
  BY DEF Turns!RetireTurn, TurnTypes, JobRow
<1> QED BY <1>1 DEF Turns!RetireTurn, TurnTypes, JobRow

LEMMA Requeues ==
  ASSUME TurnTypes, NEW kept \in BOOLEAN, NEW due \in BOOLEAN, NEW w,
         Turns!Requeue(kept, due, w)
  PROVE  /\ job' \in JobRow
         /\ job'.st = "pending" /\ job'.lease = "none"
         /\ job'.left = IF kept THEN job.left + 1 ELSE job.left
         /\ job'.bound = job.bound
         /\ work' = w
<1> DEFINE n == IF kept THEN job.left + 1 ELSE job.left
<1>1. n \in Int
  BY DEF TurnTypes, JobRow
<1>2. job' = [job EXCEPT !.st = "pending", !.lease = "none", !.due = due, !.left = n]
  BY DEF Turns!Requeue
<1> HIDE DEF n
<1>3. job' \in JobRow
  BY <1>1, <1>2 DEF TurnTypes, JobRow, Turns!Open
<1>4. /\ job'.st = "pending" /\ job'.lease = "none" /\ job'.left = n /\ job'.bound = job.bound
  BY <1>1, <1>2 DEF TurnTypes, JobRow
<1>5. work' = w
  BY DEF Turns!Requeue
<1> QED BY <1>3, <1>4, <1>5 DEF n

(* An executor of the job leaves it with the Work in state w: the row stays as it is, *)
(* the job is retired, or it is queued again, charged or not.                         *)
Left(w) ==
  \/ ~Turns!Owned /\ job' = job /\ work' = w /\ charged' = charged
  \/ /\ Turns!Owned /\ charged' \in {charged, charged + 1}
     /\ \E s, x \in {"failed", "cancelled"} : Turns!RetireTurn(s, x, w)
  \/ /\ Turns!Owned /\ charged' = charged
     /\ \E d \in BOOLEAN : Turns!Requeue(TRUE, d, w)
  \/ /\ Turns!Owned /\ charged' = charged + 1
     /\ Turns!Requeue(FALSE, FALSE, w)

Leaves(w) ==
  /\ server.at # "idle" /\ Turns!Rest
  /\ scope' = IF server.at = "running" THEN "free" ELSE scope
  /\ w = work \/ (server.at = "running" /\ work = "running" /\ w = "queued")
  /\ UNCHANGED <<resumer, admitted, events>>
  /\ turnFaults' \in Nat /\ turnFaults' <= MaxTurnFaults
  /\ turnFaults' - turnFaults >= charged' - charged

(* A worker that leaves by one of them keeps the invariant. *)
LEMMA LeaveKeeps ==
  ASSUME Turns!TurnBounds, TurnInv, NEW w, Leaves(w), Left(w)
  PROVE  TurnInv'
<1> USE DEF Turns!Open, Turns!WorkEnd, Turns!Paused
<1>0. TurnTypes /\ ExecutorInv /\ BindInv /\ SeenInv /\ BudgetInv
  BY DEF TurnInv
<1>1. w \in WorkState
  BY <1>0 DEF Leaves, TurnTypes, WorkState
<1>2. /\ job' \in JobRow /\ job'.bound = job.bound
      /\ \/ job.st # "processing" /\ job' = job /\ work' = w /\ charged' = charged
         \/ /\ job.st = "processing" /\ charged' \in {charged, charged + 1}
            /\ job'.st \in {"failed", "cancelled"} /\ job'.lease = "none" /\ job'.left = job.left
            /\ work' = w \/ (job.bound /\ work' \in {"failed", "cancelled"} /\ w \notin Turns!WorkEnd)
         \/ /\ job.st = "processing" /\ work' = w
            /\ job'.st = "pending" /\ job'.lease = "none"
            /\ \/ charged' = charged /\ job'.left = job.left + 1
               \/ charged' = charged + 1 /\ job'.left = job.left
  <2>1. CASE ~Turns!Owned /\ job' = job /\ work' = w /\ charged' = charged
    BY <1>0, <2>1 DEF TurnTypes, Turns!Owned
  <2>2. CASE /\ Turns!Owned /\ charged' \in {charged, charged + 1}
             /\ \E s, x \in {"failed", "cancelled"} : Turns!RetireTurn(s, x, w)
    BY <1>0, <1>1, <2>2, Retires DEF Turns!Owned
  <2>3. CASE Turns!Owned /\ charged' = charged /\ \E d \in BOOLEAN : Turns!Requeue(TRUE, d, w)
    BY <1>0, <2>3, Requeues DEF Turns!Owned
  <2>4. CASE Turns!Owned /\ charged' = charged + 1 /\ Turns!Requeue(FALSE, FALSE, w)
    BY <1>0, <2>4, Requeues DEF Turns!Owned
  <2> QED BY <2>1, <2>2, <2>3, <2>4 DEF Left
<1>3. TurnTypes'
  BY <1>0, <1>1, <1>2 DEF TurnTypes, Leaves, Turns!Rest, WorkState
<1>4. ExecutorInv'
  BY <1>0, <1>2 DEF TurnTypes, ExecutorInv, Leaves, Turns!Rest
<1>5. BindInv'
  BY <1>0, <1>1, <1>2 DEF TurnTypes, JobRow, WorkState, BindInv, SeenInv, Leaves
<1>6. SeenInv'
  BY DEF SeenInv, Leaves, Turns!Rest
<1>7. BudgetInv'
  BY <1>0, <1>2 DEF TurnTypes, JobRow, ExecutorInv, BudgetInv, Spent, Lost, Leaves, Turns!Rest, Turns!TurnBounds
<1> QED BY <1>3, <1>4, <1>5, <1>6, <1>7 DEF TurnInv

ClaimedRow(rest, held, st) ==
  /\ job' \in JobRow /\ job'.bound = job.bound
  /\ job'.left = rest /\ job'.lease = held /\ job'.st = st

(* What the claim of a due or abandoned job writes. *)
LEMMA Claims ==
  ASSUME TurnTypes, Turns!ClaimTurn
  PROVE  \/ /\ ClaimedRow(job.left, "none", Turns!EndOf)
            /\ work \in Turns!WorkEnd /\ UNCHANGED <<work, server>>
         \/ /\ ClaimedRow(job.left, "none", "pending")
            /\ UNCHANGED <<work, server>>
         \/ /\ ClaimedRow(job.left - 1, "none", "cancelled")
            /\ work' = (IF job.bound THEN "cancelled" ELSE work) /\ UNCHANGED server
         \/ /\ ClaimedRow(job.left - 1, "live", "processing")
            /\ UNCHANGED work
            /\ server' = [at |-> "claimed", seen |-> server.seen]
<1> DEFINE n == job.left - 1
           e == Turns!EndOf
<1>0. /\ n \in Int /\ job.left \in Int /\ job \in JobRow
      /\ e \in Turns!Open \cup Turns!WorkEnd
      /\ "pending" \in Turns!Open \cup Turns!WorkEnd /\ "processing" \in Turns!Open \cup Turns!WorkEnd
      /\ "cancelled" \in Turns!Open \cup Turns!WorkEnd
  BY DEF TurnTypes, JobRow, Turns!EndOf, Turns!WorkEnd, Turns!Open
<1>1. \/ /\ job' = [job EXCEPT !.st = e, !.lease = "none"]
         /\ UNCHANGED <<work, server>> /\ work \in Turns!WorkEnd
      \/ /\ job' = [job EXCEPT !.st = "pending", !.lease = "none"]
         /\ UNCHANGED <<work, server>>
      \/ /\ job' = [job EXCEPT !.st = "cancelled", !.lease = "none", !.left = n]
         /\ work' = (IF job.bound THEN "cancelled" ELSE work) /\ UNCHANGED server
      \/ /\ job' = [job EXCEPT !.st = "processing", !.lease = "live", !.left = n]
         /\ server' = [server EXCEPT !.at = "claimed"] /\ UNCHANGED work
  BY Zenon DEF Turns!ClaimTurn, Turns!To
<1>2. server' = [server EXCEPT !.at = "claimed"] => server' = [at |-> "claimed", seen |-> server.seen]
  BY DEF TurnTypes
<1> HIDE DEF n, e
<1>3. ASSUME job' = [job EXCEPT !.st = e, !.lease = "none"]  PROVE ClaimedRow(job.left, "none", e)
  <2>1. job' \in JobRow
    BY <1>0, <1>3 DEF JobRow
  <2>2. job'.bound = job.bound /\ job'.left = job.left
    BY <1>0, <1>3 DEF JobRow
  <2>3. job'.lease = "none" /\ job'.st = e
    BY <1>0, <1>3 DEF JobRow
  <2> QED BY <2>1, <2>2, <2>3 DEF ClaimedRow
<1>4. ASSUME job' = [job EXCEPT !.st = "pending", !.lease = "none"]  PROVE ClaimedRow(job.left, "none", "pending")
  <2>1. job' \in JobRow
    BY <1>0, <1>4 DEF JobRow
  <2>2. job'.bound = job.bound /\ job'.left = job.left
    BY <1>0, <1>4 DEF JobRow
  <2>3. job'.lease = "none" /\ job'.st = "pending"
    BY <1>0, <1>4 DEF JobRow
  <2> QED BY <2>1, <2>2, <2>3 DEF ClaimedRow
<1>5. ASSUME job' = [job EXCEPT !.st = "cancelled", !.lease = "none", !.left = n]
      PROVE  ClaimedRow(n, "none", "cancelled")
  <2>1. job' \in JobRow
    BY <1>0, <1>5 DEF JobRow
  <2>2. job'.bound = job.bound /\ job'.left = n
    BY <1>0, <1>5 DEF JobRow
  <2>3. job'.lease = "none" /\ job'.st = "cancelled"
    BY <1>0, <1>5 DEF JobRow
  <2> QED BY <2>1, <2>2, <2>3 DEF ClaimedRow
<1>6. ASSUME job' = [job EXCEPT !.st = "processing", !.lease = "live", !.left = n]
      PROVE  ClaimedRow(n, "live", "processing")
  <2>1. job' \in JobRow
    BY <1>0, <1>6 DEF JobRow
  <2>2. job'.bound = job.bound /\ job'.left = n
    BY <1>0, <1>6 DEF JobRow
  <2>3. job'.lease = "live" /\ job'.st = "processing"
    BY <1>0, <1>6 DEF JobRow
  <2> QED BY <2>1, <2>2, <2>3 DEF ClaimedRow
<1> QED BY <1>1, <1>2, <1>3, <1>4, <1>5, <1>6, Zenon DEF n, e

LEMMA TurnStep ==
  ASSUME Turns!TurnBounds, TurnInv, [Turns!Next]_(Turns!vars)
  PROVE  TurnInv'
<1> USE DEF Turns!Open, Turns!WorkEnd, Turns!Paused, Turns!Bounds
<1>0. TurnTypes /\ ExecutorInv /\ BindInv /\ SeenInv /\ BudgetInv
  BY DEF TurnInv
<1>1. CASE Turns!ClaimTurn
  <2>a. /\ server.at = "idle" /\ server.seen = "none"
        /\ scope' = scope /\ resumer' = resumer /\ admitted' = admitted /\ turnFaults' = turnFaults
        /\ events' = events
        /\ \/ job.st = "pending" /\ charged' = charged
           \/ job.st = "processing" /\ charged' = charged + 1
    BY <1>0, <1>1 DEF Turns!ClaimTurn, Turns!Expired, SeenInv
  <2>b. /\ job' \in JobRow /\ job'.bound = job.bound
        /\ \/ /\ job'.left = job.left /\ job'.lease = "none"
              /\ job'.st = "pending" \/ (job'.st = Turns!EndOf /\ work \in Turns!WorkEnd)
              /\ work' = work /\ server' = server
           \/ /\ job'.left = job.left - 1 /\ job'.lease = "none" /\ job'.st = "cancelled"
              /\ work' = (IF job.bound THEN "cancelled" ELSE work) /\ server' = server
           \/ /\ job'.left = job.left - 1 /\ job'.lease = "live" /\ job'.st = "processing"
              /\ server' = [at |-> "claimed", seen |-> "none"] /\ work' = work
    BY <1>0, <1>1, <2>a, Claims DEF ClaimedRow
  <2>1. TurnTypes'
    BY <1>0, <2>a, <2>b DEF TurnTypes, JobRow, WorkState,
       Turns!EndOf
  <2>2. ExecutorInv'
    BY <1>0, <2>a, <2>b DEF TurnTypes, JobRow, ExecutorInv,
       Turns!EndOf
  <2>3. BindInv'
    BY <1>0, <2>a, <2>b DEF TurnTypes, JobRow, ExecutorInv, BindInv, SeenInv,
       Turns!EndOf
  <2>4. SeenInv'
    BY <1>0, <2>a, <2>b DEF TurnTypes, WorkState, ExecutorInv, BindInv, SeenInv,
       Turns!EndOf
  <2>5. BudgetInv'
    <3>1. /\ Spent = IF job.st = "processing" THEN 1 ELSE 0
          /\ Lost = Spent
          /\ Spent' = IF job'.st = "processing" THEN 1 ELSE 0
          /\ Lost' = 0
      BY <1>0, <2>a, <2>b DEF Spent, Lost, Turns!EndOf
    <3>2. charged' = charged + Lost
      BY <1>0, <2>a, <3>1 DEF TurnTypes
    <3>3. /\ charged \in Nat /\ turnFaults \in Nat /\ job.left \in Int
          /\ job.left = TurnAttempts - charged - Spent
          /\ charged + Lost <= turnFaults /\ turnFaults <= MaxTurnFaults
          /\ job.left \in -(MaxTurnFaults + 1) .. TurnAttempts
      BY <1>0, <2>a DEF TurnTypes, JobRow, BudgetInv
    <3>4. \/ job'.left = job.left /\ job'.st # "processing"
          \/ job'.left = job.left - 1 /\ job'.st = "cancelled"
          \/ job'.left = job.left - 1 /\ job'.st = "processing"
      BY <2>b DEF Turns!EndOf
    <3>5. job'.st \in Turns!Open => job'.left = TurnAttempts - charged' - Spent'
      BY <2>a, <2>b, <3>1, <3>2, <3>3 DEF Turns!EndOf, Turns!TurnBounds
    <3>6. charged' + Lost' <= turnFaults' /\ turnFaults' <= MaxTurnFaults
      BY <2>a, <3>1, <3>2, <3>3
    <3>7. job'.left \in -(MaxTurnFaults + 1) .. TurnAttempts
      BY <3>1, <3>3, <3>4 DEF Turns!TurnBounds
    <3> QED BY <3>5, <3>6, <3>7 DEF BudgetInv
  <2> QED BY <2>1, <2>2, <2>3, <2>4, <2>5 DEF TurnInv
<1>2. CASE Turns!Reconcile
  <2>1. TurnTypes'
    BY <1>0, <1>2 DEF TurnTypes, JobRow, WorkState,
       Turns!Reconcile, Turns!EndOf
  <2>2. ExecutorInv'
    BY <1>0, <1>2 DEF TurnTypes, JobRow, ExecutorInv,
       Turns!Reconcile, Turns!EndOf
  <2>3. BindInv'
    BY <1>0, <1>2 DEF TurnTypes, JobRow, ExecutorInv, BindInv, SeenInv,
       Turns!Reconcile, Turns!EndOf
  <2>4. SeenInv'
    BY <1>0, <1>2 DEF TurnTypes, WorkState, ExecutorInv, BindInv, SeenInv,
       Turns!Reconcile, Turns!EndOf
  <2>5. BudgetInv'
    BY <1>0, <1>2 DEF TurnTypes, JobRow, ExecutorInv, BindInv, BudgetInv, Spent, Lost, Turns!TurnBounds,
       Turns!Reconcile, Turns!EndOf
  <2> QED BY <2>1, <2>2, <2>3, <2>4, <2>5 DEF TurnInv
<1>3. CASE Turns!Begin
  <2>1. CASE Turns!To("begun") /\ UNCHANGED <<job, work, charged, pauses>>
    <3>1. UNCHANGED <<scope, resumer, admitted, turnFaults, events>> /\ server.at = "claimed"
          /\ job.st = "processing" /\ resumer = "idle"
      BY <1>0, <1>3, <2>1 DEF Turns!Begin, Turns!To, Turns!Owned, Turns!Rest, TurnTypes
    <3> QED BY <1>0, <2>1, <3>1 DEF TurnInv, TurnTypes, ExecutorInv, BindInv, SeenInv, BudgetInv, Spent, Lost,
     JobRow, WorkState, Turns!TurnBounds, Turns!To
  <2>2. CASE Turns!Rest
    <3>0. server.at = "claimed" /\ charged' = charged /\ UNCHANGED <<scope, resumer, admitted, turnFaults, events>>
      BY <1>0, <1>3, <2>2 DEF Turns!Begin, Turns!DeferTurn, Turns!To, Turns!Rest
    <3>1. Leaves(work)
      BY <1>0, <2>2, <3>0 DEF Leaves, BudgetInv, TurnTypes
    <3>2. Left(work)
      BY <1>3, <2>2 DEF Left, Turns!Begin, Turns!DeferTurn, Turns!To, Turns!Rest
    <3> QED BY <3>1, <3>2, LeaveKeeps
  <2> QED BY <1>3, <2>1, <2>2 DEF Turns!Begin
<1>4. CASE Turns!Admit
  <2>1. CASE ~Turns!Owned \/ Turns!Fenced
    <3>1. Leaves(work)
      BY <1>0, <1>4, <2>1 DEF Leaves, BudgetInv, TurnTypes, Turns!Admit
    <3>2. Left(work)
      BY <1>4, <2>1 DEF Left, Turns!Admit
    <3> QED BY <3>1, <3>2, LeaveKeeps
  <2>2. CASE Turns!Owned /\ ~Turns!Fenced
    <3>a. job' \in JobRow
      BY <1>0, <1>4, <2>2 DEF Turns!Admit, TurnTypes, JobRow
    <3>1. TurnTypes'
      BY <1>0, <1>4, <2>2, <3>a DEF TurnTypes, JobRow, WorkState,
         Turns!Admit, Turns!To, Turns!Owned
    <3>2. ExecutorInv'
      BY <1>0, <1>4, <2>2, <3>a DEF TurnTypes, JobRow, ExecutorInv,
         Turns!Admit, Turns!To, Turns!Owned
    <3>3. BindInv'
      BY <1>0, <1>4, <2>2, <3>a DEF TurnTypes, JobRow, ExecutorInv, BindInv, SeenInv,
         Turns!Admit, Turns!To, Turns!Owned
    <3>4. SeenInv'
      BY <1>0, <1>4, <2>2, <3>a DEF TurnTypes, WorkState, ExecutorInv, BindInv, SeenInv,
         Turns!Admit, Turns!To, Turns!Owned
    <3>5. BudgetInv'
      BY <1>0, <1>4, <2>2, <3>a DEF TurnTypes, JobRow, ExecutorInv, BindInv, BudgetInv, Spent, Lost, Turns!TurnBounds,
         Turns!Admit, Turns!To, Turns!Owned
    <3> QED BY <3>1, <3>2, <3>3, <3>4, <3>5 DEF TurnInv
  <2> QED BY <2>1, <2>2
<1>5. CASE Turns!ResumeBound
  BY <1>0, <1>5 DEF TurnInv, TurnTypes, ExecutorInv, BindInv, SeenInv, BudgetInv, Spent, Lost,
     JobRow, WorkState, Turns!TurnBounds, Turns!ResumeBound, Turns!To
<1>6. CASE Turns!Validate
  <2>1. CASE Turns!Fenced
    <3>1. Leaves(work)
      BY <1>0, <1>6, <2>1 DEF Leaves, BudgetInv, TurnTypes, Turns!Validate
    <3>2. Left(work)
      BY <1>6, <2>1 DEF Left, Turns!Validate
    <3> QED BY <3>1, <3>2, LeaveKeeps
  <2>2. CASE ~Turns!Fenced
    <3>1. TurnTypes'
      BY <1>0, <1>6, <2>2 DEF TurnTypes, JobRow, WorkState,
         Turns!Validate, Turns!Owned
    <3>2. ExecutorInv'
      BY <1>0, <1>6, <2>2 DEF TurnTypes, JobRow, ExecutorInv,
         Turns!Validate, Turns!Owned
    <3>3. BindInv'
      BY <1>0, <1>6, <2>2 DEF TurnTypes, JobRow, ExecutorInv, BindInv, SeenInv,
         Turns!Validate, Turns!Owned
    <3>4. SeenInv'
      BY <1>0, <1>6, <2>2 DEF TurnTypes, WorkState, ExecutorInv, BindInv, SeenInv,
         Turns!Validate, Turns!Owned
    <3>5. BudgetInv'
      BY <1>0, <1>6, <2>2 DEF TurnTypes, JobRow, ExecutorInv, BindInv, BudgetInv, Spent, Lost, Turns!TurnBounds,
         Turns!Validate, Turns!Owned
    <3> QED BY <3>1, <3>2, <3>3, <3>4, <3>5 DEF TurnInv
  <2> QED BY <2>1, <2>2
<1>7. CASE Turns!SomeSettle
  BY <1>0, <1>7 DEF TurnInv, TurnTypes, ExecutorInv, BindInv, SeenInv, BudgetInv, Spent, Lost,
     JobRow, WorkState, Turns!TurnBounds,
     Turns!SomeSettle, Turns!Settle, Turns!Outcome, Turns!To
<1>8. CASE Turns!ReadResult
  BY <1>0, <1>8 DEF TurnInv, TurnTypes, ExecutorInv, BindInv, SeenInv, BudgetInv, Spent, Lost,
     JobRow, WorkState, Turns!TurnBounds, Turns!ReadResult
<1>9. CASE Turns!Report
  <2>1. CASE Left(work)
    <3>0. /\ server.at = "report" /\ Turns!Rest /\ charged' = charged
          /\ UNCHANGED <<scope, resumer, admitted, turnFaults, events>>
      BY <1>9 DEF Turns!Report, Turns!DeferTurn, Turns!ParkTurn
    <3>1. Leaves(work)
      BY <1>0, <3>0 DEF Leaves, BudgetInv, TurnTypes
    <3> QED BY <2>1, <3>1, LeaveKeeps
  <2>2. CASE /\ server.seen = "completed" /\ Turns!Owned
             /\ job' = [job EXCEPT !.st = "completed", !.lease = "none"] /\ UNCHANGED <<work, charged>>
    <3>1. TurnTypes'
      BY <1>0, <1>9, <2>2 DEF TurnTypes, JobRow, WorkState,
         Turns!Report, Turns!Rest, Turns!Owned
    <3>2. ExecutorInv'
      BY <1>0, <1>9, <2>2 DEF TurnTypes, JobRow, ExecutorInv,
         Turns!Report, Turns!Rest, Turns!Owned
    <3>3. BindInv'
      BY <1>0, <1>9, <2>2 DEF TurnTypes, JobRow, ExecutorInv, BindInv, SeenInv,
         Turns!Report, Turns!Rest, Turns!Owned
    <3>4. SeenInv'
      BY <1>0, <1>9, <2>2 DEF TurnTypes, WorkState, ExecutorInv, BindInv, SeenInv,
         Turns!Report, Turns!Rest, Turns!Owned
    <3>5. BudgetInv'
      BY <1>0, <1>9, <2>2 DEF TurnTypes, JobRow, ExecutorInv, BindInv, BudgetInv, Spent, Lost, Turns!TurnBounds,
         Turns!Report, Turns!Rest, Turns!Owned
    <3> QED BY <3>1, <3>2, <3>3, <3>4, <3>5 DEF TurnInv
  <2> QED BY <1>9, <2>1, <2>2 DEF Left, Turns!Report, Turns!DeferTurn, Turns!ParkTurn
<1>10. ASSUME NEW interrupted \in BOOLEAN, Turns!Raise(interrupted)  PROVE TurnInv'
  <2> DEFINE w == IF server.at = "running" /\ work = "running" THEN "queued" ELSE work
  <2>1. Left(w)
    BY <1>10 DEF Left, Turns!Raise, Turns!DeferTurn, Turns!FailTurn
  <2>a. /\ server.at \in {"begun", "running"} /\ Turns!Rest
        /\ turnFaults < MaxTurnFaults /\ turnFaults' = turnFaults + 1
        /\ charged' = charged \/ charged' = charged + 1
        /\ scope' = (IF server.at = "running" THEN "free" ELSE scope) /\ UNCHANGED <<resumer, admitted, events>>
    BY <1>10 DEF Turns!Raise, Turns!DeferTurn, Turns!FailTurn
  <2>2. Leaves(w)
    BY <1>0, <2>a DEF Leaves, TurnTypes, Turns!TurnBounds
  <2> QED BY <2>1, <2>2, LeaveKeeps
<1>11. CASE Turns!ResumeWork
  BY <1>0, <1>11 DEF TurnInv, TurnTypes, ExecutorInv, BindInv, SeenInv, BudgetInv, Spent, Lost,
     JobRow, WorkState, Turns!TurnBounds, Turns!ResumeWork
<1>12. CASE Turns!SomeResumeSettles
  BY <1>0, <1>12 DEF TurnInv, TurnTypes, ExecutorInv, BindInv, SeenInv, BudgetInv, Spent, Lost,
     JobRow, WorkState, Turns!TurnBounds,
     Turns!SomeResumeSettles, Turns!ResumeSettles, Turns!Outcome
<1>13. CASE Turns!RecoverOrphan \/ Turns!WorkWakes \/ Turns!WorkCancelled
  BY <1>0, <1>13 DEF TurnInv, TurnTypes, ExecutorInv, BindInv, SeenInv, BudgetInv, Spent, Lost,
     JobRow, WorkState, Turns!TurnBounds,
     Turns!RecoverOrphan, Turns!WorkWakes, Turns!WorkCancelled
<1>14. ASSUME NEW revoked \in BOOLEAN, Turns!Withdraw(revoked)  PROVE TurnInv'
  <2>a. job' \in JobRow
    BY <1>0, <1>14 DEF Turns!Withdraw, TurnTypes, JobRow
  <2>1. TurnTypes'
    BY <1>0, <1>14, <2>a DEF TurnTypes, JobRow, WorkState,
       Turns!Withdraw
  <2>2. ExecutorInv'
    BY <1>0, <1>14, <2>a DEF TurnTypes, JobRow, ExecutorInv,
       Turns!Withdraw
  <2>3. BindInv'
    BY <1>0, <1>14, <2>a DEF TurnTypes, JobRow, ExecutorInv, BindInv, SeenInv,
       Turns!Withdraw
  <2>4. SeenInv'
    BY <1>0, <1>14, <2>a DEF TurnTypes, WorkState, ExecutorInv, BindInv, SeenInv,
       Turns!Withdraw
  <2>5. BudgetInv'
    BY <1>0, <1>14, <2>a DEF TurnTypes, JobRow, ExecutorInv, BindInv, BudgetInv, Spent, Lost, Turns!TurnBounds,
       Turns!Withdraw
  <2> QED BY <2>1, <2>2, <2>3, <2>4, <2>5 DEF TurnInv
<1>15. CASE Turns!HumanSpeaks \/ Turns!ScopePasses
  BY <1>0, <1>15 DEF TurnInv, TurnTypes, ExecutorInv, BindInv, SeenInv, BudgetInv, Spent, Lost,
     JobRow, WorkState, Turns!TurnBounds, Turns!HumanSpeaks, Turns!ScopePasses
<1>16. CASE Turns!BecomesDue
  <2>1. TurnTypes'
    BY <1>0, <1>16 DEF TurnTypes, JobRow, WorkState,
       Turns!BecomesDue
  <2>2. ExecutorInv'
    BY <1>0, <1>16 DEF TurnTypes, JobRow, ExecutorInv,
       Turns!BecomesDue
  <2>3. BindInv'
    BY <1>0, <1>16 DEF TurnTypes, JobRow, ExecutorInv, BindInv, SeenInv,
       Turns!BecomesDue
  <2>4. SeenInv'
    BY <1>0, <1>16 DEF TurnTypes, WorkState, ExecutorInv, BindInv, SeenInv,
       Turns!BecomesDue
  <2>5. BudgetInv'
    BY <1>0, <1>16 DEF TurnTypes, JobRow, ExecutorInv, BindInv, BudgetInv, Spent, Lost, Turns!TurnBounds,
       Turns!BecomesDue
  <2> QED BY <2>1, <2>2, <2>3, <2>4, <2>5 DEF TurnInv
<1>17. CASE Turns!LeasePasses
  <2>1. TurnTypes'
    BY <1>0, <1>17 DEF TurnTypes, JobRow, WorkState,
       Turns!LeasePasses
  <2>2. ExecutorInv'
    BY <1>0, <1>17 DEF TurnTypes, JobRow, ExecutorInv,
       Turns!LeasePasses
  <2>3. BindInv'
    BY <1>0, <1>17 DEF TurnTypes, JobRow, ExecutorInv, BindInv, SeenInv,
       Turns!LeasePasses
  <2>4. SeenInv'
    BY <1>0, <1>17 DEF TurnTypes, WorkState, ExecutorInv, BindInv, SeenInv,
       Turns!LeasePasses
  <2>5. BudgetInv'
    BY <1>0, <1>17 DEF TurnTypes, JobRow, ExecutorInv, BindInv, BudgetInv, Spent, Lost, Turns!TurnBounds,
       Turns!LeasePasses
  <2> QED BY <2>1, <2>2, <2>3, <2>4, <2>5 DEF TurnInv
<1>18. CASE Turns!Crash
  BY <1>0, <1>18 DEF TurnInv, TurnTypes, ExecutorInv, BindInv, SeenInv, BudgetInv, Spent, Lost,
     JobRow, WorkState, Turns!TurnBounds, Turns!Crash, Turns!Rest
<1>19. CASE UNCHANGED Turns!vars
  BY <1>0, <1>19 DEF TurnInv, TurnTypes, ExecutorInv, BindInv, SeenInv, BudgetInv, Spent, Lost,
     JobRow, WorkState, Turns!TurnBounds, Turns!vars
<1> QED BY <1>1, <1>2, <1>3, <1>4, <1>5, <1>6, <1>7, <1>8, <1>9, <1>10, <1>11, <1>12, <1>13, <1>14, <1>15, <1>16, <1>17, <1>18, <1>19 DEF Turns!Next

(* The two rules about what others may do to the Work of a job. *)
LEMMA RetirementStep ==
  ASSUME TurnInv, [Turns!Next]_(Turns!vars)
  PROVE  [Turns!Retirement]_(Turns!vars)
<1> USE DEF Turns!Open, Turns!WorkEnd, Turns!Paused
<1> SUFFICES ASSUME Turns!Next, job.st \in Turns!Open, job'.st \notin Turns!Open, live' = live
             PROVE  work' \in Turns!WorkEnd \cup {"none"}
  BY DEF Turns!Retirement
<1>0. TurnTypes /\ ExecutorInv /\ BindInv /\ SeenInv
  BY DEF TurnInv
<1>1. ASSUME NEW s \in {"failed", "cancelled"}, NEW x \in {"failed", "cancelled"}, NEW w \in WorkState,
             Turns!RetireTurn(s, x, w), w = work \/ (work = "running" /\ w = "queued")
      PROVE  work' \in Turns!WorkEnd \cup {"none"}
  BY <1>0, <1>1 DEF Turns!RetireTurn, BindInv
<1>2. ASSUME NEW d \in BOOLEAN, NEW kept \in BOOLEAN, NEW w, Turns!Requeue(kept, d, w)
      PROVE  FALSE
  BY <1>0, <1>2, Requeues
<1>3. job' # job
  OBVIOUS
<1>4. CASE Turns!ClaimTurn
  BY <1>0, <1>4, Claims DEF ClaimedRow, BindInv
<1>5. CASE Turns!Reconcile
  BY <1>5 DEF Turns!Reconcile
<1>6. CASE Turns!Begin
  BY <1>0, <1>1, <1>2, <1>3, <1>6 DEF Turns!Begin, Turns!DeferTurn, TurnTypes
<1>7. CASE Turns!Admit
  <2>1. CASE Turns!RetireTurn("cancelled", "cancelled", work)
    BY <1>0, <1>1, <2>1 DEF TurnTypes
  <2>2. CASE job' = [job EXCEPT !.bound = TRUE]
    <3>1. job'.st = job.st
      BY <1>0, <2>2 DEF TurnTypes, JobRow
    <3> QED BY <3>1
  <2> QED BY <1>3, <1>7, <2>1, <2>2 DEF Turns!Admit
<1>8. CASE Turns!Validate
  <2>1. CASE Turns!RetireTurn("cancelled", "cancelled", work)
    BY <1>0, <1>1, <2>1 DEF TurnTypes
  <2>2. CASE job' = [job EXCEPT !.lease = "live"]
    <3>1. job'.st = job.st
      BY <1>0, <2>2 DEF TurnTypes, JobRow
    <3> QED BY <3>1
  <2> QED BY <1>8, <2>1, <2>2 DEF Turns!Validate
<1>9. CASE Turns!Report
  <2>1. CASE \E s, x \in {"failed", "cancelled"} : Turns!RetireTurn(s, x, work)
    BY <1>0, <1>1, <2>1 DEF TurnTypes
  <2>2. CASE server.seen = "completed" /\ work' = work
    BY <1>0, <2>2 DEF SeenInv
  <2> QED BY <1>2, <1>3, <1>9, <2>1, <2>2 DEF Turns!Report, Turns!DeferTurn, Turns!ParkTurn
<1>10. ASSUME NEW interrupted \in BOOLEAN, Turns!Raise(interrupted)
       PROVE  work' \in Turns!WorkEnd \cup {"none"}
  <2> DEFINE w == IF server.at = "running" /\ work = "running" THEN "queued" ELSE work
  <2>1. w \in WorkState /\ (w = work \/ (work = "running" /\ w = "queued"))
    BY <1>0 DEF TurnTypes, WorkState
  <2>2. \/ \E s, x \in {"failed", "cancelled"} : Turns!RetireTurn(s, x, w)
        \/ \E d, kept \in BOOLEAN : Turns!Requeue(kept, d, w)
    BY <1>3, <1>10 DEF Turns!Raise, Turns!DeferTurn, Turns!FailTurn
  <2> HIDE DEF w
  <2> QED BY <1>1, <1>2, <2>1, <2>2
<1>11. ASSUME NEW revoked \in BOOLEAN, Turns!Withdraw(revoked)  PROVE FALSE
  BY <1>11 DEF Turns!Withdraw
<1>12. CASE Turns!BecomesDue
  BY <1>0, <1>12 DEF Turns!BecomesDue, TurnTypes, JobRow
<1>13. CASE Turns!LeasePasses
  BY <1>0, <1>13 DEF Turns!LeasePasses, TurnTypes, JobRow
<1>14. CASE Turns!ResumeBound \/ Turns!SomeSettle \/ Turns!ReadResult \/ Turns!ResumeWork
  BY <1>3, <1>14 DEF Turns!ResumeBound, Turns!SomeSettle, Turns!Settle, Turns!ReadResult, Turns!ResumeWork
<1>15. CASE Turns!SomeResumeSettles \/ Turns!RecoverOrphan \/ Turns!WorkWakes \/ Turns!WorkCancelled
  BY <1>3, <1>15 DEF Turns!SomeResumeSettles, Turns!ResumeSettles, Turns!RecoverOrphan,
     Turns!WorkWakes, Turns!WorkCancelled
<1>16. CASE Turns!HumanSpeaks \/ Turns!ScopePasses \/ Turns!Crash
  BY <1>3, <1>16 DEF Turns!HumanSpeaks, Turns!ScopePasses, Turns!Crash
<1> QED
  BY <1>4, <1>5, <1>6, <1>7, <1>8, <1>9, <1>10, <1>11, <1>12, <1>13, <1>14, <1>15, <1>16 DEF Turns!Next

LEMMA WithdrawalStep ==
  ASSUME TurnInv, [Turns!Next]_(Turns!vars)
  PROVE  [Turns!Withdrawal]_(Turns!vars)
<1> USE DEF Turns!WorkEnd, Turns!Paused
<1> SUFFICES ASSUME Turns!Next, work = "waiting", work' = "cancelled", live, events' = events
             PROVE  FALSE
  BY DEF Turns!Withdrawal
<1>0. job.bound /\ ~Turns!Fenced /\ work' # work
  BY DEF TurnInv, BindInv, Turns!Fenced
<1>1. ASSUME NEW w, w = work, NEW d \in BOOLEAN, NEW kept \in BOOLEAN, Turns!Requeue(kept, d, w)
      PROVE  FALSE
  BY <1>1 DEF Turns!Requeue
<1>2. CASE Turns!ClaimTurn
  BY <1>0, <1>2 DEF Turns!ClaimTurn, Turns!Ready
<1>3. CASE Turns!Begin
  BY <1>0, <1>3 DEF Turns!Begin, Turns!DeferTurn, Turns!Requeue
<1>4. CASE Turns!Admit \/ Turns!ResumeBound \/ Turns!Validate
  BY <1>0, <1>4 DEF Turns!Admit, Turns!ResumeBound, Turns!Validate
<1>5. CASE Turns!Report
  <2>1. server.seen \notin {"failed", "cancelled"}
    BY DEF TurnInv, SeenInv
  <2> QED BY <1>0, <1>5, <2>1 DEF Turns!Report, Turns!DeferTurn, Turns!ParkTurn, Turns!Requeue
<1>6. ASSUME NEW interrupted \in BOOLEAN, Turns!Raise(interrupted)  PROVE FALSE
  BY <1>0, <1>6 DEF Turns!Raise, Turns!DeferTurn, Turns!FailTurn, Turns!Requeue, Turns!RetireTurn
<1>7. CASE Turns!SomeSettle \/ Turns!SomeResumeSettles
  BY <1>0, <1>7 DEF Turns!SomeSettle, Turns!SomeResumeSettles, Turns!Settle, Turns!ResumeSettles
<1>8. CASE Turns!ResumeWork \/ Turns!RecoverOrphan \/ Turns!WorkWakes \/ Turns!WorkCancelled
  <2>1. events + 1 # events
    BY DEF TurnInv, TurnTypes
  <2> QED BY <1>8, <2>1 DEF Turns!ResumeWork, Turns!RecoverOrphan, Turns!WorkWakes, Turns!WorkCancelled
<1>9. ASSUME NEW revoked \in BOOLEAN, Turns!Withdraw(revoked)  PROVE FALSE
  BY <1>0, <1>9 DEF Turns!Withdraw
<1>10. CASE \/ Turns!Reconcile \/ Turns!ReadResult \/ Turns!HumanSpeaks \/ Turns!BecomesDue
            \/ Turns!LeasePasses \/ Turns!ScopePasses \/ Turns!Crash
  BY <1>0, <1>10 DEF Turns!Reconcile, Turns!ReadResult, Turns!HumanSpeaks, Turns!BecomesDue,
     Turns!LeasePasses, Turns!ScopePasses, Turns!Crash
<1> QED BY <1>2, <1>3, <1>4, <1>5, <1>6, <1>7, <1>8, <1>9, <1>10 DEF Turns!Next

-----------------------------------------------------------------------------
LEMMA TurnStart ==
  ASSUME Turns!TurnBounds, Turns!Init
  PROVE  TurnInv
<1>1. job \in JobRow
  BY DEF Turns!TurnBounds, Turns!Init, JobRow, Turns!Open
<1>2. /\ job.st = "pending" /\ job.left = TurnAttempts /\ job.lease = "none" /\ job.bound = FALSE
      /\ work = "none" /\ scope = "free" /\ resumer = "idle"
      /\ server = [at |-> "idle", seen |-> "none"]
      /\ charged = 0 /\ admitted = 0 /\ turnFaults = 0 /\ events = 0
  BY DEF Turns!Init
<1>3. TurnTypes
  BY <1>1, <1>2 DEF TurnTypes, WorkState
<1>4. ExecutorInv /\ BindInv /\ SeenInv
  BY <1>2 DEF ExecutorInv, BindInv, SeenInv
<1>5. BudgetInv
  BY <1>2 DEF BudgetInv, Spent, Lost, Turns!TurnBounds
<1> QED BY <1>3, <1>4, <1>5 DEF TurnInv

(* Background turns of plugins (PluginTurns), whatever the attempts, the   *)
(* faults and the changes: TurnInv holds at every step of the worker, the  *)
(* scheduler's resumption and the target's retirement.                     *)
THEOREM TurnInductive ==
  ASSUME Turns!TurnBounds
  PROVE  Turns!Spec => []TurnInv
<1>1. Turns!Init => TurnInv
  BY TurnStart
<1>2. TurnInv /\ [Turns!Next]_(Turns!vars) => TurnInv'
  BY TurnStep
<1> QED BY <1>1, <1>2, PTL DEF Turns!Spec

(* A job, its Work and its executors have the states the code gives them,  *)
(* and the attempts left stay in their bounds (PluginTurns!TypeOK).        *)
THEOREM TurnTypeOK ==
  ASSUME Turns!TurnBounds
  PROVE  Turns!Spec => []Turns!TypeOK
<1>1. TurnInv => Turns!TypeOK
  <2> SUFFICES ASSUME TurnInv PROVE Turns!TypeOK
    OBVIOUS
  <2>1. job.st \in Turns!Open \cup Turns!WorkEnd /\ job.bound \in BOOLEAN
    BY DEF TurnInv, TurnTypes, JobRow
  <2>2. (job.lease # "none") = (job.st = "processing") /\ job.bound = (work # "none")
    BY <2>1 DEF TurnInv, BindInv
  <2>3. job.left \in -(MaxTurnFaults + 1) .. TurnAttempts
    BY DEF TurnInv, BudgetInv
  <2>4. work \in {"none", "queued", "running"} \cup Turns!Paused \cup Turns!WorkEnd
    BY DEF TurnInv, TurnTypes, WorkState
  <2>5. (scope = "job" => server.at = "running") /\ (scope = "sched" => resumer = "running")
    BY DEF TurnInv, ExecutorInv
  <2> QED BY <2>1, <2>2, <2>3, <2>4, <2>5 DEF Turns!TypeOK
<1> QED BY <1>1, TurnInductive, PTL

(* One external event admits one Work, although its admission may be       *)
(* repeated after a crash, and one executor runs it at a time: the worker  *)
(* or the scheduler's resumption, never both (PluginTurns!OneWork).        *)
THEOREM JobOneWork ==
  ASSUME Turns!TurnBounds
  PROVE  Turns!Spec => []Turns!OneWork
<1>1. TurnInv => Turns!OneWork
  BY DEF TurnInv, ExecutorInv, BindInv, Turns!OneWork
<1> QED BY <1>1, TurnInductive, PTL

(* A job is completed only with a Work that completed                      *)
(* (PluginTurns!CompletedWithWork).                                        *)
THEOREM JobCompletes ==
  ASSUME Turns!TurnBounds
  PROVE  Turns!Spec => []Turns!CompletedWithWork
<1>1. TurnInv => Turns!CompletedWithWork
  BY DEF TurnInv, BindInv, Turns!CompletedWithWork
<1> QED BY <1>1, TurnInductive, PTL

(* Only failures use up a job's attempts: a pause, a busy scope or a       *)
(* continuation gives back what the claim took                             *)
(* (PluginTurns!BudgetIsCharged).                                          *)
THEOREM JobBudget ==
  ASSUME Turns!TurnBounds
  PROVE  Turns!Spec => []Turns!BudgetIsCharged
<1>1. TurnInv => Turns!BudgetIsCharged
  BY DEF TurnInv, BudgetInv, Spent, Turns!BudgetIsCharged
<1> QED BY <1>1, TurnInductive, PTL

(* A job that ends while its target is live takes its Work along           *)
(* (PluginTurns!RetiresWithWork).                                          *)
THEOREM JobRetires ==
  ASSUME Turns!TurnBounds
  PROVE  Turns!Spec => Turns!RetiresWithWork
<1>1. TurnInv /\ [Turns!Next]_(Turns!vars) => [Turns!Retirement]_(Turns!vars)
  BY RetirementStep
<1> QED BY <1>1, TurnInductive, PTL DEF Turns!Spec, Turns!RetiresWithWork

(* A person who speaks meanwhile does not withdraw a Work that was         *)
(* admitted (PluginTurns!SpeechKeepsWork).                                 *)
THEOREM JobKeepsWork ==
  ASSUME Turns!TurnBounds
  PROVE  Turns!Spec => Turns!SpeechKeepsWork
<1>1. TurnInv /\ [Turns!Next]_(Turns!vars) => [Turns!Withdrawal]_(Turns!vars)
  BY WithdrawalStep
<1> QED BY <1>1, TurnInductive, PTL DEF Turns!Spec, Turns!SpeechKeepsWork

-----------------------------------------------------------------------------
(* Subagents: the children of a Work.                                      *)
(*                                                                         *)
(* ChildRowInv ties a row to the revisions that point into it, LeaseInv an *)
(* executor to the child it runs, MailInv orders what was posted.          *)

ChildRow ==
  [state : Children!State, rev : Nat, owner : Nat, fence : Nat, live : BOOLEAN, epoch : Nat,
   notified : Nat, result : Children!State \cup {"none"}, archived : BOOLEAN, msg : BOOLEAN]
ExecRow ==
  [pc : {"idle", "picked", "active", "settled", "prepared", "release"},
   fence : Nat, epoch : Nat, rev : Nat, read : Children!State \cup {"none"}, first : BOOLEAN]
PageRow == [rev : Nat, read : Children!State \cup {"none"}]
Receipt == [rev : Nat, cancelled : BOOLEAN]
ParentRow ==
  [state : Children!State \ {"absent"}, wait : BOOLEAN, asked : BOOLEAN, old : BOOLEAN]

FamilyTypes ==
  /\ child \in [Child -> ChildRow]
  /\ exec \in [Child -> ExecRow]
  /\ page \in [Child -> PageRow]
  /\ reports \in [Child -> Seq(Receipt)]
  /\ current \in BOOLEAN

(* A child's row and the revisions that point into it. *)
ChildRowInv(c) ==
  /\ child[c].notified <= child[c].rev
  /\ child[c].owner \in {0, child[c].fence}
  /\ (child[c].state = "absent") = (child[c].rev = 0)
  /\ child[c].live => child[c].state # "absent"
  /\ child[c].archived => child[c].state \in Children!Terminal
  /\ (child[c].notified = child[c].rev /\ child[c].result \in Children!ResultStates)
        => child[c].state = child[c].result
  /\ current /\ child[c].msg => child[c].state \in {"queued", "running", "suspended"}
  /\ page[c].rev <= child[c].rev

(* An executor's lease; while it is live the child runs under it. *)
LeaseInv(c) ==
  /\ exec[c].fence <= child[c].fence /\ exec[c].epoch <= child[c].epoch
  /\ exec[c].pc = "active" /\ child[c].live => child[c].state = "running"

(* The receipts of a child, in the order of its revisions. *)
MailInv(c) ==
  /\ \A i \in DOMAIN reports[c] : reports[c][i].rev \in 1 .. child[c].rev
  /\ \A i, j \in DOMAIN reports[c] : i < j => reports[c][i].rev < reports[c][j].rev

ChildInv(c) == ChildRowInv(c) /\ LeaseInv(c) /\ MailInv(c)

(* What no step may do to a child. *)
Rules(c) ==
  /\ child[c].state # "running" /\ child'[c].state # child[c].state =>
        \/ child'[c].state \in {"queued", "running", "cancelled"}
        \/ child'[c].state = "failed" /\ reports'[c] # reports[c]
  /\ child[c].state = "cancelled" =>
        /\ child'[c].state = "cancelled"
        /\ reports'[c] # reports[c] => reports'[c][Len(reports'[c])].cancelled
  /\ child[c].archived =>
        /\ child'[c].archived /\ child'[c].state = child[c].state
        /\ reports'[c] = reports[c]

-----------------------------------------------------------------------------
(* What a change of state and a revocation leave of a row. *)
LEMMA EnterFields ==
  ASSUME NEW k \in ChildRow, NEW s \in Children!State, NEW l, l = Children!Enter(k, s)
  PROVE  /\ l \in ChildRow
         /\ l.state = s /\ l.rev = k.rev + 1
         /\ l.owner = k.owner /\ l.fence = k.fence /\ l.live = k.live /\ l.epoch = k.epoch
         /\ l.notified = k.notified /\ l.result = k.result
         /\ l.archived = k.archived /\ l.msg = k.msg
<1> DEFINE n == k.rev + 1
<1>1. n \in Nat /\ k.rev \in Nat
  BY DEF ChildRow
<1>2. l = [k EXCEPT !.state = s, !.rev = n]
  BY DEF Children!Enter
<1> HIDE DEF n
<1>3. l \in ChildRow
  BY <1>1, <1>2 DEF ChildRow
<1>4. l.state = s /\ l.rev = n
  BY <1>1, <1>2 DEF ChildRow
<1>5. l.owner = k.owner /\ l.fence = k.fence /\ l.live = k.live /\ l.epoch = k.epoch
  BY <1>1, <1>2 DEF ChildRow
<1>6. l.notified = k.notified /\ l.result = k.result /\ l.archived = k.archived /\ l.msg = k.msg
  BY <1>1, <1>2 DEF ChildRow
<1> QED BY <1>3, <1>4, <1>5, <1>6 DEF n

LEMMA RevokeFields ==
  ASSUME NEW k \in ChildRow, NEW l, l = Children!Revoke(k)
  PROVE  /\ l \in ChildRow
         /\ l.state = k.state /\ l.rev = k.rev
         /\ l.owner = 0 /\ l.fence = k.fence /\ l.live = FALSE /\ l.epoch = k.epoch + 1
         /\ l.notified = k.notified /\ l.result = k.result
         /\ l.archived = k.archived /\ l.msg = FALSE
<1> DEFINE n == k.epoch + 1
           a == [k EXCEPT !.owner = 0, !.live = FALSE]
<1>1. n \in Nat /\ k.epoch \in Nat
  BY DEF ChildRow
<1>2. l = [a EXCEPT !.epoch = n, !.msg = FALSE]
  BY DEF Children!Revoke
<1>3. a \in ChildRow
  BY DEF ChildRow
<1>4. a.state = k.state /\ a.rev = k.rev /\ a.owner = 0 /\ a.fence = k.fence /\ a.live = FALSE
  BY DEF ChildRow
<1>5. a.notified = k.notified /\ a.result = k.result /\ a.archived = k.archived
  BY DEF ChildRow
<1> HIDE DEF n, a
<1>6. l \in ChildRow
  BY <1>1, <1>2, <1>3 DEF ChildRow
<1>7. l.state = a.state /\ l.rev = a.rev /\ l.owner = a.owner /\ l.fence = a.fence
  BY <1>1, <1>2, <1>3 DEF ChildRow
<1>8. l.live = a.live /\ l.notified = a.notified /\ l.result = a.result
  BY <1>1, <1>2, <1>3 DEF ChildRow
<1>9. l.archived = a.archived /\ l.epoch = n /\ l.msg = FALSE
  BY <1>1, <1>2, <1>3 DEF ChildRow
<1> QED BY <1>4, <1>5, <1>6, <1>7, <1>8, <1>9 DEF n

(* What the owner, a stop of the parent, an event or the archive may do to a row. *)
(* A step from outside an execution: the row is queued by a command, or    *)
(* left in its state, its lease at most lost.                              *)
Outside(k, l) ==
  /\ l \in ChildRow
  /\ l.fence = k.fence /\ l.notified = k.notified /\ l.result = k.result
  /\ l.epoch >= k.epoch /\ l.owner \in {k.owner, 0} /\ (l.live => k.live)
  /\ k.archived => l.archived /\ l.state = k.state
  /\ l.archived => l.state \in Children!Terminal
  /\ \/ /\ l.state = k.state /\ l.rev = k.rev
        /\ l.msg => k.msg \/ k.state = "running"
     \/ /\ l.rev = k.rev + 1 /\ l.state \in {"queued", "cancelled"}
        /\ k.state = "cancelled" => l.state = "cancelled"
        /\ l.msg => l.state = "queued"
        /\ l.live => k.state # "running"

LEMMA RowMoves ==
  ASSUME FamilyTypes, NEW c \in Child, ChildInv(c), Outside(child[c], child'[c]),
         exec'[c].fence \in {0, exec[c].fence}, exec'[c].epoch \in {0, exec[c].epoch},
         exec'[c].pc = "active" => exec[c].pc = "active",
         page'[c] = page[c], reports'[c] = reports[c], current' \in {current, FALSE}
  PROVE  ChildInv(c)' /\ Rules(c)
<1> USE DEF Children!Terminal, Children!ResultStates, Children!State, Children!Waiting
<1>0. /\ child[c] \in ChildRow /\ exec[c] \in ExecRow /\ page[c] \in PageRow
      /\ reports[c] \in Seq(Receipt)
  BY DEF FamilyTypes
<1>1. ChildRowInv(c)'
  <2>0. ChildRowInv(c)
    BY DEF ChildInv
  <2>1. current' /\ child'[c].msg => child'[c].state \in {"queued", "running", "suspended"}
    <3> SUFFICES ASSUME current', child'[c].msg
                 PROVE  child'[c].state \in {"queued", "running", "suspended"}
      OBVIOUS
    <3>1. current
      OBVIOUS
    <3>2. child[c].msg => child[c].state \in {"queued", "running", "suspended"}
      BY <2>0, <3>1 DEF ChildRowInv
    <3> QED BY <3>2 DEF Outside
  <2>2. /\ child'[c].owner \in {0, child'[c].fence}
        /\ (child'[c].state = "absent") = (child'[c].rev = 0)
        /\ child'[c].live => child'[c].state # "absent"
    BY <1>0, <2>0 DEF ChildRowInv, Outside, ChildRow
  <2>3. child'[c].archived => child'[c].state \in Children!Terminal
    BY DEF Outside
  <2>4. (child'[c].notified = child'[c].rev /\ child'[c].result \in Children!ResultStates)
          => child'[c].state = child'[c].result
    BY <1>0, <2>0 DEF ChildRowInv, Outside, ChildRow
  <2>5. child'[c].notified <= child'[c].rev /\ page'[c].rev <= child'[c].rev
    BY <1>0, <2>0 DEF ChildRowInv, Outside, ChildRow, PageRow
  <2> QED BY <2>1, <2>2, <2>3, <2>4, <2>5 DEF ChildRowInv
<1>2. LeaseInv(c)'
  <2>1. /\ exec[c].fence <= child[c].fence /\ exec[c].epoch <= child[c].epoch
        /\ exec[c].pc = "active" /\ child[c].live => child[c].state = "running"
    BY DEF ChildInv, LeaseInv
  <2>2. /\ child'[c].fence = child[c].fence /\ child'[c].epoch >= child[c].epoch
        /\ child[c].fence \in Nat /\ child[c].epoch \in Nat /\ child'[c].epoch \in Nat
        /\ exec[c].fence \in Nat /\ exec[c].epoch \in Nat
    BY <1>0 DEF Outside, ChildRow, ExecRow
  <2>3. exec'[c].fence <= child'[c].fence /\ exec'[c].epoch <= child'[c].epoch
    BY <2>1, <2>2
  <2>4. exec'[c].pc = "active" /\ child'[c].live => child'[c].state = "running"
    BY <2>1 DEF Outside
  <2> QED BY <2>3, <2>4 DEF LeaseInv
<1>3. MailInv(c)'
  <2>1. child'[c].rev >= child[c].rev /\ child[c].rev \in Nat /\ child'[c].rev \in Nat
    BY <1>0 DEF Outside, ChildRow
  <2> QED BY <2>1 DEF ChildInv, MailInv
<1>4. Rules(c)
  BY <1>0 DEF Outside, Rules
<1> QED BY <1>1, <1>2, <1>3, <1>4 DEF ChildInv

(* A step that leaves a row alone and at most drops what was read of it. *)
LEMMA ChildUnmoved ==
  ASSUME FamilyTypes, NEW c \in Child, ChildInv(c), child'[c] = child[c],
         exec'[c] = exec[c] \/ exec'[c] = Children!Idle,
         page'[c] = page[c] \/ page'[c].rev = 0, reports'[c] = reports[c], current' => current
  PROVE  ChildInv(c)' /\ Rules(c)
<1>0. /\ child[c] \in ChildRow /\ exec[c] \in ExecRow /\ page[c] \in PageRow
  BY DEF FamilyTypes
<1>1. ChildRowInv(c)'
  BY <1>0 DEF ChildInv, ChildRowInv, ChildRow
<1>2. LeaseInv(c)'
  BY <1>0 DEF ChildInv, LeaseInv, ChildRow, ExecRow, Children!Idle
<1>3. MailInv(c)'
  BY DEF ChildInv, MailInv
<1>4. Rules(c)
  BY DEF Rules
<1> QED BY <1>1, <1>2, <1>3, <1>4 DEF ChildInv

(* An executor goes on, its lease unchanged. *)
LEMMA ExecMoves ==
  ASSUME FamilyTypes, NEW c \in Child, ChildInv(c), child'[c] = child[c],
         exec'[c].fence = exec[c].fence, exec'[c].epoch = exec[c].epoch,
         exec'[c].pc = "active" => exec[c].pc = "active",
         page'[c] = page[c], reports'[c] = reports[c], current' = current
  PROVE  ChildInv(c)' /\ Rules(c)
<1>1. ChildRowInv(c)'
  BY DEF ChildInv, ChildRowInv
<1>2. LeaseInv(c)'
  BY DEF ChildInv, LeaseInv
<1>3. MailInv(c)'
  BY DEF ChildInv, MailInv
<1>4. Rules(c)
  BY DEF Rules
<1> QED BY <1>1, <1>2, <1>3, <1>4 DEF ChildInv

-----------------------------------------------------------------------------
(* A result of the row's revision, or of the next one, is posted after all *)
(* that were posted before, or was posted already.                         *)
LEMMA PostedLast ==
  ASSUME FamilyTypes, NEW c \in Child, MailInv(c), NEW r \in Nat \ {0}, r >= child[c].rev,
         NEW s, NEW q, q = Children!Posted(c, r, s)
  PROVE  /\ q \in Seq(Receipt)
         /\ \A i \in DOMAIN q : q[i].rev \in 1 .. r
         /\ \A i, j \in DOMAIN q : i < j => q[i].rev < q[j].rev
         /\ \/ q = reports[c]
            \/ q # reports[c] /\ q[Len(q)].cancelled = (s = "cancelled")
<1> DEFINE m == reports[c]
           e == [rev |-> r, cancelled |-> s = "cancelled"]
<1>1. /\ m \in Seq(Receipt) /\ child[c].rev \in Nat
      /\ \A i \in DOMAIN m : m[i].rev \in 1 .. child[c].rev
      /\ \A i, j \in DOMAIN m : i < j => m[i].rev < m[j].rev
  BY DEF FamilyTypes, ChildRow, MailInv
<1>2. e \in Receipt /\ e.rev = r /\ e.cancelled = (s = "cancelled")
  BY DEF Receipt
<1>3. CASE Children!Reported(c, r)
  BY <1>1, <1>3 DEF Children!Posted
<1>4. CASE ~Children!Reported(c, r)
  <2>1. q = Append(m, e)
    BY <1>4 DEF Children!Posted
  <2>2. \A i \in DOMAIN m : m[i].rev \in 1 .. r /\ m[i].rev < r
    <3> TAKE i \in DOMAIN m
    <3>1. m[i].rev # r
      BY <1>4 DEF Children!Reported
    <3> QED BY <1>1, <3>1
  <2> HIDE DEF m, e
  <2>3. /\ q \in Seq(Receipt) /\ Len(q) = Len(m) + 1 /\ q[Len(q)] = e
        /\ DOMAIN m = 1 .. Len(m) /\ DOMAIN q = 1 .. Len(m) + 1 /\ Len(m) \in Nat
        /\ \A i \in DOMAIN m : q[i] = m[i]
    BY <1>1, <1>2, <2>1
  <2>4. q # m
    BY <2>3
  <2>5. \A i \in DOMAIN q : q[i].rev \in 1 .. r
    BY <1>2, <2>2, <2>3
  <2>6. \A i, j \in DOMAIN q : i < j => q[i].rev < q[j].rev
    <3> TAKE i, j \in DOMAIN q
    <3>1. CASE j \in DOMAIN m
      BY <1>1, <2>3, <3>1
    <3>2. CASE j = Len(m) + 1
      BY <1>2, <2>2, <2>3, <3>2
    <3> QED BY <2>3, <3>1, <3>2
  <2> QED BY <1>2, <2>3, <2>4, <2>5, <2>6 DEF m
<1> QED BY <1>3, <1>4

(* An operator's stop, posted by the transaction that makes it. *)
LEMMA StopMoves ==
  ASSUME FamilyTypes, NEW c \in Child, ChildInv(c), NEW s \in {"cancelled", "failed"},
         child[c].state \notin Children!Terminal \cup {"absent"},
         child'[c] = Children!Enter(Children!Revoke(child[c]), s),
         reports'[c] = Children!Posted(c, child[c].rev + 1, s),
         exec'[c] = exec[c], page'[c] = page[c], current' = current
  PROVE  /\ child'[c] \in ChildRow /\ reports'[c] \in Seq(Receipt)
         /\ ChildInv(c)' /\ Rules(c)
<1> USE DEF Children!Terminal, Children!ResultStates, Children!State, Children!Waiting
<1>0. /\ child[c] \in ChildRow /\ exec[c] \in ExecRow /\ page[c] \in PageRow
  BY DEF FamilyTypes
<1>1. PICK k : k = Children!Revoke(child[c])
  OBVIOUS
<1>2. /\ k \in ChildRow
      /\ k.state = child[c].state /\ k.rev = child[c].rev
      /\ k.owner = 0 /\ k.fence = child[c].fence /\ k.live = FALSE /\ k.epoch = child[c].epoch + 1
      /\ k.notified = child[c].notified /\ k.result = child[c].result
      /\ k.archived = child[c].archived /\ k.msg = FALSE
  BY <1>0, <1>1, RevokeFields
<1>3. /\ child'[c] \in ChildRow
      /\ child'[c].state = s /\ child'[c].rev = k.rev + 1
      /\ child'[c].owner = k.owner /\ child'[c].fence = k.fence /\ child'[c].live = k.live
      /\ child'[c].epoch = k.epoch /\ child'[c].notified = k.notified /\ child'[c].result = k.result
      /\ child'[c].archived = k.archived /\ child'[c].msg = k.msg
  <2>1. s \in Children!State /\ child'[c] = Children!Enter(k, s)
    BY <1>1
  <2> QED BY <1>2, <2>1, EnterFields
<1>4. child[c].rev + 1 \in Nat \ {0} /\ child[c].rev + 1 >= child[c].rev /\ child[c].rev \in Nat
  BY <1>0 DEF ChildRow
<1>5. /\ reports'[c] \in Seq(Receipt)
      /\ \A i \in DOMAIN reports'[c] : reports'[c][i].rev \in 1 .. child[c].rev + 1
      /\ \A i, j \in DOMAIN reports'[c] : i < j => reports'[c][i].rev < reports'[c][j].rev
  BY <1>4, PostedLast DEF ChildInv
<1>6. ChildRowInv(c)'
  BY <1>0, <1>2, <1>3 DEF ChildInv, ChildRowInv, ChildRow, PageRow
<1>7. LeaseInv(c)'
  BY <1>0, <1>2, <1>3 DEF ChildInv, LeaseInv, ChildRow, ExecRow
<1>8. MailInv(c)'
  BY <1>2, <1>3, <1>5 DEF MailInv
<1>9. Rules(c)
  <2>1. ~child[c].archived /\ child[c].state # "cancelled"
    BY DEF ChildInv, ChildRowInv
  <2>2. s = "failed" => reports'[c] # reports[c]
    <3>1. ~Children!Reported(c, child[c].rev + 1)
      BY <1>4 DEF Children!Reported, ChildInv, MailInv
    <3>2. reports'[c] = Append(reports[c], [rev |-> child[c].rev + 1, cancelled |-> s = "cancelled"])
      BY <3>1 DEF Children!Posted
    <3>3. reports[c] \in Seq(Receipt) /\ [rev |-> child[c].rev + 1, cancelled |-> s = "cancelled"] \in Receipt
      BY <1>4 DEF FamilyTypes, Receipt
    <3>4. Len(reports'[c]) = Len(reports[c]) + 1 /\ Len(reports[c]) \in Nat
      BY <3>2, <3>3
    <3> QED BY <3>4
  <2> QED BY <1>3, <2>1, <2>2 DEF Rules
<1> QED BY <1>3, <1>5, <1>6, <1>7, <1>8, <1>9 DEF ChildInv

(* The executor and maintain publish what they have read of an unchanged row. *)
LEMMA PublishMoves ==
  ASSUME FamilyTypes, NEW c \in Child, ChildInv(c),
         child'[c] \in ChildRow,
         child'[c].state = child[c].state, child'[c].rev = child[c].rev,
         child'[c].owner \in {child[c].owner, 0},
         child'[c].fence = child[c].fence, child'[c].live = child[c].live,
         child'[c].epoch = child[c].epoch, child'[c].notified = child[c].rev,
         child'[c].result = child[c].state, child'[c].archived = child[c].archived,
         child'[c].msg = child[c].msg, ~child[c].archived, child[c].state # "absent",
         \/ reports'[c] = reports[c]
         \/ reports'[c] = Children!Posted(c, child[c].rev, child[c].state),
         exec'[c].fence = exec[c].fence, exec'[c].epoch = exec[c].epoch,
         exec'[c].pc = "active" => exec[c].pc = "active",
         page'[c] = page[c] \/ page'[c].rev = 0, current' = current
  PROVE  reports'[c] \in Seq(Receipt) /\ ChildInv(c)' /\ Rules(c)
<1>0. /\ child[c] \in ChildRow /\ exec[c] \in ExecRow /\ page[c] \in PageRow
      /\ reports[c] \in Seq(Receipt)
  BY DEF FamilyTypes
<1>1. child[c].rev \in Nat \ {0}
  BY <1>0 DEF ChildRow, ChildInv, ChildRowInv
<1>2. /\ reports'[c] \in Seq(Receipt)
      /\ \A i \in DOMAIN reports'[c] : reports'[c][i].rev \in 1 .. child[c].rev
      /\ \A i, j \in DOMAIN reports'[c] : i < j => reports'[c][i].rev < reports'[c][j].rev
      /\ \/ reports'[c] = reports[c]
         \/ reports'[c][Len(reports'[c])].cancelled = (child[c].state = "cancelled")
  <2>1. CASE reports'[c] = reports[c]
    BY <1>0, <2>1 DEF ChildInv, MailInv
  <2>2. CASE reports'[c] = Children!Posted(c, child[c].rev, child[c].state)
    BY <1>1, <2>2, PostedLast DEF ChildInv
  <2> QED BY <2>1, <2>2
<1>3. ChildRowInv(c)'
  BY <1>0, <1>1 DEF ChildInv, ChildRowInv, ChildRow, PageRow
<1>4. LeaseInv(c)'
  BY <1>0 DEF ChildInv, LeaseInv, ChildRow, ExecRow
<1>5. MailInv(c)'
  BY <1>2 DEF MailInv
<1>6. Rules(c)
  BY <1>2 DEF Rules
<1> QED BY <1>2, <1>3, <1>4, <1>5, <1>6 DEF ChildInv

(* An activation takes its child, and settles it. *)
LEMMA AcquireMoves ==
  ASSUME FamilyTypes, NEW c \in Child, ChildInv(c),
         child[c].state \in {"queued", "running"}, ~child[c].live, ~child[c].archived,
         child'[c] \in ChildRow,
         child'[c].state = "running", child'[c].rev = child[c].rev,
         child'[c].fence = child[c].fence + 1, child'[c].owner = child'[c].fence,
         child'[c].epoch = child[c].epoch, child'[c].notified = child[c].notified,
         child'[c].result = child[c].result, child'[c].archived = child[c].archived,
         exec'[c].fence = child[c].fence + 1, exec'[c].epoch = child[c].epoch,
         page'[c] = page[c], reports'[c] = reports[c], current' = current
  PROVE  ChildInv(c)' /\ Rules(c)
<1> USE DEF Children!Terminal, Children!ResultStates, Children!State, Children!Waiting
<1>0. child[c] \in ChildRow
  BY DEF FamilyTypes
<1>1. ChildRowInv(c)'
  BY <1>0 DEF ChildInv, ChildRowInv, ChildRow
<1>2. LeaseInv(c)'
  BY <1>0 DEF LeaseInv, ChildRow
<1>3. MailInv(c)'
  BY DEF ChildInv, MailInv
<1>4. Rules(c)
  BY DEF Rules
<1> QED BY <1>1, <1>2, <1>3, <1>4 DEF ChildInv

LEMMA LandMoves ==
  ASSUME FamilyTypes, NEW c \in Child, ChildInv(c),
         exec[c].pc = "active", child[c].live, ~child[c].archived,
         NEW s \in Children!State \ {"absent", "running"},
         child'[c] = Children!Land(child[c], s),
         exec'[c].fence = exec[c].fence, exec'[c].epoch = exec[c].epoch, exec'[c].pc # "active",
         page'[c] = page[c], reports'[c] = reports[c], current' = current
  PROVE  child'[c] \in ChildRow /\ ChildInv(c)' /\ Rules(c)
<1> USE DEF Children!Terminal, Children!ResultStates, Children!State, Children!Waiting
<1>a. child[c] \in ChildRow
  BY DEF FamilyTypes
<1>0. /\ child[c] \in ChildRow /\ exec[c] \in ExecRow /\ page[c] \in PageRow
      /\ child[c].state = "running"
  BY DEF FamilyTypes, ChildInv, LeaseInv
<1>1. PICK k : k = Children!Revoke(child[c])
  OBVIOUS
<1>2. /\ k \in ChildRow
      /\ k.state = child[c].state /\ k.rev = child[c].rev
      /\ k.owner = 0 /\ k.fence = child[c].fence /\ k.live = FALSE /\ k.epoch = child[c].epoch + 1
      /\ k.notified = child[c].notified /\ k.result = child[c].result
      /\ k.archived = child[c].archived /\ k.msg = FALSE
  BY ONLY <1>a, <1>1, RevokeFields
<1>3. PICK b \in {child[c], k}, t \in Children!State :
        /\ child'[c] = Children!Enter(b, t) /\ t # "absent"
        /\ b.msg => t \in {"queued", "suspended"}
  BY <1>1, <1>2 DEF Children!Land
<1>4. /\ b \in ChildRow /\ b.rev = child[c].rev /\ b.fence = child[c].fence
      /\ b.owner \in {child[c].owner, 0} /\ b.epoch >= child[c].epoch
      /\ b.notified = child[c].notified /\ b.result = child[c].result /\ ~b.archived
  BY <1>0, <1>2 DEF ChildRow
<1>5. /\ child'[c] \in ChildRow
      /\ child'[c].state = t /\ child'[c].rev = b.rev + 1
      /\ child'[c].owner = b.owner /\ child'[c].fence = b.fence
      /\ child'[c].epoch = b.epoch /\ child'[c].notified = b.notified /\ child'[c].result = b.result
      /\ child'[c].archived = b.archived /\ child'[c].msg = b.msg
  BY <1>3, <1>4, EnterFields
<1>6. ChildRowInv(c)'
  BY <1>0, <1>3, <1>4, <1>5 DEF ChildInv, ChildRowInv, ChildRow, PageRow
<1>7. LeaseInv(c)'
  BY <1>0, <1>4, <1>5 DEF ChildInv, LeaseInv, ChildRow, ExecRow
<1>8. MailInv(c)'
  <2>1. child'[c].rev = child[c].rev + 1 /\ child[c].rev \in Nat
    BY <1>0, <1>4, <1>5 DEF ChildRow
  <2> QED BY <2>1 DEF ChildInv, MailInv
<1>9. Rules(c)
  BY <1>0 DEF Rules
<1> QED BY <1>5, <1>6, <1>7, <1>8, <1>9 DEF ChildInv

-----------------------------------------------------------------------------
ChildrenInv == FamilyTypes /\ \A c \in Child : ChildInv(c)

(* What every step is shown to do: keep the invariant, and the two rules. *)
Good == ChildrenInv' /\ \A c \in Child : Rules(c)

(* A step on one child. *)
LEMMA OneMoves ==
  ASSUME ChildrenInv, NEW c \in Child, UNCHANGED <<page, current>>,
         child' \in [Child -> ChildRow], exec' \in [Child -> ExecRow],
         reports' \in [Child -> Seq(Receipt)],
         \A d \in Child \ {c} : /\ child'[d] = child[d] /\ exec'[d] = exec[d]
                                /\ reports'[d] = reports[d],
         ChildInv(c)' /\ Rules(c)
  PROVE  Good
<1>1. FamilyTypes'
  BY DEF ChildrenInv, FamilyTypes
<1>2. ASSUME NEW d \in Child  PROVE ChildInv(d)' /\ Rules(d)
  <2>1. CASE d = c
    BY <2>1
  <2>2. CASE d # c
    BY <2>2, ChildUnmoved DEF ChildrenInv
  <2> QED BY <2>1, <2>2
<1> QED BY <1>1, <1>2 DEF Good, ChildrenInv

LEMMA OutsideMoves ==
  ASSUME ChildrenInv, NEW c \in Child, UNCHANGED <<exec, page, reports, current>>,
         NEW l, child' = [child EXCEPT ![c] = l], Outside(child[c], l)
  PROVE  Good
<1>1. /\ child \in [Child -> ChildRow] /\ exec \in [Child -> ExecRow]
      /\ reports \in [Child -> Seq(Receipt)]
  BY DEF ChildrenInv, FamilyTypes
<1>2. child'[c] = l /\ \A d \in Child \ {c} : child'[d] = child[d]
  BY <1>1
<1>3. child' \in [Child -> ChildRow]
  BY <1>1 DEF Outside
<1>4. ChildInv(c)' /\ Rules(c)
  BY <1>2, RowMoves DEF ChildrenInv
<1> QED BY <1>1, <1>2, <1>3, <1>4, OneMoves

LEMMA ExecStep ==
  ASSUME ChildrenInv, NEW c \in Child, UNCHANGED <<child, page, reports, current>>,
         NEW y \in ExecRow, exec' = [exec EXCEPT ![c] = y],
         (y.fence = exec[c].fence /\ y.epoch = exec[c].epoch) \/ y = Children!Idle,
         y.pc = "active" => exec[c].pc = "active"
  PROVE  Good
<1>1. /\ child \in [Child -> ChildRow] /\ exec \in [Child -> ExecRow]
      /\ reports \in [Child -> Seq(Receipt)]
  BY DEF ChildrenInv, FamilyTypes
<1>2. exec'[c] = y /\ exec' \in [Child -> ExecRow] /\ \A d \in Child \ {c} : exec'[d] = exec[d]
  BY <1>1
<1>3. ChildInv(c)' /\ Rules(c)
  <2>1. CASE y = Children!Idle
    BY <1>2, <2>1, ChildUnmoved DEF ChildrenInv
  <2>2. CASE y.fence = exec[c].fence /\ y.epoch = exec[c].epoch
    BY <1>2, <2>2, ExecMoves DEF ChildrenInv
  <2> QED BY <2>1, <2>2
<1> QED BY <1>1, <1>2, <1>3, OneMoves

(* The row with a message, and with its lease lost. *)
WithMsg(k) == [k EXCEPT !.msg = TRUE]
Unleased(k) == [k EXCEPT !.live = FALSE]

LEMMA MsgFields ==
  ASSUME NEW k \in ChildRow, NEW l, l = WithMsg(k)
  PROVE  /\ l \in ChildRow /\ l.state = k.state /\ l.rev = k.rev
         /\ l.owner = k.owner /\ l.fence = k.fence /\ l.live = k.live /\ l.epoch = k.epoch
         /\ l.notified = k.notified /\ l.result = k.result
         /\ l.archived = k.archived /\ l.msg
  BY DEF ChildRow, WithMsg

LEMMA LiveFields ==
  ASSUME NEW k \in ChildRow, NEW l, l = Unleased(k)
  PROVE  /\ l \in ChildRow /\ l.state = k.state /\ l.rev = k.rev
         /\ l.owner = k.owner /\ l.fence = k.fence /\ ~l.live /\ l.epoch = k.epoch
         /\ l.notified = k.notified /\ l.result = k.result
         /\ l.archived = k.archived /\ l.msg = k.msg
  BY DEF ChildRow, Unleased

(* A child that does not run is queued again. *)
LEMMA Queues ==
  ASSUME ChildrenInv, NEW c \in Child, ~child[c].archived,
         child[c].state \notin {"cancelled", "running"},
         NEW l, l = Children!Enter(child[c], "queued")
  PROVE  Outside(child[c], l)
<1>1. child[c] \in ChildRow /\ "queued" \in Children!State
  BY DEF ChildrenInv, FamilyTypes, Children!State
<1>2. /\ l \in ChildRow
      /\ l.state = "queued" /\ l.rev = child[c].rev + 1
      /\ l.owner = child[c].owner /\ l.fence = child[c].fence /\ l.live = child[c].live
      /\ l.epoch = child[c].epoch
      /\ l.notified = child[c].notified /\ l.result = child[c].result
      /\ l.archived = child[c].archived /\ l.msg = child[c].msg
  BY ONLY <1>1, EnterFields, l = Children!Enter(child[c], "queued")
<1> QED BY <1>1, <1>2 DEF Outside, ChildRow

LEMMA OutsideStep ==
  ASSUME ChildrenInv, NEW c \in Child,
         \/ Children!Start(c) \/ Children!Message(c) \/ Children!Resume(c)
         \/ Children!OperatorResume(c) \/ Children!Event(c)
         \/ Children!Expire(c) \/ Children!Stall(c)
  PROVE  Good
<1>0. child \in [Child -> ChildRow] /\ child[c] \in ChildRow
  BY DEF ChildrenInv, FamilyTypes
<1>a. ChildRowInv(c)
  BY DEF ChildrenInv, ChildInv
<1>1. CASE Children!Start(c)
  <2>1. child' = [child EXCEPT ![c] = [child[c] EXCEPT !.state = "queued", !.rev = 1]]
    BY <1>0, <1>1 DEF Children!Start
  <2>2. child[c].rev = 0 /\ ~child[c].archived /\ child[c].state \notin {"cancelled", "running"}
    BY <1>1, <1>a DEF Children!Start, ChildRowInv, Children!Terminal
  <2>3. child' = [child EXCEPT ![c] = Children!Enter(child[c], "queued")]
    BY <2>1, <2>2 DEF Children!Enter
  <2> QED BY <1>1, <2>2, <2>3, Queues, OutsideMoves DEF Children!Start
<1>2. CASE Children!Message(c)
  <2>1. PICK b : b = IF child[c].state = "running" THEN child[c] ELSE Children!Enter(child[c], "queued")
    OBVIOUS
  <2>2. PICK l : l = WithMsg(b)
    OBVIOUS
  <2>3. child' = [child EXCEPT ![c] = l]
    BY <1>0, <1>2, <2>1, <2>2 DEF Children!Message, WithMsg
  <2>4. ~child[c].archived /\ child[c].state # "cancelled"
    BY <1>2 DEF Children!Message
  <2>5. CASE child[c].state = "running"
    <3>1. b = child[c]
      BY <2>1, <2>5
    <3>a. /\ l \in ChildRow /\ l.state = child[c].state /\ l.rev = child[c].rev
          /\ l.owner = child[c].owner /\ l.fence = child[c].fence /\ l.live = child[c].live
          /\ l.epoch = child[c].epoch /\ l.notified = child[c].notified
          /\ l.result = child[c].result /\ l.archived = child[c].archived
      BY <1>0, <2>2, <3>1, MsgFields
    <3>2. Outside(child[c], l)
      BY <1>0, <2>4, <2>5, <3>a DEF Outside, ChildRow
    <3> QED BY <1>2, <2>3, <3>2, OutsideMoves DEF Children!Message
  <2>6. CASE child[c].state # "running"
    <3>1. b = Children!Enter(child[c], "queued")
      BY <2>1, <2>6
    <3>2. Outside(child[c], b) /\ b.state = "queued" /\ b.rev = child[c].rev + 1
      <4>1. Outside(child[c], b)
        BY <2>4, <2>6, <3>1, Queues
      <4>2. b.state = "queued" /\ b.rev = child[c].rev + 1
        BY <1>0, <3>1, EnterFields DEF Children!State
      <4> QED BY <4>1, <4>2
    <3>a. b \in ChildRow
      BY <3>2 DEF Outside
    <3>b. /\ l \in ChildRow /\ l.state = b.state /\ l.rev = b.rev
          /\ l.owner = b.owner /\ l.fence = b.fence /\ l.live = b.live
          /\ l.epoch = b.epoch /\ l.notified = b.notified
          /\ l.result = b.result /\ l.archived = b.archived
      BY ONLY <2>2, <3>a, MsgFields, Zenon
    <3>3. Outside(child[c], l)
      BY <2>4, <2>6, <3>2, <3>b DEF Outside
    <3> QED BY <1>2, <2>3, <3>3, OutsideMoves DEF Children!Message
  <2> QED BY <2>5, <2>6
<1>3. CASE Children!Resume(c)
  BY <1>3, Queues, OutsideMoves DEF Children!Resume
<1>4. CASE Children!OperatorResume(c)
  BY <1>4, Queues, OutsideMoves DEF Children!OperatorResume, Children!Waiting
<1>5. CASE Children!Event(c)
  <2>1. ~child[c].archived
    BY <1>5, <1>a DEF Children!Event, ChildRowInv, Children!Terminal
  <2> QED BY <1>5, <2>1, Queues, OutsideMoves DEF Children!Event
<1>6. CASE Children!Expire(c) \/ Children!Stall(c)
  <2>1. PICK l : l = Unleased(child[c])
    OBVIOUS
  <2>2. child' = [child EXCEPT ![c] = l]
    BY <1>0, <1>6, <2>1 DEF Children!Expire, Children!Stall, Unleased
  <2>a. /\ l \in ChildRow /\ l.state = child[c].state /\ l.rev = child[c].rev
        /\ l.owner = child[c].owner /\ l.fence = child[c].fence /\ ~l.live
        /\ l.epoch = child[c].epoch /\ l.notified = child[c].notified
        /\ l.result = child[c].result /\ l.archived = child[c].archived /\ l.msg = child[c].msg
    BY ONLY <1>0, <2>1, LiveFields
  <2>3. Outside(child[c], l)
    BY <1>0, <1>a, <2>a DEF Outside, ChildRow, ChildRowInv
  <2> QED BY <1>6, <2>2, <2>3, OutsideMoves DEF Children!Expire, Children!Stall
<1> QED BY <1>1, <1>2, <1>3, <1>4, <1>5, <1>6

LEMMA StopStep ==
  ASSUME ChildrenInv, NEW c \in Child, NEW s \in {"cancelled", "failed"}, Children!Stop(c, s)
  PROVE  Good
<1>1. /\ child \in [Child -> ChildRow] /\ exec \in [Child -> ExecRow]
      /\ reports \in [Child -> Seq(Receipt)]
  BY DEF ChildrenInv, FamilyTypes
<1>2. PICK l, q : /\ child' = [child EXCEPT ![c] = l] /\ reports' = [reports EXCEPT ![c] = q]
                  /\ l = Children!Enter(Children!Revoke(child[c]), s)
                  /\ q = Children!Posted(c, child[c].rev + 1, s)
                  /\ UNCHANGED <<exec, page, current>>
  BY DEF Children!Stop
<1>3. /\ child'[c] = l /\ reports'[c] = q
      /\ \A d \in Child \ {c} : child'[d] = child[d] /\ reports'[d] = reports[d]
  BY <1>1, <1>2
<1>4. /\ child'[c] \in ChildRow /\ reports'[c] \in Seq(Receipt)
      /\ ChildInv(c)' /\ Rules(c)
  <2>1. child[c].state \notin Children!Terminal \cup {"absent"}
    BY DEF Children!Stop
  <2> QED BY <1>2, <1>3, <2>1, StopMoves DEF ChildrenInv
<1>5. child' \in [Child -> ChildRow] /\ reports' \in [Child -> Seq(Receipt)]
  BY <1>1, <1>2, <1>3, <1>4
<1> QED BY <1>1, <1>2, <1>3, <1>4, <1>5, OneMoves

(* The end of the parent, and the archive, look at every row at once. *)
LEMMA AllMove ==
  ASSUME ChildrenInv, UNCHANGED <<exec, page, reports>>, current' \in {current, FALSE},
         DOMAIN child' = Child, child' = [d \in Child |-> child'[d]],
         \A d \in Child : child'[d] = child[d] \/ Outside(child[d], child'[d])
  PROVE  Good
<1>1. \A d \in Child : child[d] \in ChildRow
  BY DEF ChildrenInv, FamilyTypes
<1>2. child' \in [Child -> ChildRow]
  BY <1>1 DEF Outside
<1>3. FamilyTypes'
  BY <1>2 DEF ChildrenInv, FamilyTypes
<1>4. ASSUME NEW d \in Child  PROVE ChildInv(d)' /\ Rules(d)
  <2>0. current' => current
    OBVIOUS
  <2>1. CASE child'[d] = child[d]
    BY <2>0, <2>1, ChildUnmoved DEF ChildrenInv
  <2>2. CASE Outside(child[d], child'[d])
    BY <2>2, RowMoves DEF ChildrenInv
  <2> QED BY <2>1, <2>2
<1> QED BY <1>3, <1>4 DEF Good, ChildrenInv

(* What the end of its parent or of the conversation does to one row. *)
LEMMA StoppedRow ==
  ASSUME ChildrenInv, NEW d \in Child
  PROVE  Children!Stopped(child[d]) = child[d] \/ Outside(child[d], Children!Stopped(child[d]))
<1>1. child[d] \in ChildRow /\ ChildRowInv(d)
  BY DEF ChildrenInv, FamilyTypes, ChildInv
<1>2. PICK k : k = Children!Revoke(child[d])
  OBVIOUS
<1>3. /\ k \in ChildRow
      /\ k.state = child[d].state /\ k.rev = child[d].rev
      /\ k.owner = 0 /\ k.fence = child[d].fence /\ ~k.live /\ k.epoch = child[d].epoch + 1
      /\ k.notified = child[d].notified /\ k.result = child[d].result
      /\ k.archived = child[d].archived /\ ~k.msg
  BY ONLY <1>1, <1>2, RevokeFields
<1>4. child[d].epoch \in Nat /\ child[d].rev \in Nat
  BY <1>1 DEF ChildRow
<1>5. CASE child[d].state = "absent"
  BY <1>5 DEF Children!Stopped, Children!Terminal
<1>6. CASE child[d].state \in Children!Terminal
  <2>1. Outside(child[d], k)
    BY <1>3, <1>4, <1>6 DEF Outside
  <2>2. Children!Stopped(child[d]) = k
    BY <1>2, <1>6 DEF Children!Stopped, Children!Terminal
  <2> QED BY <2>1, <2>2
<1>7. CASE child[d].state \notin Children!Terminal \cup {"absent"}
  <2>1. PICK l : l = Children!Enter(k, "cancelled")
    OBVIOUS
  <2>2. /\ l \in ChildRow
        /\ l.state = "cancelled" /\ l.rev = k.rev + 1
        /\ l.owner = k.owner /\ l.fence = k.fence /\ (l.live = k.live) /\ l.epoch = k.epoch
        /\ l.notified = k.notified /\ l.result = k.result
        /\ (l.archived = k.archived) /\ (l.msg = k.msg)
    <3>1. "cancelled" \in Children!State
      BY DEF Children!State, Children!Terminal
    <3> QED BY ONLY <1>3, <2>1, <3>1, EnterFields
  <2>3. ~child[d].archived
    BY <1>1, <1>7 DEF ChildRowInv
  <2>4. Outside(child[d], l)
    BY <1>3, <1>4, <2>2, <2>3 DEF Outside
  <2>5. Children!Stopped(child[d]) = l
    BY <1>2, <1>7, <2>1 DEF Children!Stopped
  <2> QED BY <2>4, <2>5
<1> QED BY <1>5, <1>6, <1>7

LEMMA AllStop ==
  ASSUME ChildrenInv, UNCHANGED <<exec, page, reports>>, current' \in {current, FALSE},
         child' = [c \in Child |-> Children!Stopped(child[c])]
  PROVE  Good
<1>1. \A d \in Child : child'[d] = Children!Stopped(child[d])
  OBVIOUS
<1>2. DOMAIN child' = Child /\ child' = [d \in Child |-> child'[d]]
  OBVIOUS
<1>3. \A d \in Child : child'[d] = child[d] \/ Outside(child[d], child'[d])
  BY <1>1, StoppedRow
<1> QED BY <1>2, <1>3, AllMove

LEMMA ParentEnds ==
  ASSUME ChildrenInv, NEW s \in Children!ParentTo, NEW w \in BOOLEAN, Children!ParentSettles(s, w)
  PROVE  Good
<1>1. /\ UNCHANGED <<exec, page, reports, current>>
      /\ child' \in {child, [c \in Child |-> Children!Stopped(child[c])]}
  BY DEF Children!ParentSettles
<1>2. child = [d \in Child |-> child[d]]
  BY DEF ChildrenInv, FamilyTypes
<1>3. CASE child' = child
  BY <1>1, <1>2, <1>3, AllMove
<1>4. CASE child' = [c \in Child |-> Children!Stopped(child[c])]
  BY <1>1, <1>4, AllStop
<1> QED BY <1>1, <1>3, <1>4

LEMMA ResetStep ==
  ASSUME ChildrenInv, Children!Reset
  PROVE  Good
<1>1. /\ UNCHANGED <<exec, page, reports>> /\ current' \in {current, FALSE}
      /\ child' = [c \in Child |-> Children!Stopped(child[c])]
  BY DEF Children!Reset
<1> QED BY <1>1, AllStop

LEMMA ArchiveStep ==
  ASSUME ChildrenInv, Children!Archive
  PROVE  Good
<1> DEFINE A(k) == [k EXCEPT !.archived = TRUE, !.owner = 0, !.msg = FALSE]
           ended == \A c \in Child : child[c].state \in Children!Terminal \cup {"absent"}
           K(d) == IF parent.old /\ ended /\ d \in Children!Due THEN A(child[d]) ELSE child[d]
<1>1. UNCHANGED <<exec, page, reports, current>> /\ child' = [d \in Child |-> K(d)]
  BY DEF Children!Archive
<1>2. ASSUME NEW d \in Child  PROVE K(d) = child[d] \/ Outside(child[d], K(d))
  <2>1. child[d] \in ChildRow
    BY DEF ChildrenInv, FamilyTypes
  <2>2. CASE d \in Children!Due
    <3>1. PICK l : l = A(child[d])
      OBVIOUS
    <3>2. child[d].state \in Children!Terminal
      BY <2>2 DEF Children!Due
    <3>3. /\ l \in ChildRow /\ l.state = child[d].state /\ l.rev = child[d].rev
          /\ l.owner = 0 /\ l.fence = child[d].fence
      BY <2>1, <3>1 DEF ChildRow
    <3>4. /\ (l.live = child[d].live) /\ l.epoch = child[d].epoch
          /\ l.notified = child[d].notified /\ l.result = child[d].result
      BY <2>1, <3>1 DEF ChildRow
    <3>5. l.archived /\ ~l.msg
      BY <2>1, <3>1 DEF ChildRow
    <3>6. child[d].epoch \in Nat
      BY <2>1 DEF ChildRow
    <3>7. Outside(child[d], l)
      BY <3>2, <3>3, <3>4, <3>5, <3>6 DEF Outside
    <3> QED BY <3>1, <3>7
  <2>3. CASE d \notin Children!Due
    BY <2>3
  <2> QED BY <2>2, <2>3
<1>3. \A d \in Child : child'[d] = K(d)
  BY <1>1
<1> HIDE DEF K
<1> QED BY <1>1, <1>2, <1>3, AllMove

LEMMA ExecFields ==
  ASSUME NEW x \in ExecRow
  PROVE  /\ \A p \in {"idle", "picked", "active", "settled", "prepared", "release"} :
              LET y == [x EXCEPT !.pc = p] IN
              y \in ExecRow /\ y.pc = p /\ y.fence = x.fence /\ y.epoch = x.epoch
         /\ LET y == [x EXCEPT !.first = FALSE] IN
              y \in ExecRow /\ y.pc = x.pc /\ y.fence = x.fence /\ y.epoch = x.epoch
  BY DEF ExecRow

LEMMA IdleRow == Children!Idle \in ExecRow /\ Children!Idle.pc = "idle"
  BY DEF ExecRow, Children!Idle

LEMMA ExecutorStep ==
  ASSUME ChildrenInv, NEW c \in Child,
         \/ Children!Select(c) \/ Children!Abandon(c) \/ Children!ReadResult(c)
         \/ Children!CleanupFails(c)
  PROVE  Good
<1>0. exec \in [Child -> ExecRow] /\ exec[c] \in ExecRow /\ child[c] \in ChildRow
  BY DEF ChildrenInv, FamilyTypes
<1>1. CASE Children!Select(c)
  <2>1. exec' = [exec EXCEPT ![c] = [exec[c] EXCEPT !.pc = "picked"]] /\ UNCHANGED <<child, page, reports, current>>
    BY <1>0, <1>1 DEF Children!Select
  <2> QED BY <1>0, <2>1, ExecFields, ExecStep
<1>2. CASE Children!Abandon(c)
  <2>1. exec' = [exec EXCEPT ![c] = [exec[c] EXCEPT !.pc = "release"]] /\ UNCHANGED <<child, page, reports, current>>
    BY <1>0, <1>2 DEF Children!Abandon
  <2> QED BY <1>0, <2>1, ExecFields, ExecStep
<1>3. CASE Children!ReadResult(c)
  <2> DEFINE y == [exec[c] EXCEPT !.pc = "prepared", !.rev = child[c].rev, !.read = child[c].state]
  <2>1. /\ exec' = [exec EXCEPT ![c] = y]
        /\ UNCHANGED <<child, page, reports, current>>
    BY <1>0, <1>3 DEF Children!ReadResult
  <2>2. child[c].rev \in Nat /\ child[c].state \in Children!State \cup {"none"}
    BY <1>0 DEF ChildRow
  <2>3. y \in ExecRow /\ y.pc = "prepared" /\ y.fence = exec[c].fence /\ y.epoch = exec[c].epoch
    BY <1>0, <2>2 DEF ExecRow
  <2> HIDE DEF y
  <2> QED BY <2>1, <2>3, ExecStep
<1>4. CASE Children!CleanupFails(c)
  <2>1. /\ \/ exec' = [exec EXCEPT ![c] = [exec[c] EXCEPT !.pc = "release"]]
           \/ exec' = [exec EXCEPT ![c] = Children!Idle]
        /\ UNCHANGED <<child, page, reports, current>>
    BY <1>0, <1>4 DEF Children!CleanupFails
  <2>2. CASE exec' = [exec EXCEPT ![c] = [exec[c] EXCEPT !.pc = "release"]]
    BY <1>0, <2>1, <2>2, ExecFields, ExecStep
  <2>3. CASE exec' = [exec EXCEPT ![c] = Children!Idle]
    BY <2>1, <2>3, IdleRow, ExecStep
  <2> QED BY <2>1, <2>2, <2>3
<1> QED BY <1>1, <1>2, <1>3, <1>4

(* A step on the row and the executor of one child. *)
LEMMA PairMoves ==
  ASSUME ChildrenInv, NEW c \in Child, UNCHANGED <<page, current>>,
         NEW l, NEW y, child' = [child EXCEPT ![c] = l], exec' = [exec EXCEPT ![c] = y],
         child'[c] = l /\ exec'[c] = y /\ reports'[c] = reports[c] => l \in ChildRow /\ y \in ExecRow /\ ChildInv(c)' /\ Rules(c),
         reports' = reports
  PROVE  Good
<1>1. /\ child \in [Child -> ChildRow] /\ exec \in [Child -> ExecRow]
      /\ reports \in [Child -> Seq(Receipt)]
  BY DEF ChildrenInv, FamilyTypes
<1>2. /\ child'[c] = l /\ exec'[c] = y
      /\ \A d \in Child \ {c} : child'[d] = child[d] /\ exec'[d] = exec[d]
  BY <1>1
<1>3. l \in ChildRow /\ y \in ExecRow /\ ChildInv(c)' /\ Rules(c)
  BY <1>2
<1>4. child' \in [Child -> ChildRow] /\ exec' \in [Child -> ExecRow]
  BY <1>1, <1>3
<1> QED BY <1>1, <1>2, <1>3, <1>4, OneMoves

LEMMA AcquireStep ==
  ASSUME ChildrenInv, NEW c \in Child, Children!Acquire(c)
  PROVE  Good
<1>0. exec \in [Child -> ExecRow] /\ exec[c] \in ExecRow /\ child \in [Child -> ChildRow] /\ child[c] \in ChildRow
  BY DEF ChildrenInv, FamilyTypes
<1>1. CASE /\ child[c].state \in {"queued", "running"} /\ current
           /\ ~child[c].live /\ ~child[c].archived
           /\ child' = [child EXCEPT ![c].state = "running", ![c].live = TRUE,
                                     ![c].fence = @ + 1, ![c].owner = child[c].fence + 1]
           /\ exec' = [exec EXCEPT ![c] = [Children!Idle EXCEPT !.pc = "active",
                         !.fence = child[c].fence + 1, !.epoch = child[c].epoch,
                         !.rev = child[c].rev, !.first = child[c].msg]]
  <2> DEFINE n == child[c].fence + 1
             a == [child[c] EXCEPT !.state = "running", !.live = TRUE]
             l == [a EXCEPT !.fence = n, !.owner = n]
             y == [Children!Idle EXCEPT !.pc = "active", !.fence = n, !.epoch = child[c].epoch,
                                       !.rev = child[c].rev, !.first = child[c].msg]
  <2>1. child' = [child EXCEPT ![c] = l] /\ exec' = [exec EXCEPT ![c] = y]
    BY <1>0, <1>1
  <2>2. n \in Nat /\ child[c].epoch \in Nat /\ child[c].rev \in Nat /\ child[c].msg \in BOOLEAN
    BY <1>0 DEF ChildRow
  <2>a. n = child[c].fence + 1
    OBVIOUS
  <2> HIDE DEF n
  <2>3. y \in ExecRow /\ y.fence = n /\ y.epoch = child[c].epoch
    BY <2>2 DEF ExecRow, Children!Idle
  <2>4. a \in ChildRow /\ a.state = "running"
    BY <1>0 DEF ChildRow, Children!State
  <2>5. /\ a.rev = child[c].rev /\ a.epoch = child[c].epoch /\ a.notified = child[c].notified
        /\ a.result = child[c].result /\ a.archived = child[c].archived
    BY <1>0 DEF ChildRow, Children!State
  <2> HIDE DEF a
  <2>6. l \in ChildRow /\ l.state = a.state /\ l.fence = n /\ l.owner = n
    BY <2>2, <2>4 DEF ChildRow
  <2>7. /\ l.rev = a.rev /\ l.epoch = a.epoch /\ l.notified = a.notified
        /\ l.result = a.result /\ l.archived = a.archived
    BY <2>2, <2>4 DEF ChildRow
  <2> HIDE DEF l, y
  <2>8. /\ child'[c] = l /\ exec'[c] = y /\ page' = page /\ reports' = reports /\ current' = current
    BY <1>0, <2>1 DEF Children!Acquire
  <2>9. ChildInv(c)' /\ Rules(c)
    BY <1>1, <2>a, <2>3, <2>4, <2>5, <2>6, <2>7, <2>8, AcquireMoves DEF ChildrenInv
  <2> QED BY <2>1, <2>3, <2>6, <2>8, <2>9, PairMoves
<1>2. CASE /\ child[c].state \in {"queued", "running"} /\ ~current
           /\ child' = [child EXCEPT ![c].state = "cancelled"]
           /\ exec' = [exec EXCEPT ![c] = Children!Idle]
  <2> DEFINE l == [child[c] EXCEPT !.state = "cancelled"]
  <2>1. child' = [child EXCEPT ![c] = l] /\ exec' = [exec EXCEPT ![c] = Children!Idle]
    BY <1>0, <1>2
  <2>2. l \in ChildRow /\ l.state = "cancelled" /\ l.rev = child[c].rev /\ l.fence = child[c].fence
    BY <1>0 DEF ChildRow, Children!State, Children!Terminal
  <2>3. l.owner = child[c].owner /\ l.epoch = child[c].epoch /\ l.notified = child[c].notified
    BY <1>0 DEF ChildRow
  <2>4. l.result = child[c].result /\ l.archived = child[c].archived
    BY <1>0 DEF ChildRow
  <2> HIDE DEF l
  <2>5. child'[c] = l /\ exec'[c] = Children!Idle /\ page' = page /\ reports' = reports /\ current' = current
    BY <1>0, <2>1 DEF Children!Acquire
  <2>6. ChildInv(c)
    BY DEF ChildrenInv
  <2>7. ChildRowInv(c)'
    BY <1>0, <1>2, <2>2, <2>3, <2>4, <2>5, <2>6
       DEF ChildInv, ChildRowInv, ChildRow, Children!Terminal, Children!ResultStates
  <2>8. LeaseInv(c)'
    BY <1>0, <2>2, <2>3, <2>5, <2>6 DEF ChildInv, LeaseInv, ChildRow, Children!Idle
  <2>9. MailInv(c)'
    BY <2>2, <2>5, <2>6 DEF ChildInv, MailInv
  <2>10. Rules(c)
    BY <1>2, <2>2, <2>5, <2>6 DEF ChildInv, ChildRowInv, Rules, Children!Terminal
  <2> QED BY <2>1, <2>2, <2>5, <2>7, <2>8, <2>9, <2>10, IdleRow, PairMoves DEF ChildInv
<1>3. CASE exec' = [exec EXCEPT ![c] = Children!Idle] /\ UNCHANGED child
  <2>1. UNCHANGED <<child, page, reports, current>> /\ Children!Idle \in ExecRow /\ Children!Idle.pc = "idle"
    BY <1>3 DEF Children!Acquire, ExecRow, Children!Idle
  <2> QED BY <1>3, <2>1, ExecStep
<1> QED BY <1>1, <1>2, <1>3 DEF Children!Acquire

LEMMA TakeStep ==
  ASSUME ChildrenInv, NEW c \in Child, Children!Take(c)
  PROVE  Good
<1> DEFINE l == [child[c] EXCEPT !.msg = FALSE]
           y == [exec[c] EXCEPT !.first = FALSE]
<1>0. /\ exec \in [Child -> ExecRow] /\ exec[c] \in ExecRow
      /\ child \in [Child -> ChildRow] /\ child[c] \in ChildRow /\ ChildRowInv(c)
  BY DEF ChildrenInv, FamilyTypes, ChildInv
<1>1. child' = [child EXCEPT ![c] = l] /\ exec' = [exec EXCEPT ![c] = y]
  BY <1>0 DEF Children!Take
<1>2. y \in ExecRow /\ y.pc = exec[c].pc /\ y.fence = exec[c].fence /\ y.epoch = exec[c].epoch
  BY <1>0 DEF ExecRow
<1>3. /\ l \in ChildRow /\ l.state = child[c].state /\ l.rev = child[c].rev
      /\ l.owner = child[c].owner /\ l.fence = child[c].fence /\ (l.live = child[c].live)
      /\ l.epoch = child[c].epoch /\ l.notified = child[c].notified
      /\ l.result = child[c].result /\ (l.archived = child[c].archived) /\ ~l.msg
  BY <1>0 DEF ChildRow
<1> HIDE DEF l, y
<1>4. child'[c] = l /\ exec'[c] = y /\ page' = page /\ reports' = reports /\ current' = current
  BY <1>0, <1>1 DEF Children!Take
<1>5. Outside(child[c], l)
  BY <1>0, <1>3 DEF Outside, ChildRow, ChildRowInv
<1>6. ChildInv(c)' /\ Rules(c)
  BY <1>2, <1>4, <1>5, RowMoves DEF ChildrenInv
<1> QED BY <1>1, <1>2, <1>3, <1>4, <1>6, PairMoves

LEMMA ReleaseChild ==
  ASSUME ChildrenInv, NEW c \in Child, Children!Release(c)
  PROVE  Good
<1> DEFINE a == [child[c] EXCEPT !.owner = 0, !.live = FALSE]
<1>0. /\ exec \in [Child -> ExecRow] /\ exec[c] \in ExecRow
      /\ child \in [Child -> ChildRow] /\ child[c] \in ChildRow /\ ChildRowInv(c)
  BY DEF ChildrenInv, FamilyTypes, ChildInv
<1>1. /\ child' = [child EXCEPT ![c] = a] \/ child' = child
      /\ exec' = [exec EXCEPT ![c] = Children!Idle]
      /\ UNCHANGED <<page, reports, current>>
  BY <1>0 DEF Children!Release
<1>2. CASE child' = child
  BY <1>1, <1>2, IdleRow, ExecStep
<1>3. CASE child' = [child EXCEPT ![c] = a]
  <2>1. /\ a \in ChildRow /\ a.state = child[c].state /\ a.rev = child[c].rev
        /\ a.owner = 0 /\ a.fence = child[c].fence /\ ~a.live
    BY <1>0 DEF ChildRow
  <2>2. /\ a.epoch = child[c].epoch /\ a.notified = child[c].notified
        /\ a.result = child[c].result /\ (a.archived = child[c].archived) /\ (a.msg = child[c].msg)
    BY <1>0 DEF ChildRow
  <2> HIDE DEF a
  <2>3. child'[c] = a /\ exec'[c] = Children!Idle
    BY <1>0, <1>1, <1>3
  <2>4. Outside(child[c], a)
    BY <1>0, <2>1, <2>2 DEF Outside, ChildRow, ChildRowInv
  <2>5. ChildInv(c)' /\ Rules(c)
    BY <1>1, <2>3, <2>4, RowMoves DEF ChildrenInv, Children!Idle
  <2> QED BY <1>1, <1>3, <2>1, <2>3, <2>5, IdleRow, PairMoves
<1> QED BY <1>1, <1>2, <1>3

LEMMA LandStep ==
  ASSUME ChildrenInv, NEW c \in Child,
         \/ \E s \in Children!SettleTo : Children!Settle(c, s)
         \/ \E s \in Children!RecoverTo : Children!Recover(c, s)
  PROVE  Good
<1> DEFINE y == [exec[c] EXCEPT !.pc = "settled"]
<1>0. /\ exec \in [Child -> ExecRow] /\ exec[c] \in ExecRow /\ child \in [Child -> ChildRow]
  BY DEF ChildrenInv, FamilyTypes
<1>1. PICK s \in Children!State \ {"absent", "running"} :
        /\ child' = [child EXCEPT ![c] = Children!Land(child[c], s)]
        /\ exec' = [exec EXCEPT ![c] = y]
        /\ exec[c].pc = "active" /\ child[c].live /\ ~child[c].archived
        /\ UNCHANGED <<page, reports, current>>
  BY <1>0 DEF Children!Settle, Children!Recover, Children!SettleTo, Children!RecoverTo, Children!State,
     Children!Waiting, Children!Terminal, Children!Valid
<1>2. y \in ExecRow /\ y.pc = "settled" /\ y.fence = exec[c].fence /\ y.epoch = exec[c].epoch
  BY <1>0 DEF ExecRow
<1> DEFINE l == Children!Land(child[c], s)
<1>a. l = Children!Land(child[c], s) /\ child' = [child EXCEPT ![c] = l]
  BY <1>1
<1> HIDE DEF y, l
<1>3. child'[c] = l /\ exec'[c] = y /\ page' = page /\ reports' = reports /\ current' = current
  BY <1>0, <1>1, <1>a
<1>4. l \in ChildRow /\ ChildInv(c)' /\ Rules(c)
  BY <1>1, <1>a, <1>2, <1>3, LandMoves DEF ChildrenInv
<1> QED BY <1>1, <1>a, <1>2, <1>3, <1>4, PairMoves

(* The steps of an executor that end an execution or publish its result. *)
LEMMA PublishStep ==
  ASSUME ChildrenInv, NEW c \in Child, Children!Publish(c)
  PROVE  Good
<1>0. /\ exec \in [Child -> ExecRow] /\ exec[c] \in ExecRow
      /\ child \in [Child -> ChildRow] /\ child[c] \in ChildRow
      /\ reports \in [Child -> Seq(Receipt)]
  BY DEF ChildrenInv, FamilyTypes
<1>1. UNCHANGED <<page, current>> /\ exec[c].pc = "prepared"
  BY DEF Children!Publish
<1>2. CASE Children!FinishOK(c)
  <2> DEFINE l == [child[c] EXCEPT !.result = exec[c].read, !.notified = exec[c].rev]
             y == [exec[c] EXCEPT !.pc = "release"]
  <2>1. /\ child' = [child EXCEPT ![c] = l] /\ exec' = [exec EXCEPT ![c] = y]
        /\ \/ reports' = [reports EXCEPT ![c] = Children!Posted(c, exec[c].rev, exec[c].read)]
           \/ reports' = reports
    BY <1>0, <1>2 DEF Children!Publish
  <2>2. /\ child[c].rev = exec[c].rev /\ child[c].state = exec[c].read
        /\ ~child[c].archived /\ child[c].live /\ exec[c].fence = child[c].owner
    BY <1>2 DEF Children!FinishOK, Children!Valid, Children!Unchanged
  <2>3. y \in ExecRow /\ y.pc = "release" /\ y.fence = exec[c].fence /\ y.epoch = exec[c].epoch
    BY <1>0 DEF ExecRow
  <2>4. /\ l \in ChildRow /\ l.state = child[c].state /\ l.rev = child[c].rev
        /\ l.owner = child[c].owner /\ l.fence = child[c].fence
    BY <1>0, <2>2 DEF ChildRow, ExecRow
  <2>5. /\ (l.live = child[c].live) /\ l.epoch = child[c].epoch /\ l.notified = exec[c].rev
        /\ l.result = exec[c].read /\ (l.archived = child[c].archived) /\ (l.msg = child[c].msg)
    BY <1>0 DEF ChildRow, ExecRow
  <2> HIDE DEF l, y
  <2>6. /\ child'[c] = l /\ exec'[c] = y
        /\ \A d \in Child \ {c} : /\ child'[d] = child[d] /\ exec'[d] = exec[d]
                                  /\ reports'[d] = reports[d]
        /\ \/ reports'[c] = reports[c]
           \/ reports'[c] = Children!Posted(c, child[c].rev, child[c].state)
    BY <1>0, <2>1, <2>2
  <2>7. /\ child'[c].state = child[c].state /\ child'[c].rev = child[c].rev
        /\ child'[c].owner = child[c].owner /\ child'[c].fence = child[c].fence
        /\ (child'[c].live = child[c].live) /\ child'[c].epoch = child[c].epoch
        /\ child'[c].notified = child[c].rev /\ child'[c].result = child[c].state
        /\ (child'[c].archived = child[c].archived) /\ (child'[c].msg = child[c].msg)
        /\ exec'[c].fence = exec[c].fence /\ exec'[c].epoch = exec[c].epoch
        /\ exec'[c].pc = "release" /\ child'[c] \in ChildRow
        /\ page'[c] = page[c] /\ current' = current
    BY <1>1, <2>2, <2>3, <2>4, <2>5, <2>6
  <2>8. reports'[c] \in Seq(Receipt) /\ ChildInv(c)' /\ Rules(c)
    <3>1. child[c].state # "absent"
      BY <2>2 DEF ChildrenInv, ChildInv, ChildRowInv
    <3> QED BY <2>2, <2>6, <2>7, <3>1, PublishMoves DEF ChildrenInv
  <2>9. /\ child' \in [Child -> ChildRow] /\ exec' \in [Child -> ExecRow]
        /\ reports' \in [Child -> Seq(Receipt)]
    BY <1>0, <2>1, <2>3, <2>4, <2>6, <2>8
  <2> QED BY <1>1, <2>6, <2>8, <2>9, OneMoves
<1>3. CASE ~Children!FinishOK(c)
  <2> DEFINE p == IF Children!Valid(c) THEN "settled" ELSE "release"
             y == [exec[c] EXCEPT !.pc = p]
  <2>1. UNCHANGED <<child, page, reports, current>> /\ exec' = [exec EXCEPT ![c] = y]
    BY <1>0, <1>3 DEF Children!Publish
  <2>2. p \in {"settled", "release"}
    OBVIOUS
  <2> HIDE DEF p
  <2>3. y \in ExecRow /\ y.pc = p /\ y.fence = exec[c].fence /\ y.epoch = exec[c].epoch
    BY <1>0, <2>2 DEF ExecRow
  <2> HIDE DEF y
  <2> QED BY <2>1, <2>2, <2>3, ExecStep
<1> QED BY <1>2, <1>3

(* Steps that touch no row: what was read is dropped, or the pass goes on. *)
LEMMA IdleStep ==
  ASSUME ChildrenInv, UNCHANGED <<child, reports>>, current' \in {current, FALSE},
         \/ exec' = exec
         \/ exec' = [c \in Child |-> Children!Idle],
         \/ page' = page
         \/ page' = [c \in Child |-> [rev |-> 0, read |-> "none"]]
  PROVE  Good
<1>1. FamilyTypes'
  <2>1. exec' \in [Child -> ExecRow]
    BY IdleRow DEF ChildrenInv, FamilyTypes
  <2>2. page' \in [Child -> PageRow]
    BY DEF ChildrenInv, FamilyTypes, PageRow
  <2> QED BY <2>1, <2>2 DEF ChildrenInv, FamilyTypes
<1>2. ASSUME NEW d \in Child  PROVE ChildInv(d)' /\ Rules(d)
  <2>1. /\ child'[d] = child[d] /\ reports'[d] = reports[d] /\ (current' => current)
        /\ exec'[d] = exec[d] \/ exec'[d] = Children!Idle
        /\ page'[d] = page[d] \/ page'[d].rev = 0
    <3>1. exec' = [c \in Child |-> Children!Idle] => exec'[d] = Children!Idle
      OBVIOUS
    <3>2. page' = [c \in Child |-> [rev |-> 0, read |-> "none"]] => page'[d].rev = 0
      OBVIOUS
    <3>3. current' => current
      OBVIOUS
    <3> QED BY <3>1, <3>2, <3>3
  <2> QED BY <2>1, ChildUnmoved DEF ChildrenInv
<1> QED BY <1>1, <1>2 DEF Good, ChildrenInv

(* The two halves of a pass of maintain. *)
LEMMA ReadMissedStep ==
  ASSUME ChildrenInv, Children!ReadMissed
  PROVE  Good
<1>1. UNCHANGED <<child, exec, reports, current>>
  BY DEF Children!ReadMissed
<1>2. ASSUME NEW d \in Child
      PROVE  page'[d] \in PageRow /\ (page'[d].rev = child[d].rev \/ page'[d].rev = 0)
  <2>1. child[d] \in ChildRow
    BY DEF ChildrenInv, FamilyTypes
  <2>2. page'[d] = [rev |-> child[d].rev, read |-> child[d].state] \/ page'[d] = [rev |-> 0, read |-> "none"]
    BY DEF Children!ReadMissed
  <2> QED BY <2>1, <2>2 DEF ChildRow, PageRow
<1>3. FamilyTypes'
  <2>1. page' \in [Child -> PageRow]
    BY <1>2 DEF Children!ReadMissed
  <2> QED BY <1>1, <2>1 DEF ChildrenInv, FamilyTypes
<1>4. ASSUME NEW d \in Child  PROVE ChildInv(d)' /\ Rules(d)
  <2>0. child[d] \in ChildRow
    BY DEF ChildrenInv, FamilyTypes
  <2>a. page'[d].rev <= child[d].rev
    <3>1. child[d].rev \in Nat
      BY <2>0 DEF ChildRow
    <3>2. page'[d].rev = child[d].rev \/ page'[d].rev = 0
      BY <1>2
    <3> QED BY <3>1, <3>2
  <2>1. ChildRowInv(d)'
    BY <1>1, <2>a DEF ChildrenInv, ChildInv, ChildRowInv
  <2>2. LeaseInv(d)' /\ MailInv(d)' /\ Rules(d)
    BY <1>1 DEF ChildrenInv, ChildInv, LeaseInv, MailInv, Rules
  <2> QED BY <2>1, <2>2 DEF ChildInv
<1> QED BY <1>3, <1>4 DEF Good, ChildrenInv

LEMMA RepairStep ==
  ASSUME ChildrenInv, Children!Repair
  PROVE  Good
<1> DEFINE ok == {c \in Child : page[c].rev # 0 /\ Children!RepairOK(c)}
           P(c) == [child[c] EXCEPT !.result = page[c].read, !.owner = 0, !.notified = page[c].rev]
<1>1. /\ child' = [c \in Child |-> IF c \in ok THEN P(c) ELSE child[c]]
      /\ reports' = [c \in Child |-> IF c \in ok THEN Children!Posted(c, page[c].rev, page[c].read)
                                     ELSE reports[c]]
      /\ page' = [c \in Child |-> [rev |-> 0, read |-> "none"]]
      /\ UNCHANGED <<exec, current>>
  BY DEF Children!Repair
<1>2. ASSUME NEW d \in Child
      PROVE  child'[d] \in ChildRow /\ reports'[d] \in Seq(Receipt) /\ ChildInv(d)' /\ Rules(d)
  <2>0. child[d] \in ChildRow /\ page[d] \in PageRow /\ reports[d] \in Seq(Receipt) /\ ChildRowInv(d)
    BY DEF ChildrenInv, FamilyTypes, ChildInv
  <2>1. page'[d].rev = 0 /\ exec'[d] = exec[d] /\ current' = current
    BY <1>1
  <2>2. CASE d \notin ok
    <3>1. child'[d] = child[d] /\ reports'[d] = reports[d]
      BY <1>1, <2>2
    <3> QED BY <2>0, <2>1, <3>1, ChildUnmoved DEF ChildrenInv
  <2>3. CASE d \in ok
    <3> DEFINE l == P(d)
    <3>1. child'[d] = l /\ reports'[d] = Children!Posted(d, page[d].rev, page[d].read)
      BY <1>1, <2>3
    <3>2. /\ ~child[d].archived /\ page[d].rev # 0
          /\ child[d].rev = page[d].rev /\ child[d].state = page[d].read
      BY <2>3 DEF Children!RepairOK, Children!Unchanged
    <3>3. child[d].state # "absent"
      BY <2>0, <3>2 DEF ChildRowInv
    <3>4. /\ l \in ChildRow /\ l.state = child[d].state /\ l.rev = child[d].rev
          /\ l.owner = 0 /\ l.fence = child[d].fence
      BY <2>0, <3>2 DEF ChildRow, PageRow
    <3>5. /\ (l.live = child[d].live) /\ l.epoch = child[d].epoch /\ l.notified = page[d].rev
          /\ l.result = page[d].read
      BY <2>0 DEF ChildRow, PageRow
    <3>6. (l.archived = child[d].archived) /\ (l.msg = child[d].msg)
      BY <2>0 DEF ChildRow, PageRow
    <3> HIDE DEF l, P
    <3>7. /\ child'[d].state = child[d].state /\ child'[d].rev = child[d].rev
          /\ child'[d].owner = 0 /\ child'[d].fence = child[d].fence
          /\ (child'[d].live = child[d].live) /\ child'[d].epoch = child[d].epoch
          /\ child'[d].notified = child[d].rev /\ child'[d].result = child[d].state
          /\ (child'[d].archived = child[d].archived) /\ (child'[d].msg = child[d].msg)
          /\ child'[d] \in ChildRow
          /\ reports'[d] = Children!Posted(d, child[d].rev, child[d].state)
      BY <3>1, <3>2, <3>4, <3>5, <3>6
    <3> QED BY <2>1, <3>2, <3>3, <3>4, <3>1, <3>7, PublishMoves DEF ChildrenInv
  <2> QED BY <2>2, <2>3
<1>3. FamilyTypes'
  <2>1. child' \in [Child -> ChildRow]
    BY <1>1, <1>2
  <2>2. reports' \in [Child -> Seq(Receipt)]
    BY <1>1, <1>2
  <2>3. page' \in [Child -> PageRow]
    BY <1>1 DEF PageRow
  <2> QED BY <1>1, <2>1, <2>2, <2>3 DEF ChildrenInv, FamilyTypes
<1> QED BY <1>2, <1>3 DEF Good, ChildrenInv

-----------------------------------------------------------------------------
(* What is left of the state: the parent, the counters, the executors.     *)
ParentInv ==
  /\ parent \in ParentRow
  /\ parent.wait => parent.state = "waiting_external"
  /\ parent.asked => parent.state \notin Children!Waiting

LimitsInv ==
  /\ phase \in {"repair", "archive"}
  /\ left \in 0 .. MaxCommands /\ childFaults \in 0 .. MaxChildFaults
  /\ IsFiniteSet(Children!Running) /\ Cardinality(Children!Running) <= MaxConcurrency

FamilyInv == ChildrenInv /\ ParentInv /\ LimitsInv

(* Every step of the specification. *)
LEMMA ChildrenStep ==
  ASSUME ChildrenInv, [Children!Next]_(Children!vars)
  PROVE  Good
<1>1. ASSUME NEW c \in Child,
             \/ Children!Start(c) \/ Children!Message(c) \/ Children!Resume(c)
             \/ Children!OperatorResume(c) \/ Children!Event(c)
             \/ Children!Expire(c) \/ Children!Stall(c)
      PROVE  Good
  BY <1>1, OutsideStep
<1>2. ASSUME NEW c \in Child, NEW s \in {"cancelled", "failed"}, Children!Stop(c, s)
      PROVE  Good
  BY <1>2, StopStep
<1>3. ASSUME NEW c \in Child,
             \/ Children!Select(c) \/ Children!Abandon(c) \/ Children!ReadResult(c)
             \/ Children!CleanupFails(c)
      PROVE  Good
  BY <1>3, ExecutorStep
<1>4. ASSUME NEW c \in Child, Children!Acquire(c)  PROVE Good
  BY <1>4, AcquireStep
<1>5. ASSUME NEW c \in Child, Children!Take(c)  PROVE Good
  BY <1>5, TakeStep
<1>6. ASSUME NEW c \in Child, Children!Ask(c) \/ Children!Tell(c)  PROVE Good
  BY <1>6, IdleStep DEF Children!Ask, Children!Tell
<1>7. ASSUME NEW c \in Child,
             \/ \E s \in Children!SettleTo : Children!Settle(c, s)
             \/ \E s \in Children!RecoverTo : Children!Recover(c, s)
      PROVE  Good
  BY <1>7, LandStep
<1>8. ASSUME NEW c \in Child, Children!Publish(c)  PROVE Good
  BY <1>8, PublishStep
<1>9. ASSUME NEW c \in Child, Children!Release(c)  PROVE Good
  BY <1>9, ReleaseChild
<1>10. CASE Children!ParentRuns \/ Children!ParentReads \/ Children!ParentWakes \/ Children!WeekPasses
  BY <1>10, IdleStep DEF Children!ParentRuns, Children!ParentReads, Children!ParentWakes, Children!WeekPasses
<1>11. ASSUME NEW s \in Children!ParentTo, NEW w \in BOOLEAN, Children!ParentSettles(s, w)  PROVE Good
  BY <1>11, ParentEnds
<1>12. CASE Children!Reset \/ Children!Crash
  BY <1>12, ResetStep, IdleStep DEF Children!Crash
<1>13. CASE Children!ReadMissed
  BY <1>13, ReadMissedStep
<1>14. CASE Children!Repair
  BY <1>14, RepairStep
<1>15. CASE Children!Archive
  BY <1>15, ArchiveStep
<1>16. CASE UNCHANGED Children!vars
  BY <1>16, IdleStep DEF Children!vars
<1> QED
  BY <1>1, <1>2, <1>3, <1>4, <1>5, <1>6, <1>7, <1>8, <1>9, <1>10, <1>11, <1>12, <1>13, <1>14,
     <1>15, <1>16 DEF Children!Next

(* The parent moves by its own steps, by a notice, and by a question.      *)
LEMMA NoticeKeeps ==
  ASSUME ParentInv, parent' \in {parent, Children!Notice(parent)}
  PROVE  ParentInv'
<1> USE DEF Children!State, Children!Waiting, Children!Terminal
<1>1. CASE parent' = parent
  BY <1>1 DEF ParentInv
<1>2. CASE parent.state = "waiting_external" /\ ~parent.wait
           /\ parent' = [parent EXCEPT !.state = "queued"]
  <2>1. /\ parent' \in ParentRow /\ parent'.state = "queued" /\ (parent'.wait = parent.wait)
    BY <1>2 DEF ParentInv, ParentRow
  <2> QED BY <1>2, <2>1 DEF ParentInv
<1> QED BY <1>1, <1>2 DEF Children!Notice

LEMMA ParentStep ==
  ASSUME ParentInv, [Children!Next]_(Children!vars)
  PROVE  ParentInv'
<1> USE DEF Children!State, Children!Waiting, Children!Terminal
<1>1. CASE Children!ParentRuns
  <2>1. parent' \in ParentRow /\ parent'.state = "running" /\ (parent'.wait = parent.wait)
    BY <1>1 DEF Children!ParentRuns, ParentInv, ParentRow
  <2> QED BY <1>1, <2>1 DEF Children!ParentRuns, ParentInv
<1>2. CASE Children!ParentReads
  <2>1. parent' \in ParentRow /\ parent'.state = parent.state /\ (parent'.wait = parent.wait) /\ ~parent'.asked
    BY <1>2 DEF Children!ParentReads, ParentInv, ParentRow
  <2> QED BY <2>1 DEF ParentInv
<1>3. CASE Children!ParentWakes
  <2>1. parent' \in ParentRow /\ parent'.state = "queued" /\ ~parent'.wait
    BY <1>3 DEF Children!ParentWakes, ParentInv, ParentRow
  <2> QED BY <2>1 DEF ParentInv
<1>4. CASE Children!WeekPasses
  <2>1. /\ parent' \in ParentRow /\ parent'.state = parent.state /\ (parent'.wait = parent.wait)
        /\ (parent'.asked = parent.asked)
    BY <1>4 DEF Children!WeekPasses, ParentInv, ParentRow
  <2> QED BY <2>1 DEF ParentInv
<1>5. ASSUME NEW s \in Children!ParentTo, NEW w \in BOOLEAN, Children!ParentSettles(s, w)
      PROVE  ParentInv'
  <2> DEFINE deferred == parent.asked /\ s \in {"completed", "failed"} \cup Children!Waiting
             to == IF deferred THEN "queued"
                   ELSE IF s = "completed" /\ Children!Draining THEN "waiting_external" ELSE s
             stops == to \in {"failed", "cancelled"}
  <2>a. parent' = [state |-> to, wait |-> w /\ to = "waiting_external",
                   asked |-> parent.asked /\ ~stops, old |-> FALSE]
    BY Zenon, <1>5 DEF Children!ParentSettles
  <2>1. \/ to = "queued"
        \/ to = "waiting_external" /\ ~parent.asked
        \/ to = s /\ (parent.asked => s \notin Children!Waiting)
    <3>1. CASE deferred
      BY <3>1
    <3>2. CASE ~deferred /\ s = "completed" /\ Children!Draining
      BY <3>2
    <3>3. CASE ~deferred /\ ~(s = "completed" /\ Children!Draining)
      BY <3>3
    <3> QED BY <3>1, <3>2, <3>3
  <2> HIDE DEF to, deferred, stops
  <2>2. to \in Children!State \ {"absent"}
    BY <2>1 DEF Children!ParentTo
  <2>3. parent' \in ParentRow
    BY <2>a, <2>2 DEF ParentInv, ParentRow
  <2> QED BY <2>a, <2>1, <2>3 DEF ParentInv
<1>6. ASSUME NEW c \in Child, Children!Ask(c)  PROVE ParentInv'
  <2>1. CASE parent.state \in Children!Waiting
    <3>1. parent' \in ParentRow /\ parent'.state = "queued" /\ ~parent'.wait
      BY <1>6, <2>1 DEF Children!Ask, ParentInv, ParentRow
    <3> QED BY <3>1 DEF ParentInv
  <2>2. CASE parent.state \notin Children!Waiting
    <3>1. parent' \in ParentRow /\ parent'.state = parent.state /\ (parent'.wait = parent.wait)
      BY <1>6, <2>2 DEF Children!Ask, ParentInv, ParentRow
    <3> QED BY <2>2, <3>1 DEF ParentInv
  <2> QED BY <2>1, <2>2
<1>7. ASSUME NEW c \in Child,
             \/ \E s \in {"cancelled", "failed"} : Children!Stop(c, s)
             \/ Children!Tell(c) \/ Children!Publish(c)
      PROVE  ParentInv'
  BY <1>7, NoticeKeeps DEF Children!Stop, Children!Tell, Children!Publish
<1>8. CASE Children!Repair
  BY <1>8, NoticeKeeps DEF Children!Repair
<1>9. ASSUME NEW c \in Child,
             \/ Children!Start(c) \/ Children!Message(c) \/ Children!Resume(c)
             \/ Children!OperatorResume(c) \/ Children!Event(c)
             \/ Children!Expire(c) \/ Children!Stall(c)
             \/ Children!Select(c) \/ Children!Abandon(c) \/ Children!ReadResult(c)
             \/ Children!CleanupFails(c) \/ Children!Acquire(c) \/ Children!Take(c)
             \/ Children!Release(c)
             \/ \E s \in Children!SettleTo : Children!Settle(c, s)
             \/ \E s \in Children!RecoverTo : Children!Recover(c, s)
      PROVE  ParentInv'
  BY <1>9, NoticeKeeps DEF Children!Start, Children!Message, Children!Resume, Children!OperatorResume,
     Children!Event, Children!Expire, Children!Stall, Children!Select, Children!Abandon,
     Children!ReadResult, Children!CleanupFails, Children!Acquire, Children!Take, Children!Release,
     Children!Settle, Children!Recover
<1>10. CASE Children!Crash \/ Children!ReadMissed \/ Children!Archive \/ UNCHANGED Children!vars
  BY <1>10, NoticeKeeps DEF Children!Crash, Children!ReadMissed, Children!Archive, Children!vars
<1>11. CASE Children!Reset
  <2>1. /\ parent' \in ParentRow /\ parent'.state \in Children!Terminal
        /\ ~parent'.wait /\ ~parent'.asked
    BY <1>11 DEF Children!Reset, ParentInv, ParentRow
  <2> QED BY <2>1 DEF ParentInv
<1> QED
  BY <1>1, <1>2, <1>3, <1>4, <1>5, <1>6, <1>7, <1>8, <1>9, <1>10, <1>11 DEF Children!Next

(* The executors and the counters: only Select starts an executor, and it  *)
(* starts one at a time.                                                   *)
(* The instance has its own finite sets and sizes, defined as those of the *)
(* library are.                                                            *)
LEMMA SameFinite ==
  ASSUME NEW T
  PROVE  Children!IsFiniteSet(T) = IsFiniteSet(T)
  BY DEF Children!IsFiniteSet, IsFiniteSet

LEMMA SameSize ==
  ASSUME NEW T
  PROVE  Children!Cardinality(T) = Cardinality(T)
  BY DEF Children!Cardinality, Cardinality

LEMMA AddOne ==
  ASSUME NEW T, NEW x, IsFiniteSet(T)
  PROVE  IsFiniteSet(T \cup {x}) /\ Cardinality(T \cup {x}) <= Cardinality(T) + 1
<1>1. IsFiniteSet(T \cup {x})
  BY FS_AddElement
<1>2. Cardinality(T \cup {x}) = Cardinality(T) \/ Cardinality(T \cup {x}) = Cardinality(T) + 1
  BY Zenon, FS_AddElement
<1>3. Cardinality(T) \in Nat
  BY FS_CardinalityType
<1> QED BY <1>1, <1>2, <1>3

LEMMA FewerRun ==
  ASSUME LimitsInv, Children!Running' \subseteq Children!Running
  PROVE  IsFiniteSet(Children!Running') /\ Cardinality(Children!Running') <= Cardinality(Children!Running)
  BY FS_Subset DEF LimitsInv

LEMMA LimitsStep ==
  ASSUME Children!SubagentsAssumption, ChildrenInv, LimitsInv, [Children!Next]_(Children!vars)
  PROVE  LimitsInv'
<1>0. exec \in [Child -> ExecRow]
  BY DEF ChildrenInv, FamilyTypes
<1>1. phase' \in {phase, "repair", "archive"}
  BY DEF Children!Next, Children!vars, Children!Start, Children!Message, Children!Resume, Children!OperatorResume,
     Children!Event, Children!Expire, Children!Stall, Children!Select, Children!Abandon,
     Children!ReadResult, Children!CleanupFails, Children!Acquire, Children!Take, Children!Release,
     Children!Settle, Children!Recover, Children!Stop, Children!Tell, Children!Ask, Children!Publish,
     Children!ParentRuns, Children!ParentReads, Children!ParentWakes, Children!ParentSettles,
     Children!Reset, Children!Crash, Children!ReadMissed, Children!Repair, Children!WeekPasses, Children!Archive
<1>2. left' = left \/ Children!Command
  BY DEF Children!Next, Children!vars, Children!Start, Children!Message, Children!Resume, Children!OperatorResume,
     Children!Event, Children!Expire, Children!Stall, Children!Select, Children!Abandon,
     Children!ReadResult, Children!CleanupFails, Children!Acquire, Children!Take, Children!Release,
     Children!Settle, Children!Recover, Children!Stop, Children!Tell, Children!Ask, Children!Publish,
     Children!ParentRuns, Children!ParentReads, Children!ParentWakes, Children!ParentSettles,
     Children!Reset, Children!Crash, Children!ReadMissed, Children!Repair, Children!WeekPasses, Children!Archive
<1>3. childFaults' = childFaults \/ Children!Fault
  BY DEF Children!Next, Children!vars, Children!Start, Children!Message, Children!Resume, Children!OperatorResume,
     Children!Event, Children!Expire, Children!Stall, Children!Select, Children!Abandon,
     Children!ReadResult, Children!CleanupFails, Children!Acquire, Children!Take, Children!Release,
     Children!Settle, Children!Recover, Children!Stop, Children!Tell, Children!Ask, Children!Publish,
     Children!ParentRuns, Children!ParentReads, Children!ParentWakes, Children!ParentSettles,
     Children!Reset, Children!Crash, Children!ReadMissed, Children!Repair, Children!WeekPasses, Children!Archive
<1>4. left' \in 0 .. MaxCommands /\ childFaults' \in 0 .. MaxChildFaults
  BY <1>2, <1>3 DEF LimitsInv, Children!Command, Children!Fault, Children!SubagentsAssumption
<1>5. /\ IsFiniteSet(Children!Running') /\ Cardinality(Children!Running') <= MaxConcurrency
  <2>1. ASSUME Children!Running' \subseteq Children!Running
        PROVE  IsFiniteSet(Children!Running') /\ Cardinality(Children!Running') <= MaxConcurrency
    <3>1. /\ IsFiniteSet(Children!Running')
          /\ Cardinality(Children!Running') <= Cardinality(Children!Running)
      BY <2>1, FewerRun
    <3>2. Cardinality(Children!Running') \in Nat /\ Cardinality(Children!Running) \in Nat
      BY <3>1, FS_CardinalityType DEF LimitsInv
    <3> QED BY <3>1, <3>2 DEF LimitsInv, Children!SubagentsAssumption
  <2>2. ASSUME NEW c \in Child, NEW y, exec' = [exec EXCEPT ![c] = y], exec[c].pc # "idle"
        PROVE  Children!Running' \subseteq Children!Running
    BY <1>0, <2>2 DEF Children!Running
  <2>3. ASSUME NEW c \in Child, Children!Select(c)
        PROVE  IsFiniteSet(Children!Running') /\ Cardinality(Children!Running') <= MaxConcurrency
    <3>1. Children!Running' \subseteq Children!Running \cup {c}
      BY <1>0, <2>3 DEF Children!Running, Children!Select
    <3>2. IsFiniteSet(Children!Running) /\ Cardinality(Children!Running) \in Nat
      BY FS_CardinalityType DEF LimitsInv
    <3> DEFINE R == Children!Running
               R1 == Children!Running'
    <3> HIDE DEF R, R1
    <3>3. /\ IsFiniteSet(R \cup {c})
          /\ Cardinality(R \cup {c}) <= Cardinality(R) + 1
      BY <3>2, AddOne DEF R
    <3>4. /\ IsFiniteSet(Children!Running')
          /\ Cardinality(Children!Running') <= Cardinality(Children!Running \cup {c})
      BY <3>1, <3>3, FS_Subset DEF R, R1
    <3>5. Cardinality(Children!Running') \in Nat /\ Cardinality(Children!Running \cup {c}) \in Nat
      BY <3>3, <3>4, FS_CardinalityType DEF R
    <3>6. Cardinality(Children!Running) < MaxConcurrency
      <4>1. Children!Cardinality(Children!Running) < MaxConcurrency
        BY <2>3 DEF Children!Select
      <4> QED BY <4>1, SameSize
    <3> QED BY <3>2, <3>3, <3>4, <3>5, <3>6 DEF R, Children!SubagentsAssumption
  <2>4. ASSUME exec' = exec \/ exec' = [c \in Child |-> Children!Idle]
        PROVE  Children!Running' \subseteq Children!Running
    BY <2>4 DEF Children!Running, Children!Idle
  <2>5. ASSUME NEW c \in Child,
               \/ Children!Abandon(c) \/ Children!ReadResult(c) \/ Children!CleanupFails(c)
               \/ Children!Acquire(c) \/ Children!Release(c) \/ Children!Publish(c) \/ Children!Take(c)
               \/ \E s \in Children!SettleTo : Children!Settle(c, s)
               \/ \E s \in Children!RecoverTo : Children!Recover(c, s)
        PROVE  Children!Running' \subseteq Children!Running
    <3>1. exec[c].pc # "idle"
      BY <2>5 DEF Children!Abandon, Children!ReadResult, Children!CleanupFails, Children!Acquire,
         Children!Release, Children!Publish, Children!Take, Children!Settle, Children!Recover
    <3>2. \A d \in Child \ {c} : exec'[d] = exec[d]
      BY <1>0, <2>5 DEF Children!Abandon, Children!ReadResult, Children!CleanupFails, Children!Acquire,
         Children!Release, Children!Publish, Children!Take, Children!Settle, Children!Recover
    <3> QED BY <3>1, <3>2 DEF Children!Running
  <2>6. CASE \/ exec' = exec \/ exec' = [c \in Child |-> Children!Idle]
    BY <2>1, <2>4, <2>6
  <2>7. ASSUME NEW c \in Child,
               \/ Children!Start(c) \/ Children!Message(c) \/ Children!Resume(c)
               \/ Children!OperatorResume(c) \/ Children!Event(c) \/ Children!Ask(c) \/ Children!Tell(c)
               \/ Children!Expire(c) \/ Children!Stall(c)
               \/ \E s \in {"cancelled", "failed"} : Children!Stop(c, s)
        PROVE  exec' = exec
    BY <2>7 DEF Children!Start, Children!Message, Children!Resume, Children!OperatorResume,
       Children!Event, Children!Ask, Children!Tell, Children!Expire, Children!Stall, Children!Stop
  <2>8. ASSUME NEW s \in Children!ParentTo, NEW w \in BOOLEAN, Children!ParentSettles(s, w)
        PROVE  exec' = exec
    BY <2>8 DEF Children!ParentSettles
  <2>9. CASE \/ Children!ParentRuns \/ Children!ParentReads \/ Children!ParentWakes \/ Children!Reset
             \/ Children!ReadMissed \/ Children!Repair \/ Children!WeekPasses \/ Children!Archive
             \/ Children!Crash \/ UNCHANGED Children!vars
    BY <2>6, <2>9 DEF Children!ParentRuns, Children!ParentReads, Children!ParentWakes, Children!Reset,
       Children!ReadMissed, Children!Repair, Children!WeekPasses, Children!Archive, Children!Crash, Children!vars
  <2> QED
    BY <2>1, <2>3, <2>5, <2>6, <2>7, <2>8, <2>9 DEF Children!Next
<1>6. phase' \in {"repair", "archive"}
  BY <1>1 DEF LimitsInv
<1> QED BY <1>4, <1>5, <1>6 DEF LimitsInv

LEMMA RunningSize ==
  ASSUME LimitsInv
  PROVE  Children!Cardinality(Children!Running) <= MaxConcurrency
BY SameSize DEF LimitsInv

(* The initial state, and every step of the whole invariant. *)
LEMMA FamilyStart ==
  ASSUME Children!SubagentsAssumption, Children!Init
  PROVE  FamilyInv
<1> USE DEF Children!Init, Children!NewChild, Children!Idle, Children!State, Children!Terminal, Children!Waiting
<1>1. FamilyTypes
  <2>1. Children!NewChild \in ChildRow
    BY DEF ChildRow
  <2>2. Children!Idle \in ExecRow
    BY DEF ExecRow
  <2>3. [rev |-> 0, read |-> "none"] \in PageRow
    BY DEF PageRow
  <2>4. \A c \in Child : reports[c] \in Seq(Receipt)
    OBVIOUS
  <2> HIDE DEF Children!NewChild, Children!Idle
  <2> QED BY <2>1, <2>2, <2>3, <2>4 DEF FamilyTypes
<1>2. ASSUME NEW c \in Child  PROVE ChildInv(c)
  <2>1. ChildRowInv(c)
    BY DEF ChildRowInv, Children!ResultStates
  <2>2. LeaseInv(c)
    BY DEF LeaseInv
  <2>3. MailInv(c)
    BY DEF MailInv
  <2> QED BY <2>1, <2>2, <2>3 DEF ChildInv
<1>3. ParentInv
  BY DEF ParentInv, ParentRow
<1>4. LimitsInv
  <2>1. Children!Running = {}
    BY DEF Children!Running
  <2>2. IsFiniteSet({}) /\ Cardinality({}) = 0
    BY FS_EmptySet
  <2> QED BY <2>1, <2>2 DEF LimitsInv, Children!SubagentsAssumption
<1> QED BY <1>1, <1>2, <1>3, <1>4 DEF FamilyInv, ChildrenInv

LEMMA FamilyStep ==
  ASSUME Children!SubagentsAssumption, FamilyInv, [Children!Next]_(Children!vars)
  PROVE  FamilyInv' /\ \A c \in Child : Rules(c)
BY ChildrenStep, ParentStep, LimitsStep DEF FamilyInv, Good

(* Children of a Work (Subagents), for any finite set of children and any  *)
(* number of executors: FamilyInv holds however the executors, maintain,   *)
(* the operator and the parent interleave, across crashes and lost leases. *)
THEOREM FamilyInductive ==
  ASSUME Children!SubagentsAssumption
  PROVE  Children!Spec => []FamilyInv
<1>1. Children!Init => FamilyInv
  BY FamilyStart
<1>2. FamilyInv /\ [Children!Next]_(Children!vars) => FamilyInv'
  BY FamilyStep
<1> QED BY <1>1, <1>2, PTL DEF Children!Spec

LEMMA TypesFromInv ==
  ASSUME Children!SubagentsAssumption, FamilyInv
  PROVE  Children!TypeOK
<1>1. ASSUME NEW c \in Child
      PROVE  /\ child[c].state \in Children!State
             /\ child[c].notified \in 0 .. child[c].rev
             /\ child[c].owner \in {0, child[c].fence}
             /\ child[c].result \in Children!State \cup {"none"}
             /\ {child[c].live, child[c].archived, child[c].msg} \subseteq BOOLEAN
             /\ exec[c].pc \in {"idle", "picked", "active", "settled", "prepared", "release"}
             /\ exec[c].fence \in 0 .. child[c].fence /\ exec[c].epoch \in 0 .. child[c].epoch
             /\ page[c].rev \in 0 .. child[c].rev
             /\ \A i \in DOMAIN reports[c] :
                  reports[c][i].rev \in 1 .. child[c].rev /\ reports[c][i].cancelled \in BOOLEAN
  <2>1. child[c] \in ChildRow /\ exec[c] \in ExecRow /\ page[c] \in PageRow /\ reports[c] \in Seq(Receipt)
    BY DEF FamilyInv, ChildrenInv, FamilyTypes
  <2>2. ChildRowInv(c) /\ LeaseInv(c) /\ MailInv(c)
    BY DEF FamilyInv, ChildrenInv, ChildInv
  <2>3. /\ child[c].state \in Children!State
        /\ child[c].notified \in 0 .. child[c].rev
        /\ child[c].owner \in {0, child[c].fence}
        /\ child[c].result \in Children!State \cup {"none"}
        /\ {child[c].live, child[c].archived, child[c].msg} \subseteq BOOLEAN
    BY <2>1, <2>2 DEF ChildRowInv, ChildRow
  <2>4. exec[c].pc \in {"idle", "picked", "active", "settled", "prepared", "release"}
    BY <2>1 DEF ExecRow
  <2>5. exec[c].fence \in 0 .. child[c].fence /\ exec[c].epoch \in 0 .. child[c].epoch
    BY <2>1, <2>2 DEF ExecRow, ChildRow, LeaseInv
  <2>6. page[c].rev \in 0 .. child[c].rev
    BY <2>1, <2>2 DEF PageRow, ChildRow, ChildRowInv
  <2>7. ASSUME NEW i \in DOMAIN reports[c]
        PROVE  reports[c][i].rev \in 1 .. child[c].rev /\ reports[c][i].cancelled \in BOOLEAN
    <3>1. reports[c][i] \in Receipt
      BY <2>1
    <3> QED BY <2>2, <3>1 DEF MailInv, Receipt
  <2> QED BY <2>3, <2>4, <2>5, <2>6, <2>7
<1>2. parent.state \in Children!State \ {"absent"} /\ (parent.wait => parent.state = "waiting_external")
  BY DEF FamilyInv, ParentInv, ParentRow
<1>3. phase \in {"repair", "archive"} /\ left \in 0 .. MaxCommands /\ childFaults \in 0 .. MaxChildFaults
  BY DEF FamilyInv, LimitsInv
<1>4. Children!Cardinality(Children!Running) <= MaxConcurrency
  BY RunningSize DEF FamilyInv
<1> QED BY <1>1, <1>2, <1>3, <1>4 DEF Children!TypeOK

(* No executor and no page of maintain is ahead of the row it was read     *)
(* from, and no more children execute than the scheduler allows            *)
(* (Subagents!TypeOK).                                                     *)
THEOREM ChildrenTyped ==
  ASSUME Children!SubagentsAssumption
  PROVE  Children!Spec => []Children!TypeOK
<1>1. FamilyInv => Children!TypeOK
  BY TypesFromInv
<1> QED BY <1>1, FamilyInductive, PTL

(* The parent reads the results of a child in the order they were          *)
(* committed, each revision once, whether the executor, maintain or a stop *)
(* posts them (Subagents!ReportsInOrder).                                  *)
THEOREM ChildrenReportInOrder ==
  ASSUME Children!SubagentsAssumption
  PROVE  Children!Spec => []Children!ReportsInOrder
<1>1. FamilyInv => Children!ReportsInOrder
  BY DEF FamilyInv, ChildrenInv, ChildInv, MailInv, Children!ReportsInOrder
<1> QED BY <1>1, FamilyInductive, PTL

(* A result shown as current names the state the child's row still has     *)
(* (Subagents!ResultDescribesRow).                                         *)
THEOREM ChildResults ==
  ASSUME Children!SubagentsAssumption
  PROVE  Children!Spec => []Children!ResultDescribesRow
<1>1. FamilyInv => Children!ResultDescribesRow
  BY DEF FamilyInv, ChildrenInv, ChildInv, ChildRowInv, Children!ResultDescribesRow
<1> QED BY <1>1, FamilyInductive, PTL

(* No unread message is left on a child that ended or waits                *)
(* (Subagents!MessageKeepsChild).                                          *)
THEOREM ChildMessages ==
  ASSUME Children!SubagentsAssumption
  PROVE  Children!Spec => []Children!MessageKeepsChild
<1>1. FamilyInv => Children!MessageKeepsChild
  BY DEF FamilyInv, ChildrenInv, ChildInv, ChildRowInv, Children!MessageKeepsChild
<1> QED BY <1>1, FamilyInductive, PTL

(* No parent waits while a question of its child is unread                 *)
(* (Subagents!QuestionReachesParent).                                      *)
THEOREM ChildQuestions ==
  ASSUME Children!SubagentsAssumption
  PROVE  Children!Spec => []Children!QuestionReachesParent
<1>1. FamilyInv => Children!QuestionReachesParent
  BY DEF FamilyInv, ParentInv, Children!QuestionReachesParent
<1> QED BY <1>1, FamilyInductive, PTL

(* An execution that lost its child settles nothing: a child that does not *)
(* run is only started, stopped by a stop that posts itself, or cancelled  *)
(* with its parent or conversation (Subagents!OnlyRunnersSettle).          *)
THEOREM ChildrenSettle ==
  ASSUME Children!SubagentsAssumption
  PROVE  Children!Spec => Children!OnlyRunnersSettle
<1>1. FamilyInv /\ [Children!Next]_(Children!vars) => [Children!Settlement]_(Children!vars)
  BY FamilyStep DEF Rules, Children!Settlement
<1> QED BY <1>1, FamilyInductive, PTL DEF Children!Spec, Children!OnlyRunnersSettle

(* A cancelled or archived child stays so, and a cancelled one can still   *)
(* post nothing but its cancellation (Subagents!EndIsFinal).               *)
THEOREM ChildEnds ==
  ASSUME Children!SubagentsAssumption
  PROVE  Children!Spec => Children!EndIsFinal
<1>1. FamilyInv /\ [Children!Next]_(Children!vars) => [Children!Finality]_(Children!vars)
  BY FamilyStep DEF Rules, Children!Finality
<1> QED BY <1>1, FamilyInductive, PTL DEF Children!Spec, Children!EndIsFinal

-----------------------------------------------------------------------------
(* Automation: a scheduled task and the runs of its occurrences.           *)
(*                                                                         *)
(* AheadInv and TallyInv hold because finish_run settles a run once and    *)
(* never plans an occurrence of the past (PastInv); RunOwnerInv says that a *)
(* run without a Work is settled by its one task or written off.           *)

Definition ==
    [status : Tasks!Statuses, next : Nat, schedule : Tasks!Schedules, version : Nat,
     count : Nat, max : Limits, claim : Claimers \cup {NoWorker}, fresh : BOOLEAN]
Occurrence ==
    [status : Tasks!RunEnds \cup {"none", "running"}, version : Nat, schedule : Tasks!Schedules]
Claimed ==
    [pc : {"idle", "claimed", "turn", "blocking", "blocked", "executing", "settle",
           "failing", "unowned", "close", "release"}, sched : Nat, version : Nat]

ScheduleTypes ==
    /\ now \in 0 .. MaxTime
    /\ definition \in Definition
    /\ occurrences \in [Tasks!Times -> Occurrence]
    /\ roots \in [Tasks!Times -> Tasks!WorkEnds \cup {"none", "live"}]
    /\ task \in [Claimers -> Claimed]
    /\ service \in {"down", "starting", "up"}
    /\ edits \in 0 .. MaxEdits
    /\ definition.version \in 1 .. edits + 1
    /\ definition.next <= MaxTime + 1
    /\ definition.fresh => definition.claim # NoWorker

(* Only past occurrences are claimed and run. *)
PastInv ==
    /\ \A t \in Tasks!Times : occurrences[t].status # "none" => t <= now
    /\ \A w \in Claimers : task[w].sched <= now
    /\ \A w \in Claimers : task[w].pc # "idle" => task[w].sched # 0

(* The occurrence a task has next was not settled, whatever its status: a  *)
(* paused, failed or blocked one may be resumed with it.                   *)
AheadInv ==
    /\ definition.next \notin Tasks!Settled
    /\ definition.status = "active" => definition.next # 0
    /\ Tasks!Ended => definition.next = 0

TallyInv ==
    /\ IsFiniteSet(Tasks!Settled)
    /\ definition.count = Cardinality(Tasks!Settled)

(* A run has at most one task that executes or blocks it, and while that   *)
(* task has given it no Work nobody else but the recovery settles it.      *)
Executes(w) == task[w].pc \in {"executing", "blocked"}
RunOwnerInv ==
    /\ \A w \in Claimers : Executes(w) => occurrences[task[w].sched].status # "none"
    /\ \A w \in Claimers : task[w].pc = "executing" /\ roots[task[w].sched] = "none" =>
           occurrences[task[w].sched].status \in {"running", "uncertain"}
    /\ \A w \in Claimers : task[w].pc = "blocked" => roots[task[w].sched] = "none"
    /\ \A v, w \in Claimers : Executes(v) /\ Executes(w) /\ task[v].sched = task[w].sched => v = w

RootInv ==
    \A t \in Tasks!Times :
        /\ occurrences[t].status = "none" => roots[t] = "none"
        /\ (occurrences[t].status \in Tasks!RunEnds \ {"uncertain"} /\ roots[t] # "none")
             => (roots[t] \in Tasks!WorkEnds /\ occurrences[t].status = Tasks!RunEnd(roots[t]))

ScheduleInv == ScheduleTypes /\ PastInv /\ AheadInv /\ TallyInv /\ RunOwnerInv /\ RootInv

-----------------------------------------------------------------------------
LEMMA ScheduleSize ==
  ASSUME NEW T
  PROVE  Tasks!Cardinality(T) = Cardinality(T)
  BY DEF Tasks!Cardinality, Cardinality

(* What finish_run makes of the row. *)
LEMMA RowAfterFields ==
  ASSUME Tasks!AutomationAssumption, ScheduleTypes, NEW t \in Tasks!Times, NEW s \in Tasks!RunEnds,
         NEW l, l = Tasks!RowAfter(t, s)
  PROVE  /\ l \in Definition
         /\ l.count = definition.count + 1
         /\ l.version = definition.version /\ l.claim = definition.claim
         /\ l.fresh = definition.fresh
         /\ l.next <= MaxTime + 1
         /\ \/ /\ l.status = definition.status /\ l.next = definition.next
               /\ Tasks!Ended \/ definition.next # t
            \/ l.status = "completed" /\ l.next = 0
            \/ /\ l.next = 0 \/ (l.next > now /\ l.next > t)
               /\ l.status = "active" => l.next # 0
               /\ l.status \in {"cancelled", "completed"} => l.next = 0
<1> DEFINE count == definition.count + 1
           full == s # "blocked" /\ definition.max # 0 /\ count >= definition.max
           next == Tasks!AfterCompletion(occurrences[t].schedule, t)
           state == IF definition.status = "paused" THEN "paused"
                    ELSE IF s = "blocked" THEN "blocked"
                    ELSE IF next # 0 THEN definition.status
                    ELSE IF s = "succeeded" THEN "completed" ELSE "failed"
<1>0. definition \in Definition /\ t \in 1 .. MaxTime /\ now \in 0 .. MaxTime /\ MaxTime \in Nat
  BY DEF ScheduleTypes, Tasks!AutomationAssumption, Tasks!Times
<1>1. count \in Nat
  BY <1>0 DEF Definition
<1>2. next \in Nat /\ next <= MaxTime + 1 /\ (next = 0 \/ (next > now /\ next > t))
  BY <1>0 DEF Tasks!AfterCompletion, Tasks!Later
<1>3. state \in Tasks!Statuses
  BY <1>0 DEF Definition, Tasks!Statuses
<1>4. /\ state = "active" => next # 0
      /\ ~Tasks!Ended /\ state \in {"cancelled", "completed"} => next = 0
  BY DEF Tasks!Ended
<1>5. \/ /\ l = [definition EXCEPT !.count = count]
         /\ Tasks!Ended \/ definition.next # t
      \/ l = [definition EXCEPT !.count = count, !.status = "completed", !.next = 0]
      \/ l = [definition EXCEPT !.count = count, !.next = next, !.status = state] /\ ~Tasks!Ended
  BY DEF Tasks!RowAfter
<1> HIDE DEF count, full, next, state
<1>6. CASE /\ l = [definition EXCEPT !.count = count]
           /\ Tasks!Ended \/ definition.next # t
  <2>1. /\ l \in Definition /\ l.count = count
        /\ l.version = definition.version /\ l.claim = definition.claim
    BY <1>0, <1>1, <1>6 DEF Definition
  <2>2. l.fresh = definition.fresh /\ l.status = definition.status /\ l.next = definition.next
    BY <1>0, <1>1, <1>6 DEF Definition
  <2> QED BY <1>6, <2>1, <2>2 DEF count, ScheduleTypes
<1>7. CASE l = [definition EXCEPT !.count = count, !.status = "completed", !.next = 0]
  <2>0. "completed" \in Tasks!Statuses /\ 0 \in Nat
    BY DEF Tasks!Statuses
  <2>a. l \in Definition
    BY <1>0, <1>1, <1>7, <2>0 DEF Definition
  <2>1. /\ l.count = count
        /\ l.version = definition.version /\ l.claim = definition.claim
    BY <1>0, <1>1, <1>7 DEF Definition
  <2>2. l.fresh = definition.fresh /\ l.status = "completed" /\ l.next = 0
    BY <1>0, <1>1, <1>7 DEF Definition
  <2> QED BY <1>0, <2>a, <2>1, <2>2 DEF count
<1>8. CASE l = [definition EXCEPT !.count = count, !.next = next, !.status = state] /\ ~Tasks!Ended
  <2>1. /\ l \in Definition /\ l.count = count
        /\ l.version = definition.version /\ l.claim = definition.claim
    BY <1>0, <1>1, <1>2, <1>3, <1>8 DEF Definition
  <2>2. l.fresh = definition.fresh /\ l.status = state /\ l.next = next
    BY <1>0, <1>1, <1>2, <1>3, <1>8 DEF Definition
  <2> QED BY <1>2, <1>4, <1>8, <2>1, <2>2 DEF count
<1> QED BY <1>5, <1>6, <1>7, <1>8

LEMMA Tallied ==
  ASSUME TallyInv, NEW t, t \notin Tasks!Settled, Tasks!Settled' = Tasks!Settled \cup {t},
         definition'.count = definition.count + 1
  PROVE  TallyInv'
BY FS_AddElement DEF TallyInv

(* finish_run: a run that still runs gets its end, and is counted. *)
LEMMA Finishes ==
  ASSUME Tasks!AutomationAssumption, ScheduleTypes, PastInv, AheadInv, TallyInv,
         NEW t \in Tasks!Times, NEW s \in Tasks!RunEnds, Tasks!FinishRun(t, s), now' = now
  PROVE  /\ definition' \in Definition /\ occurrences' \in [Tasks!Times -> Occurrence]
         /\ definition'.version = definition.version /\ definition'.claim = definition.claim
         /\ definition'.fresh = definition.fresh /\ definition'.next <= MaxTime + 1
         /\ \A r \in Tasks!Times \ {t} : occurrences'[r].status = occurrences[r].status
         /\ occurrences'[t].status =
               IF occurrences[t].status = "running" THEN s ELSE occurrences[t].status
         /\ AheadInv' /\ TallyInv'
<1>0. /\ definition \in Definition /\ occurrences \in [Tasks!Times -> Occurrence]
      /\ occurrences[t] \in Occurrence
  BY DEF ScheduleTypes
<1>1. CASE occurrences[t].status # "running"
  <2>1. occurrences' = occurrences /\ definition' = definition
    BY <1>1 DEF Tasks!FinishRun
  <2>2. AheadInv' /\ TallyInv'
    BY <2>1 DEF AheadInv, TallyInv, Tasks!Settled, Tasks!Ended
  <2> QED BY <1>0, <1>1, <2>1, <2>2 DEF ScheduleTypes
<1>2. CASE occurrences[t].status = "running"
  <2> DEFINE o == [occurrences[t] EXCEPT !.status = s]
             l == Tasks!RowAfter(t, s)
  <2>1. occurrences' = [occurrences EXCEPT ![t] = o] /\ definition' = l
    BY <1>0, <1>2 DEF Tasks!FinishRun
  <2>2. o \in Occurrence /\ o.status = s
    BY <1>0 DEF Occurrence
  <2>3. l = Tasks!RowAfter(t, s)
    OBVIOUS
  <2> HIDE DEF o, l
  <2>4. occurrences' \in [Tasks!Times -> Occurrence]
    BY <1>0, <2>1, <2>2
  <2>5. occurrences'[t].status = s /\ \A r \in Tasks!Times \ {t} : occurrences'[r] = occurrences[r]
    BY <1>0, <2>1, <2>2
  <2>6. Tasks!Settled' = Tasks!Settled \cup {t} /\ t \notin Tasks!Settled
    BY <1>2, <2>5 DEF Tasks!Settled, Tasks!RunEnds
  <2>7. /\ l \in Definition
        /\ l.count = definition.count + 1
        /\ l.version = definition.version /\ l.claim = definition.claim
        /\ l.fresh = definition.fresh
        /\ l.next <= MaxTime + 1
        /\ \/ /\ l.status = definition.status /\ l.next = definition.next
              /\ Tasks!Ended \/ definition.next # t
           \/ l.status = "completed" /\ l.next = 0
           \/ /\ l.next = 0 \/ (l.next > now /\ l.next > t)
              /\ l.status = "active" => l.next # 0
              /\ l.status \in {"cancelled", "completed"} => l.next = 0
    BY <2>3, RowAfterFields
  <2>8. TallyInv'
    BY <2>1, <2>6, <2>7, Tallied
  <2>9. \A r \in Tasks!Settled' : r \in Nat \ {0} /\ r <= now
    BY <1>2, <2>5 DEF Tasks!Settled, PastInv, Tasks!Times, Tasks!RunEnds
  <2>10. AheadInv'
    <3>1. CASE /\ l.status = definition.status /\ l.next = definition.next
               /\ Tasks!Ended \/ definition.next # t
      BY <2>1, <2>6, <2>9, <3>1 DEF AheadInv, Tasks!Ended
    <3>2. CASE l.status = "completed" /\ l.next = 0
      BY <2>1, <2>9, <3>2 DEF AheadInv, Tasks!Ended
    <3>3. CASE /\ l.next = 0 \/ (l.next > now /\ l.next > t)
               /\ l.status = "active" => l.next # 0
               /\ l.status \in {"cancelled", "completed"} => l.next = 0
      <4>1. l.next \in Nat /\ now \in Nat
        BY <2>7 DEF Definition, ScheduleTypes
      <4>2. l.next \notin Tasks!Settled'
        BY <2>9, <3>3, <4>1
      <4> QED BY <2>1, <3>3, <4>2 DEF AheadInv, Tasks!Ended
    <3> QED BY <2>7, <3>1, <3>2, <3>3
  <2> QED BY <1>2, <2>1, <2>4, <2>5, <2>7, <2>8, <2>10
<1> QED BY <1>1, <1>2

-----------------------------------------------------------------------------
(* The tasks of the worker: nobody starts to execute a run, unless it is   *)
(* created then.                                                           *)
TasksKept ==
  /\ task' \in [Claimers -> Claimed]
  /\ \A w \in Claimers : /\ task'[w].sched <= now
                         /\ task'[w].pc # "idle" => task'[w].sched # 0
                         /\ Executes(w)' => task'[w] = task[w]

LEMMA SameTasks ==
  ASSUME ScheduleTypes, PastInv, task' = task
  PROVE  TasksKept
BY DEF ScheduleTypes, PastInv, TasksKept

LEMMA TaskGoes ==
  ASSUME ScheduleTypes, PastInv, NEW w \in Claimers, task[w].pc # "idle",
         NEW pc \in {"turn", "blocking", "settle", "failing", "unowned", "close", "release"},
         Tasks!To(w, pc)
  PROVE  TasksKept /\ ~Executes(w)'
<1> DEFINE x == [task[w] EXCEPT !.pc = pc]
<1>1. task \in [Claimers -> Claimed] /\ task[w] \in Claimed /\ task' = [task EXCEPT ![w] = x]
  BY DEF ScheduleTypes, Tasks!To
<1>2. x \in Claimed /\ x.pc = pc /\ x.sched = task[w].sched
  BY <1>1 DEF Claimed
<1> HIDE DEF x
<1>3. /\ task' \in [Claimers -> Claimed] /\ task'[w] = x
      /\ \A v \in Claimers \ {w} : task'[v] = task[v]
  BY <1>1, <1>2
<1> QED BY <1>2, <1>3 DEF PastInv, TasksKept, Executes

LEMMA TaskRests ==
  ASSUME ScheduleTypes, PastInv, NEW w \in Claimers, task' = [task EXCEPT ![w] = Tasks!Idle]
  PROVE  TasksKept
<1>1. Tasks!Idle \in Claimed /\ Tasks!Idle.pc = "idle" /\ Tasks!Idle.sched = 0
  BY DEF Tasks!Idle, Claimed
<1>2. /\ task \in [Claimers -> Claimed] /\ now >= 0
  BY DEF ScheduleTypes
<1>3. /\ task' \in [Claimers -> Claimed] /\ task'[w] = Tasks!Idle
      /\ \A v \in Claimers \ {w} : task'[v] = task[v]
  BY <1>1, <1>2
<1> QED BY <1>1, <1>2, <1>3 DEF PastInv, TasksKept, Executes

(* A step that leaves the runs and the Works alone. *)
LEMMA RunsStay ==
  ASSUME ScheduleInv, UNCHANGED <<now, occurrences, roots>>, TasksKept,
         definition' \in Definition, definition'.count = definition.count,
         edits' \in 0 .. MaxEdits, definition'.version \in 1 .. edits' + 1,
         definition'.next <= MaxTime + 1, definition'.fresh => definition'.claim # NoWorker,
         service' \in {"down", "starting", "up"}, AheadInv'
  PROVE  ScheduleInv'
<1>1. ScheduleTypes'
  BY DEF ScheduleInv, ScheduleTypes, TasksKept, Tasks!Times
<1>2. PastInv'
  BY DEF ScheduleInv, PastInv, TasksKept
<1>3. TallyInv'
  BY DEF ScheduleInv, TallyInv, Tasks!Settled
<1>4. RunOwnerInv'
  <2>1. \A w \in Claimers : Executes(w)' => Executes(w) /\ task'[w] = task[w]
    BY DEF TasksKept, Executes
  <2>2. \A w \in Claimers : task'[w].pc \in {"executing", "blocked"} => Executes(w)'
    BY DEF Executes
  <2> QED BY <2>1, <2>2 DEF ScheduleInv, RunOwnerInv
<1>5. RootInv'
  BY DEF ScheduleInv, RootInv
<1> QED BY <1>1, <1>2, <1>3, <1>4, <1>5 DEF ScheduleInv

(* A step that settles a run. *)
LEMMA RunSettles ==
  ASSUME Tasks!AutomationAssumption, ScheduleInv, NEW t \in Tasks!Times, NEW s \in Tasks!RunEnds,
         Tasks!FinishRun(t, s), UNCHANGED <<now, roots, edits, service>>, TasksKept,
         s # "uncertain" /\ roots[t] # "none" =>
             roots[t] \in Tasks!WorkEnds /\ s = Tasks!RunEnd(roots[t]),
         \/ s = "uncertain" \/ roots[t] # "none"
         \/ \A w \in Claimers : Executes(w)' => task[w].sched # t
  PROVE  ScheduleInv'
<1>1. /\ definition' \in Definition /\ occurrences' \in [Tasks!Times -> Occurrence]
      /\ definition'.version = definition.version /\ definition'.claim = definition.claim
      /\ (definition'.fresh = definition.fresh) /\ definition'.next <= MaxTime + 1
      /\ \A r \in Tasks!Times \ {t} : occurrences'[r].status = occurrences[r].status
      /\ occurrences'[t].status =
            IF occurrences[t].status = "running" THEN s ELSE occurrences[t].status
      /\ AheadInv' /\ TallyInv'
  BY Finishes DEF ScheduleInv
<1>2. ScheduleTypes'
  BY <1>1 DEF ScheduleInv, ScheduleTypes, TasksKept, Tasks!Times
<1>3. \A r \in Tasks!Times : \/ occurrences'[r].status = occurrences[r].status
                             \/ r = t /\ occurrences[r].status = "running" /\ occurrences'[r].status = s
  BY <1>1
<1>4. s # "none"
  BY DEF Tasks!RunEnds
<1>5. PastInv'
  BY <1>3, <1>4 DEF ScheduleInv, PastInv, TasksKept
<1>6. RootInv'
  BY <1>3, <1>4 DEF ScheduleInv, RootInv
<1>7. RunOwnerInv'
  <2>1. \A w \in Claimers : Executes(w)' => /\ Executes(w) /\ task'[w] = task[w]
                                            /\ task[w].sched \in Tasks!Times
    <3>1. \A w \in Claimers : Executes(w)' => Executes(w) /\ task'[w] = task[w]
      BY DEF TasksKept, Executes
    <3>2. \A w \in Claimers : Executes(w) => task[w].sched \in Tasks!Times
      BY DEF ScheduleInv, ScheduleTypes, PastInv, Claimed, Executes, Tasks!Times,
             Tasks!AutomationAssumption
    <3> QED BY <3>1, <3>2
  <2>2. ASSUME NEW w \in Claimers, Executes(w)'
        PROVE  /\ occurrences'[task'[w].sched].status # "none"
               /\ task'[w].pc = "executing" /\ roots'[task'[w].sched] = "none" =>
                    occurrences'[task'[w].sched].status \in {"running", "uncertain"}
               /\ task'[w].pc = "blocked" => roots'[task'[w].sched] = "none"
    BY <1>3, <1>4, <2>1, <2>2 DEF ScheduleInv, RunOwnerInv
  <2>3. \A w \in Claimers : task'[w].pc \in {"executing", "blocked"} => Executes(w)'
    BY DEF Executes
  <2>4. \A v, w \in Claimers : Executes(v)' /\ Executes(w)' /\ task'[v].sched = task'[w].sched => v = w
    BY <2>1 DEF ScheduleInv, RunOwnerInv
  <2> QED BY <2>2, <2>3, <2>4 DEF RunOwnerInv
<1> QED BY <1>1, <1>2, <1>5, <1>6, <1>7 DEF ScheduleInv

-----------------------------------------------------------------------------
(* The owner.                                                              *)
LEMMA EditStep ==
  ASSUME Tasks!AutomationAssumption, ScheduleInv, Tasks!Owner
  PROVE  ScheduleInv'
<1>0. /\ definition \in Definition /\ now \in 0 .. MaxTime /\ MaxTime \in Nat /\ MaxEdits \in Nat
      /\ edits \in 0 .. MaxEdits /\ definition.version \in 1 .. edits + 1
      /\ definition.next <= MaxTime + 1 /\ Limits \subseteq Nat
      /\ (definition.fresh => definition.claim # NoWorker)
      /\ service \in {"down", "starting", "up"}
  BY DEF ScheduleInv, ScheduleTypes, Tasks!AutomationAssumption
<1>1. /\ UNCHANGED <<now, occurrences, roots, task, service>>
      /\ edits' \in 0 .. MaxEdits /\ edits' = edits + 1
  <2>1. Tasks!Edit
    BY DEF Tasks!Owner, Tasks!UpdateTask, Tasks!Pause, Tasks!Resume, Tasks!Cancel, Tasks!RunNow
  <2> QED BY <1>0, <2>1 DEF Tasks!Edit
<1>2. TasksKept /\ Tasks!Settled' = Tasks!Settled
  BY <1>1, SameTasks DEF ScheduleInv, Tasks!Settled
<1>3. \A r \in Tasks!Settled : r \in Nat \ {0} /\ r <= now /\ occurrences[r].status # "none"
  BY DEF ScheduleInv, PastInv, Tasks!Settled, Tasks!Times, Tasks!RunEnds
<1>4. ASSUME NEW l \in Definition, definition' = l, l.count = definition.count,
             l.version \in 1 .. edits + 2, l.next <= MaxTime + 1,
             l.claim = definition.claim, l.fresh = definition.fresh,
             l.next \notin Tasks!Settled,
             l.status = "active" => l.next # 0,
             l.status \in {"cancelled", "completed"} => l.next = 0
      PROVE  ScheduleInv'
  <2>1. AheadInv'
    BY <1>2, <1>4 DEF AheadInv, Tasks!Ended
  <2> QED BY <1>0, <1>1, <1>2, <1>4, <2>1, RunsStay
<1>5. ASSUME NEW schedule \in Tasks!Schedules, NEW limit \in Limits, NEW set \in BOOLEAN,
             Tasks!UpdateTask(schedule, limit, set)
      PROVE  ScheduleInv'
  <2> DEFINE next == IF schedule = definition.schedule THEN definition.next ELSE now + 1
             max == IF set THEN limit ELSE definition.max
             full == set /\ max # 0 /\ definition.count >= max /\ Tasks!Running = {}
             v == definition.version + 1
             n == IF full THEN 0 ELSE next
             st == IF full THEN "completed" ELSE definition.status
             l == [definition EXCEPT !.version = v, !.schedule = schedule, !.max = max,
                                     !.next = n, !.status = st]
  <2>1. definition' = l /\ ~Tasks!Ended
    BY <1>0, <1>5 DEF Tasks!UpdateTask, Definition
  <2>2. max \in Limits /\ v \in Nat /\ n \in Nat /\ st \in Tasks!Statuses
    BY <1>0 DEF Definition, Tasks!Statuses
  <2>3. n <= MaxTime + 1 /\ v \in 1 .. edits + 2
    BY <1>0
  <2>4. /\ n \notin Tasks!Settled
        /\ st = "active" => n # 0
        /\ st \in {"cancelled", "completed"} => n = 0
    BY <1>0, <1>3, <2>1 DEF ScheduleInv, AheadInv, Tasks!Ended
  <2> HIDE DEF next, max, full, v, n, st
  <2>5. l \in Definition
    BY <1>0, <2>2 DEF Definition
  <2>6. l.count = definition.count /\ l.version = v /\ l.next = n /\ l.status = st
    BY <1>0, <2>2 DEF Definition
  <2>7. l.claim = definition.claim /\ l.fresh = definition.fresh
    BY <1>0, <2>2 DEF Definition
  <2> HIDE DEF l
  <2> QED BY <1>4, <2>1, <2>3, <2>4, <2>5, <2>6, <2>7
<1>6. CASE Tasks!Pause \/ Tasks!Cancel
  <2>1. PICK st \in {"paused", "cancelled"}, n \in {definition.next, 0} :
           /\ definition' = [definition EXCEPT !.status = st, !.next = n]
           /\ st = "cancelled" => n = 0
    BY <1>0, <1>6 DEF Tasks!Pause, Tasks!Cancel, Definition
  <2> DEFINE l == [definition EXCEPT !.status = st, !.next = n]
  <2>2. st \in Tasks!Statuses /\ n \in Nat /\ n <= MaxTime + 1 /\ n \notin Tasks!Settled
    BY <1>0, <1>3, <2>1 DEF Tasks!Statuses, Definition, ScheduleInv, AheadInv
  <2>3. /\ l \in Definition /\ l.count = definition.count /\ l.version = definition.version
    BY <1>0, <2>2 DEF Definition
  <2>4. /\ l.next = n /\ l.status = st /\ l.claim = definition.claim
        /\ l.fresh = definition.fresh
    BY <1>0, <2>2 DEF Definition
  <2>5. definition' = l
    BY <2>1
  <2> HIDE DEF l
  <2> QED BY <1>0, <1>4, <2>1, <2>2, <2>3, <2>4, <2>5
<1>7. CASE Tasks!Resume \/ Tasks!RunNow
  <2>1. PICK n \in {definition.next, now} :
           /\ definition' = [definition EXCEPT !.status = "active", !.next = n]
           /\ n = now => Tasks!Unused(now) \/ (n = definition.next)
           /\ n # 0
    <3>1. CASE Tasks!RunNow
      <4>1. definition' = [definition EXCEPT !.status = "active", !.next = now]
        BY <3>1 DEF Tasks!RunNow
      <4>2. Tasks!Unused(now) /\ now # 0
        BY <3>1 DEF Tasks!RunNow, Tasks!Unused, Tasks!Times
      <4> QED BY <4>1, <4>2
    <3>2. CASE Tasks!Resume /\ definition.next = 0
      <4>1. definition' = [definition EXCEPT !.status = "active", !.next = now]
        BY <1>0, <3>2 DEF Tasks!Resume, Definition
      <4>2. Tasks!Unused(now) /\ now # 0
        BY <3>2 DEF Tasks!Resume, Tasks!Unused, Tasks!Times
      <4> QED BY <4>1, <4>2
    <3>3. CASE Tasks!Resume /\ definition.next # 0
      <4>1. definition' = [definition EXCEPT !.status = "active", !.next = definition.next]
        BY <1>0, <3>3 DEF Tasks!Resume, Definition
      <4> QED BY <3>3, <4>1
    <3> QED BY <1>7, <3>1, <3>2, <3>3
  <2> DEFINE l == [definition EXCEPT !.status = "active", !.next = n]
  <2>2. n \in Nat /\ n <= MaxTime + 1 /\ n \notin Tasks!Settled
    BY <1>0, <1>3, <2>1 DEF Definition, ScheduleInv, AheadInv, Tasks!Unused
  <2>a. "active" \in Tasks!Statuses
    BY DEF Tasks!Statuses
  <2>3. /\ l \in Definition /\ l.count = definition.count /\ l.version = definition.version
    BY <1>0, <2>2, <2>a DEF Definition
  <2>4. /\ l.next = n /\ l.status = "active" /\ l.claim = definition.claim
        /\ l.fresh = definition.fresh
    BY <1>0, <2>2, <2>a DEF Definition
  <2>5. definition' = l
    BY <2>1
  <2> HIDE DEF l
  <2> QED BY <1>0, <1>4, <2>1, <2>2, <2>3, <2>4, <2>5
<1> QED BY <1>5, <1>6, <1>7 DEF Tasks!Owner

(* The claim of a row, and what a task does before and after its run.      *)
LEMMA LeaseMoves ==
  ASSUME ScheduleInv, UNCHANGED <<now, occurrences, roots, edits>>, TasksKept,
         service' \in {"down", "starting", "up"},
         NEW c \in Claimers \cup {NoWorker}, NEW f \in BOOLEAN, f => c # NoWorker,
         definition' = [definition EXCEPT !.claim = c, !.fresh = f]
  PROVE  ScheduleInv'
<1>0. /\ definition \in Definition /\ edits \in 0 .. MaxEdits
      /\ definition.version \in 1 .. edits + 1 /\ definition.next <= MaxTime + 1
  BY DEF ScheduleInv, ScheduleTypes
<1> DEFINE l == [definition EXCEPT !.claim = c, !.fresh = f]
<1>1. l \in Definition /\ l.count = definition.count /\ l.version = definition.version
  BY <1>0 DEF Definition
<1>2. l.next = definition.next /\ l.status = definition.status /\ l.claim = c /\ (l.fresh = f)
  BY <1>0 DEF Definition
<1>3. definition' = l
  OBVIOUS
<1> HIDE DEF l
<1>4. AheadInv'
  BY <1>2, <1>3 DEF ScheduleInv, AheadInv, Tasks!Settled, Tasks!Ended
<1> QED BY <1>0, <1>1, <1>2, <1>3, <1>4, RunsStay

LEMMA RowStays ==
  ASSUME ScheduleInv, UNCHANGED <<now, occurrences, roots, edits, definition>>, TasksKept,
         service' \in {"down", "starting", "up"}
  PROVE  ScheduleInv'
<1>1. AheadInv'
  BY DEF ScheduleInv, AheadInv, Tasks!Settled, Tasks!Ended
<1> QED BY <1>1, RunsStay DEF ScheduleInv, ScheduleTypes

LEMMA ClaimStep ==
  ASSUME Tasks!AutomationAssumption, ScheduleInv, NEW w \in Claimers, Tasks!Claim(w)
  PROVE  ScheduleInv'
<1> DEFINE x == [pc |-> "claimed", sched |-> definition.next, version |-> definition.version]
<1>1. /\ definition.next # 0 /\ definition.next <= now
      /\ task' = [task EXCEPT ![w] = x]
      /\ UNCHANGED <<now, occurrences, roots, edits, service>>
  BY DEF Tasks!Claim, Tasks!Due
<1>2. definition' = [definition EXCEPT !.claim = w, !.fresh = TRUE]
  BY DEF Tasks!Claim
<1>3. x \in Claimed /\ x.pc = "claimed" /\ x.sched = definition.next
  BY DEF ScheduleInv, ScheduleTypes, Definition, Claimed
<1> HIDE DEF x
<1>4. /\ task' \in [Claimers -> Claimed] /\ task'[w] = x
      /\ \A v \in Claimers \ {w} : task'[v] = task[v]
  BY <1>1, <1>3 DEF ScheduleInv, ScheduleTypes
<1>5. TasksKept
  BY <1>1, <1>3, <1>4 DEF ScheduleInv, PastInv, TasksKept, Executes
<1>6. w # NoWorker /\ service' \in {"down", "starting", "up"}
  BY <1>1 DEF Tasks!AutomationAssumption, ScheduleInv, ScheduleTypes
<1> QED BY <1>1, <1>2, <1>5, <1>6, LeaseMoves

LEMMA TaskStep ==
  ASSUME Tasks!AutomationAssumption, ScheduleInv, NEW w \in Claimers,
         \/ \E bound \in BOOLEAN : Tasks!Bind(w, bound)
         \/ Tasks!Busy(w) \/ Tasks!LeaveSettled(w) \/ Tasks!Interrupt(w) \/ Tasks!FindUnowned(w)
  PROVE  ScheduleInv'
<1>1. /\ task[w].pc # "idle"
      /\ \E pc \in {"turn", "blocking", "settle", "failing", "unowned", "close", "release"} :
            Tasks!To(w, pc)
  BY DEF Tasks!Bind, Tasks!Busy, Tasks!LeaveSettled, Tasks!Interrupt, Tasks!FindUnowned, Tasks!AtWork
<1>2. TasksKept
  BY <1>1, TaskGoes DEF ScheduleInv
<1>3. UNCHANGED <<now, occurrences, roots, edits, definition, service>>
  BY DEF Tasks!Bind, Tasks!Busy, Tasks!LeaveSettled, Tasks!Interrupt, Tasks!FindUnowned
<1> QED BY <1>2, <1>3, RowStays DEF ScheduleInv, ScheduleTypes

LEMMA ReleaseRow ==
  ASSUME Tasks!AutomationAssumption, ScheduleInv, NEW w \in Claimers, Tasks!Release(w)
  PROVE  ScheduleInv'
<1>1. TasksKept
  BY TaskRests DEF ScheduleInv, Tasks!Release
<1>2. UNCHANGED <<now, occurrences, roots, edits, service>>
  BY DEF Tasks!Release
<1>3. service' \in {"down", "starting", "up"}
  BY <1>2 DEF ScheduleInv, ScheduleTypes
<1>4. CASE definition.claim = w
  BY <1>1, <1>2, <1>3, <1>4, LeaseMoves DEF Tasks!Release
<1>5. CASE definition.claim # w
  BY <1>1, <1>2, <1>3, <1>5, RowStays DEF Tasks!Release
<1> QED BY <1>4, <1>5

(* Time, the process, and the end of a Work.                               *)
LEMMA AroundStep ==
  ASSUME Tasks!AutomationAssumption, ScheduleInv,
         \/ Tasks!Lapse \/ Tasks!Expire \/ Tasks!Crash \/ Tasks!Boot \/ Tasks!Start
         \/ UNCHANGED Tasks!vars
  PROVE  ScheduleInv'
<1>0. ScheduleTypes /\ PastInv
  BY DEF ScheduleInv
<1>1. CASE Tasks!Lapse \/ Tasks!Expire
  <2>1. /\ definition' = [definition EXCEPT !.fresh = FALSE]
        /\ UNCHANGED <<now, occurrences, roots, edits, service, task>>
    BY <1>1 DEF Tasks!Lapse, Tasks!Expire
  <2>2. definition \in Definition /\ definition.claim \in Claimers \cup {NoWorker}
    BY <1>0 DEF ScheduleTypes, Definition
  <2>3. definition' = [definition EXCEPT !.claim = definition.claim, !.fresh = FALSE]
    BY <2>1, <2>2 DEF Definition
  <2>4. TasksKept
    BY <1>0, <2>1, SameTasks
  <2> QED BY <1>0, <2>1, <2>2, <2>3, <2>4, LeaseMoves DEF ScheduleTypes
<1>2. CASE Tasks!Boot \/ Tasks!Start \/ UNCHANGED Tasks!vars
  <2>1. /\ UNCHANGED <<now, occurrences, roots, edits, definition, task>>
        /\ service' \in {"down", "starting", "up"}
    BY <1>0, <1>2 DEF Tasks!Boot, Tasks!Start, Tasks!vars, ScheduleTypes
  <2> QED BY <1>0, <2>1, SameTasks, RowStays
<1>3. CASE Tasks!Crash
  <2>1. UNCHANGED <<now, occurrences, roots, edits, definition>> /\ service' = "down"
    BY <1>3 DEF Tasks!Crash
  <2>2. /\ task' = [w \in Claimers |-> Tasks!Idle]
    BY <1>3 DEF Tasks!Crash
  <2>3. Tasks!Idle \in Claimed /\ Tasks!Idle.pc = "idle" /\ Tasks!Idle.sched = 0
    BY DEF Tasks!Idle, Claimed
  <2>4. TasksKept
    BY <1>0, <2>2, <2>3 DEF TasksKept, Executes, ScheduleTypes
  <2> QED BY <2>1, <2>4, RowStays
<1> QED BY <1>1, <1>2, <1>3

LEMMA TickStep ==
  ASSUME Tasks!AutomationAssumption, ScheduleInv, Tasks!Tick
  PROVE  ScheduleInv'
<1>1. UNCHANGED <<definition, occurrences, roots, task, service, edits>> /\ now' = now + 1 /\ now < MaxTime
  BY DEF Tasks!Tick
<1>2. ScheduleTypes'
  BY <1>1 DEF ScheduleInv, ScheduleTypes, Tasks!AutomationAssumption, Tasks!Times
<1>3. PastInv'
  BY <1>1 DEF ScheduleInv, ScheduleTypes, PastInv, Claimed, Tasks!Times
<1>4. AheadInv' /\ TallyInv'
  BY <1>1 DEF ScheduleInv, AheadInv, TallyInv, Tasks!Settled, Tasks!Ended
<1>5. RunOwnerInv' /\ RootInv'
  BY <1>1 DEF ScheduleInv, RunOwnerInv, RootInv, Executes
<1> QED BY <1>2, <1>3, <1>4, <1>5 DEF ScheduleInv

(* The creation of a run and its settlements.                              *)
LEMMA SchedInTimes ==
  ASSUME Tasks!AutomationAssumption, ScheduleInv, NEW w \in Claimers, task[w].pc # "idle"
  PROVE  task[w].sched \in Tasks!Times /\ task[w].sched <= now
BY DEF Tasks!AutomationAssumption, ScheduleInv, ScheduleTypes, PastInv, Claimed, Tasks!Times

LEMMA RunCreated ==
  ASSUME Tasks!AutomationAssumption, ScheduleInv, NEW w \in Claimers, task[w].pc # "idle",
         UNCHANGED <<now, definition, roots, service, edits>>,
         occurrences[task[w].sched].status = "none",
         NEW o \in Occurrence, o.status = "running",
         occurrences' = [occurrences EXCEPT ![task[w].sched] = o],
         NEW pc \in {"executing", "blocked"}, Tasks!To(w, pc)
  PROVE  ScheduleInv'
<1> DEFINE t == task[w].sched
           x == [task[w] EXCEPT !.pc = pc]
<1>0. /\ ScheduleTypes /\ task[w] \in Claimed
      /\ occurrences \in [Tasks!Times -> Occurrence] /\ task \in [Claimers -> Claimed]
  BY DEF ScheduleInv, ScheduleTypes
<1>1. t \in Tasks!Times /\ t <= now
  BY SchedInTimes
<1>2. x \in Claimed /\ x.pc = pc /\ x.sched = t
  BY <1>0 DEF Claimed
<1>3. task' = [task EXCEPT ![w] = x]
  BY DEF Tasks!To
<1> HIDE DEF x
<1>4. /\ task' \in [Claimers -> Claimed] /\ task'[w] = x
      /\ \A v \in Claimers \ {w} : task'[v] = task[v]
  BY <1>0, <1>2, <1>3
<1>5. /\ occurrences' \in [Tasks!Times -> Occurrence] /\ occurrences'[t] = o
      /\ \A r \in Tasks!Times \ {t} : occurrences'[r] = occurrences[r]
  BY <1>0, <1>1
<1>6. occurrences[t].status = "none"
  OBVIOUS
<1> HIDE DEF t
<1>7. ScheduleTypes'
  BY <1>0, <1>4, <1>5 DEF ScheduleTypes, Tasks!Times
<1>8. PastInv'
  BY <1>1, <1>2, <1>4, <1>5 DEF ScheduleInv, PastInv, Tasks!Times
<1>9. Tasks!Settled' = Tasks!Settled
  BY <1>1, <1>5, <1>6 DEF Tasks!Settled, Tasks!RunEnds
<1>10. AheadInv' /\ TallyInv'
  BY <1>9 DEF ScheduleInv, AheadInv, TallyInv, Tasks!Ended
<1>11. roots[t] = "none"
  BY <1>1, <1>6 DEF ScheduleInv, RootInv
<1>12. RootInv'
  BY <1>5, <1>11 DEF ScheduleInv, RootInv, Tasks!RunEnds
<1>13. RunOwnerInv'
  <2>1. ASSUME NEW v \in Claimers \ {w}, Executes(v)
        PROVE  /\ task[v].sched \in Tasks!Times /\ task[v].sched # t
               /\ occurrences'[task[v].sched] = occurrences[task[v].sched]
    <3>1. task[v].pc # "idle"
      BY <2>1 DEF Executes
    <3>2. task[v].sched \in Tasks!Times
      BY <3>1, SchedInTimes
    <3>3. occurrences[task[v].sched].status # "none"
      BY <2>1 DEF ScheduleInv, RunOwnerInv
    <3> QED BY <1>5, <1>6, <3>2, <3>3
  <2>2. \A v \in Claimers \ {w} : Executes(v)' => Executes(v)
    BY <1>4 DEF Executes
  <2>3. \A v \in Claimers : task[v].pc \in {"executing", "blocked"} => Executes(v)
    BY DEF Executes
  <2>4. \A v \in Claimers : task'[v].pc \in {"executing", "blocked"} => Executes(v)'
    BY DEF Executes
  <2>5. ASSUME NEW v \in Claimers, Executes(v)'
        PROVE  /\ occurrences'[task'[v].sched].status # "none"
               /\ task'[v].pc = "executing" /\ roots'[task'[v].sched] = "none" =>
                    occurrences'[task'[v].sched].status \in {"running", "uncertain"}
               /\ task'[v].pc = "blocked" => roots'[task'[v].sched] = "none"
    <3>1. CASE v = w
      BY <1>2, <1>4, <1>5, <1>11, <3>1
    <3>2. CASE v # w
      <4>1. Executes(v) /\ task'[v] = task[v]
        BY <1>4, <2>2, <2>5, <3>2
      <4>2. occurrences'[task[v].sched] = occurrences[task[v].sched]
        BY <2>1, <3>2, <4>1
      <4> QED BY <4>1, <4>2 DEF ScheduleInv, RunOwnerInv
    <3> QED BY <3>1, <3>2
  <2>6. ASSUME NEW u \in Claimers, NEW v \in Claimers, Executes(u)', Executes(v)',
               task'[u].sched = task'[v].sched
        PROVE  u = v
    BY <1>2, <1>4, <2>1, <2>2, <2>6 DEF ScheduleInv, RunOwnerInv
  <2> QED BY <2>4, <2>5, <2>6 DEF RunOwnerInv
<1> QED BY <1>7, <1>8, <1>10, <1>12, <1>13 DEF ScheduleInv

LEMMA CreateRunStep ==
  ASSUME Tasks!AutomationAssumption, ScheduleInv, NEW w \in Claimers, Tasks!CreateRun(w)
  PROVE  ScheduleInv'
<1> DEFINE t == task[w].sched
<1>0. /\ ScheduleTypes /\ PastInv /\ definition \in Definition
      /\ occurrences \in [Tasks!Times -> Occurrence] /\ task[w] \in Claimed
  BY DEF ScheduleInv, ScheduleTypes
<1>1. /\ task[w].pc \in {"turn", "blocking"} /\ task[w].pc # "idle"
      /\ UNCHANGED <<now, roots, service, edits>>
  BY DEF Tasks!CreateRun
<1>2. t \in Tasks!Times /\ t <= now
  BY <1>1, SchedInTimes
<1>3. service' \in {"down", "starting", "up"}
  BY <1>0, <1>1 DEF ScheduleTypes
<1>4. CASE ~Tasks!Admissible(w) /\ UNCHANGED <<definition, occurrences>> /\ Tasks!To(w, "release")
  <2>1. TasksKept
    BY <1>0, <1>1, <1>4, TaskGoes
  <2> QED BY <1>1, <1>3, <1>4, <2>1, RowStays
<1>5. CASE /\ Tasks!Admissible(w) /\ occurrences[t].status # "none" /\ UNCHANGED occurrences
           /\ Tasks!To(w, "release")
           /\ definition' = [definition EXCEPT !.next = IF occurrences[t].status = "running"
                                                        THEN definition.next ELSE 0]
  <2>1. TasksKept
    BY <1>0, <1>1, <1>5, TaskGoes
  <2>2. definition.next = t
    BY <1>5 DEF Tasks!Admissible
  <2>3. occurrences[t] \in Occurrence
    BY <1>0, <1>2
  <2>4. occurrences[t].status = "running"
    BY <1>2, <1>5, <2>2, <2>3 DEF ScheduleInv, AheadInv, Tasks!Settled, Occurrence
  <2>5. definition' = definition
    BY <1>0, <1>5, <2>4 DEF Definition
  <2> QED BY <1>1, <1>3, <1>5, <2>1, <2>5, RowStays
<1>6. CASE /\ UNCHANGED occurrences /\ Tasks!To(w, "release")
           /\ \/ definition' = [definition EXCEPT !.status = "completed", !.next = 0]
              \/ definition' = definition
  <2>1. TasksKept
    BY <1>0, <1>1, <1>6, TaskGoes
  <2>2. CASE definition' = definition
    BY <1>1, <1>3, <1>6, <2>1, <2>2, RowStays
  <2>3. CASE definition' = [definition EXCEPT !.status = "completed", !.next = 0]
    <3> DEFINE l == [definition EXCEPT !.status = "completed", !.next = 0]
    <3>0. "completed" \in Tasks!Statuses
      BY DEF Tasks!Statuses
    <3>1. l \in Definition /\ l.count = definition.count /\ l.version = definition.version
      BY <1>0, <3>0 DEF Definition
    <3>2. /\ l.status = "completed" /\ l.next = 0 /\ l.claim = definition.claim
          /\ (l.fresh = definition.fresh)
      BY <1>0, <3>0 DEF Definition
    <3>3. definition' = l
      BY <2>3
    <3> HIDE DEF l
    <3>4. AheadInv'
      BY <1>6, <3>2, <3>3 DEF AheadInv, Tasks!Ended, Tasks!Settled, Tasks!Times
    <3>5. MaxTime + 1 >= 0
      BY DEF Tasks!AutomationAssumption
    <3> QED BY <1>0, <1>1, <1>3, <1>6, <2>1, <3>1, <3>2, <3>3, <3>4, <3>5, RunsStay
             DEF ScheduleTypes
  <2> QED BY <1>6, <2>2, <2>3
<1>7. CASE /\ occurrences[t].status = "none" /\ UNCHANGED definition
           /\ Tasks!To(w, IF task[w].pc = "turn" THEN "executing" ELSE "blocked")
           /\ occurrences' = [occurrences EXCEPT ![t] = [status |-> "running",
                                   version |-> task[w].version, schedule |-> definition.schedule]]
  <2> DEFINE o == [status |-> "running", version |-> task[w].version,
                   schedule |-> definition.schedule]
             pc == IF task[w].pc = "turn" THEN "executing" ELSE "blocked"
  <2>1. o \in Occurrence /\ o.status = "running" /\ pc \in {"executing", "blocked"}
    BY <1>0 DEF Occurrence, Definition, Claimed
  <2> HIDE DEF o
  <2>2. occurrences' = [occurrences EXCEPT ![t] = o] /\ Tasks!To(w, pc)
    BY <1>7 DEF o
  <2> HIDE DEF pc
  <2> QED BY <1>1, <1>7, <2>1, <2>2, RunCreated
<1> QED BY <1>4, <1>5, <1>6, <1>7 DEF Tasks!CreateRun

(* Whoever executes a run that has no Work is the only one to do so.       *)
LEMMA EndStep ==
  ASSUME Tasks!AutomationAssumption, ScheduleInv, NEW w \in Claimers,
         \/ Tasks!Block(w) \/ \E status \in {"succeeded", "failed"} : Tasks!EndTurn(w, status)
  PROVE  ScheduleInv'
<1> DEFINE t == task[w].sched
<1>0. ScheduleTypes /\ PastInv
  BY DEF ScheduleInv
<1>1. /\ task[w].pc \in {"executing", "blocked"} /\ task[w].pc # "idle" /\ Executes(w)
      /\ UNCHANGED <<now, roots, service, edits>>
  BY DEF Tasks!Block, Tasks!EndTurn, Executes
<1>2. t \in Tasks!Times
  BY <1>1, SchedInTimes
<1>3. service' \in {"down", "starting", "up"}
  BY <1>0, <1>1 DEF ScheduleTypes
<1>4. CASE /\ UNCHANGED <<definition, occurrences>>
           /\ \E pc \in {"release", "settle"} : Tasks!To(w, pc)
  <2>1. TasksKept
    BY <1>0, <1>1, <1>4, TaskGoes
  <2> QED BY <1>1, <1>3, <1>4, <2>1, RowStays
<1>5. ASSUME NEW s \in {"succeeded", "failed", "blocked"}, Tasks!FinishRun(t, s),
             roots[t] = "none", Tasks!To(w, "release")
      PROVE  ScheduleInv'
  <2>1. TasksKept /\ ~Executes(w)'
    BY <1>0, <1>1, <1>5, TaskGoes
  <2>2. ASSUME NEW v \in Claimers, Executes(v)'  PROVE task[v].sched # t
    <3>1. v # w /\ Executes(v)
      BY <2>1, <2>2 DEF TasksKept, Executes
    <3> QED BY <1>1, <3>1 DEF ScheduleInv, RunOwnerInv
  <2>3. s \in Tasks!RunEnds
    BY DEF Tasks!RunEnds
  <2> HIDE DEF t
  <2> QED BY <1>1, <1>2, <1>5, <2>1, <2>2, <2>3, RunSettles
<1>6. CASE Tasks!Block(w)
  <2>1. roots[t] = "none"
    BY <1>6 DEF ScheduleInv, RunOwnerInv, Tasks!Block
  <2> QED BY <1>4, <1>5, <1>6, <2>1 DEF Tasks!Block
<1>7. CASE \E status \in {"succeeded", "failed"} : Tasks!EndTurn(w, status)
  BY <1>4, <1>5, <1>7 DEF Tasks!EndTurn
<1> QED BY <1>6, <1>7

LEMMA SettleWorkStep ==
  ASSUME Tasks!AutomationAssumption, ScheduleInv, NEW t \in Tasks!Times, Tasks!SettleWork(t)
  PROVE  ScheduleInv'
<1>1. /\ roots[t] \in Tasks!WorkEnds /\ Tasks!FinishRun(t, Tasks!RunEnd(roots[t]))
      /\ UNCHANGED <<now, roots, task, service, edits>>
  BY DEF Tasks!SettleWork, Tasks!Settleable
<1>2. Tasks!RunEnd(roots[t]) \in Tasks!RunEnds /\ roots[t] # "none"
  BY <1>1 DEF Tasks!RunEnd, Tasks!RunEnds, Tasks!WorkEnds
<1>3. TasksKept
  BY <1>1, SameTasks DEF ScheduleInv
<1> QED BY <1>1, <1>2, <1>3, RunSettles

LEMMA RecoveryStep ==
  ASSUME Tasks!AutomationAssumption, ScheduleInv,
         \/ \E w \in Claimers : Tasks!CloseUnowned(w)
         \/ \E t \in Tasks!Times : Tasks!StartSettle(t)
  PROVE  ScheduleInv'
<1>0. "uncertain" \in Tasks!RunEnds /\ ScheduleTypes /\ PastInv
  BY DEF Tasks!RunEnds, ScheduleInv
<1>1. ASSUME NEW w \in Claimers, Tasks!CloseUnowned(w)  PROVE ScheduleInv'
  <2>1. /\ task[w].pc # "idle" /\ Tasks!FinishRun(task[w].sched, "uncertain")
        /\ Tasks!To(w, "release") /\ UNCHANGED <<now, roots, service, edits>>
    BY <1>1 DEF Tasks!CloseUnowned
  <2>2. task[w].sched \in Tasks!Times /\ TasksKept
    BY <1>0, <2>1, SchedInTimes, TaskGoes
  <2> QED BY <1>0, <2>1, <2>2, RunSettles
<1>2. ASSUME NEW t \in Tasks!Times, Tasks!StartSettle(t)  PROVE ScheduleInv'
  <2>1. Tasks!FinishRun(t, "uncertain") /\ UNCHANGED <<now, roots, task, service, edits>>
    BY <1>2 DEF Tasks!StartSettle
  <2>2. TasksKept
    BY <1>0, <2>1, SameTasks
  <2> QED BY <1>0, <2>1, <2>2, RunSettles
<1> QED BY <1>1, <1>2

(* A run is given its Work, and the Work ends.                             *)
LEMMA RootStep ==
  ASSUME Tasks!AutomationAssumption, ScheduleInv,
         \/ \E w \in Claimers : Tasks!AcceptWork(w)
         \/ \E t \in Tasks!Times, state \in Tasks!WorkEnds : Tasks!WorkEnd(t, state)
  PROVE  ScheduleInv'
<1>1. UNCHANGED <<now, definition, occurrences, task, service, edits>>
  BY DEF Tasks!AcceptWork, Tasks!WorkEnd
<1>2. PICK t \in Tasks!Times, st \in Tasks!WorkEnds \cup {"live"} :
         /\ roots' = [roots EXCEPT ![t] = st]
         /\ \/ /\ roots[t] = "live" /\ st \in Tasks!WorkEnds
            \/ /\ roots[t] = "none" /\ st = "live"
               /\ \E w \in Claimers : task[w].pc = "executing" /\ task[w].sched = t
  BY SchedInTimes DEF Tasks!AcceptWork, Tasks!WorkEnd
<1>3. /\ roots' \in [Tasks!Times -> Tasks!WorkEnds \cup {"none", "live"}]
      /\ roots'[t] = st /\ \A r \in Tasks!Times \ {t} : roots'[r] = roots[r]
  BY <1>2 DEF ScheduleInv, ScheduleTypes
<1>4. ScheduleTypes' /\ PastInv' /\ AheadInv' /\ TallyInv'
  <2>1. ScheduleTypes'
    BY <1>1, <1>3 DEF ScheduleInv, ScheduleTypes, Tasks!Times
  <2>2. PastInv' /\ AheadInv' /\ TallyInv'
    BY <1>1 DEF ScheduleInv, PastInv, AheadInv, TallyInv, Tasks!Settled, Tasks!Ended
  <2> QED BY <2>1, <2>2
<1>5. /\ occurrences[t].status # "none"
      /\ occurrences[t].status \in Tasks!RunEnds => occurrences[t].status = "uncertain"
  <2>1. CASE roots[t] = "live"
    BY <2>1 DEF ScheduleInv, RootInv, Tasks!WorkEnds
  <2>2. CASE roots[t] = "none" /\ \E w \in Claimers : task[w].pc = "executing" /\ task[w].sched = t
    BY <2>2 DEF ScheduleInv, RunOwnerInv, Tasks!RunEnds
  <2> QED BY <1>2, <2>1, <2>2
<1>6. RootInv'
  BY <1>1, <1>3, <1>5 DEF ScheduleInv, RootInv
<1>7. RunOwnerInv'
  <2>1. \A w \in Claimers : Executes(w)' = Executes(w)
    BY <1>1 DEF Executes
  <2>2. \A w \in Claimers : task[w].pc \in {"executing", "blocked"} => Executes(w)
    BY DEF Executes
  <2>3. \A w \in Claimers : task[w].pc = "blocked" => task[w].sched # t
    <3> SUFFICES ASSUME NEW w \in Claimers, task[w].pc = "blocked", task[w].sched = t
                 PROVE  FALSE
      OBVIOUS
    <3>1. roots[t] = "none"
      BY DEF ScheduleInv, RunOwnerInv
    <3>2. PICK v \in Claimers : task[v].pc = "executing" /\ task[v].sched = t
      BY <1>2, <3>1
    <3> QED BY <2>2, <3>2 DEF ScheduleInv, RunOwnerInv
  <2>4. \A w \in Claimers : Executes(w) => task[w].sched \in Tasks!Times
    BY SchedInTimes DEF Executes
  <2>5. st # "none"
    BY DEF Tasks!WorkEnds
  <2>6. \A w \in Claimers : Executes(w) =>
           roots'[task[w].sched] = roots[task[w].sched] \/ task[w].sched = t
    BY <1>3, <2>4
  <2> QED BY <1>1, <1>3, <2>1, <2>2, <2>3, <2>5, <2>6 DEF ScheduleInv, RunOwnerInv
<1> QED BY <1>4, <1>6, <1>7 DEF ScheduleInv

LEMMA ScheduleStep ==
  ASSUME Tasks!AutomationAssumption, ScheduleInv, [Tasks!Next]_(Tasks!vars)
  PROVE  ScheduleInv'
<1>1. CASE Tasks!Owner
  BY <1>1, EditStep
<1>2. CASE Tasks!Tick
  BY <1>2, TickStep
<1>3. CASE Tasks!Lapse \/ Tasks!Expire \/ Tasks!Crash \/ UNCHANGED Tasks!vars
  BY <1>3, AroundStep
<1>4. CASE Tasks!Recover
  BY <1>4, AroundStep, RecoveryStep DEF Tasks!Recover
<1>5. ASSUME NEW w \in Claimers,
             Tasks!Claim(w) \/ Tasks!Step(w) \/ Tasks!Busy(w) \/ Tasks!AcceptWork(w) \/ Tasks!Interrupt(w)
      PROVE  ScheduleInv'
  <2>1. CASE Tasks!Claim(w)
    BY <2>1, ClaimStep
  <2>2. CASE Tasks!AcceptWork(w)
    BY <2>2, RootStep
  <2>3. CASE Tasks!Busy(w) \/ Tasks!Interrupt(w)
    BY <2>3, TaskStep
  <2>4. CASE Tasks!Step(w)
    BY <2>4, TaskStep, CreateRunStep, EndStep, RecoveryStep, ReleaseRow DEF Tasks!Step
  <2> QED BY <1>5, <2>1, <2>2, <2>3, <2>4
<1>6. ASSUME NEW t \in Tasks!Times,
             Tasks!SettleWork(t) \/ \E state \in Tasks!WorkEnds : Tasks!WorkEnd(t, state)
      PROVE  ScheduleInv'
  BY <1>6, SettleWorkStep, RootStep
<1> QED BY <1>1, <1>2, <1>3, <1>4, <1>5, <1>6 DEF Tasks!Next

LEMMA ScheduleStart ==
  ASSUME Tasks!AutomationAssumption, Tasks!Init
  PROVE  ScheduleInv
<1> USE DEF Tasks!Init
<1>0. /\ MaxTime \in Nat /\ MaxEdits \in Nat /\ Limits \subseteq Nat
      /\ Tasks!Idle \in Claimed /\ Tasks!Idle.pc = "idle" /\ Tasks!Idle.sched = 0
      /\ Tasks!NoRun \in Occurrence /\ Tasks!NoRun.status = "none"
  BY DEF Tasks!AutomationAssumption, Tasks!Idle, Claimed, Tasks!NoRun, Occurrence, Tasks!Schedules
<1>1. /\ definition \in Definition /\ definition.status = "active" /\ definition.next = 1
      /\ definition.count = 0 /\ definition.version = 1 /\ definition.fresh = FALSE
  <2> DEFINE S == [status : {"active"}, next : {1}, schedule : Tasks!Schedules, version : {1},
                   count : {0}, max : Limits, claim : {NoWorker}, fresh : {FALSE}]
  <2>1. definition \in S
    OBVIOUS
  <2>2. "active" \in Tasks!Statuses /\ {1} \subseteq Nat /\ {0} \subseteq Nat
        /\ {NoWorker} \subseteq Claimers \cup {NoWorker}
    BY DEF Tasks!Statuses
  <2>3. definition \in Definition
    BY ONLY <2>1, <2>2 DEF Definition
  <2>4. definition.status = "active" /\ definition.next = 1 /\ definition.count = 0
    BY ONLY <2>1
  <2>5. definition.version = 1 /\ definition.fresh = FALSE
    BY ONLY <2>1
  <2> QED BY <2>3, <2>4, <2>5
<1>2. \A t \in Tasks!Times : occurrences[t] = Tasks!NoRun /\ roots[t] = "none"
  OBVIOUS
<1>3. ScheduleTypes
  BY <1>0, <1>1 DEF ScheduleTypes
<1>4. Tasks!Settled = {}
  BY <1>0, <1>2 DEF Tasks!Settled, Tasks!RunEnds
<1>5. PastInv
  BY <1>0, <1>2 DEF PastInv
<1>6. AheadInv
  BY <1>1, <1>4 DEF AheadInv, Tasks!Ended
<1>7. TallyInv
  BY <1>1, <1>4, FS_EmptySet DEF TallyInv
<1>8. RunOwnerInv
  BY <1>0 DEF RunOwnerInv, Executes
<1>9. RootInv
  BY <1>0, <1>2 DEF RootInv, Tasks!RunEnds
<1> QED BY <1>3, <1>5, <1>6, <1>7, <1>8, <1>9 DEF ScheduleInv

(* Scheduled tasks (Automation), for any workers, limits and clock:        *)
(* ScheduleInv holds through edits of the owner, lapsed claims, crashes    *)
(* and every order in which a run is settled.                              *)
THEOREM ScheduleInductive == ASSUME Tasks!AutomationAssumption PROVE Tasks!Spec => []ScheduleInv
<1>1. Tasks!Init => ScheduleInv
  BY ScheduleStart
<1>2. ScheduleInv /\ [Tasks!Next]_(Tasks!vars) => ScheduleInv'
  BY ScheduleStep
<1> QED BY <1>1, <1>2, PTL DEF Tasks!Spec

(* At most MaxTime runs are settled.                                       *)
LEMMA TasksAgree ==
  ASSUME Tasks!AutomationAssumption, ScheduleInv
  PROVE  /\ Tasks!TypeOK /\ Tasks!ActiveIsScheduled
         /\ Tasks!CountsRuns /\ Tasks!RunMatchesWork
<1>1. Tasks!ActiveIsScheduled
  BY DEF ScheduleInv, AheadInv, Tasks!ActiveIsScheduled
<1>2. Tasks!CountsRuns
  BY ScheduleSize DEF ScheduleInv, TallyInv, Tasks!CountsRuns
<1>3. Tasks!RunMatchesWork
  BY DEF ScheduleInv, RootInv, Tasks!RunMatchesWork, Tasks!Settled
<1>4. definition.count \in 0 .. MaxTime
  <2>1. MaxTime \in Nat /\ Tasks!Settled \subseteq 1 .. MaxTime
    BY DEF Tasks!AutomationAssumption, Tasks!Settled, Tasks!Times
  <2>2. IsFiniteSet(1 .. MaxTime) /\ Cardinality(1 .. MaxTime) = MaxTime
    BY <2>1, FS_Interval
  <2>3. Cardinality(Tasks!Settled) <= MaxTime
    BY <2>1, <2>2, FS_Subset
  <2> QED BY <2>1, <2>3 DEF ScheduleInv, ScheduleTypes, TallyInv, Definition
<1>5. Tasks!TypeOK
  <2>1. /\ now \in 0 .. MaxTime /\ definition \in Definition /\ definition.next \in 0 .. MaxTime + 1
        /\ definition.version \in 1 .. MaxEdits + 1
        /\ (definition.fresh => definition.claim # NoWorker)
        /\ service \in {"down", "starting", "up"}
    BY DEF ScheduleInv, ScheduleTypes, Definition, Tasks!AutomationAssumption
  <2>2. \A t \in Tasks!Times : /\ occurrences[t].status \in Tasks!RunEnds \cup {"none", "running"}
                               /\ roots[t] \in Tasks!WorkEnds \cup {"none", "live"}
    BY DEF ScheduleInv, ScheduleTypes, Occurrence
  <2>3. \A w \in Claimers : task[w].sched \in 0 .. MaxTime
    BY <2>1 DEF ScheduleInv, ScheduleTypes, PastInv, Claimed, Tasks!AutomationAssumption
  <2>4. /\ definition.status \in Tasks!Statuses /\ definition.schedule \in Tasks!Schedules
        /\ definition.max \in Limits
        /\ definition.claim \in Claimers \cup {NoWorker} /\ definition.fresh \in BOOLEAN
    BY <2>1 DEF Definition
  <2> QED BY <1>4, <2>1, <2>2, <2>3, <2>4 DEF Tasks!TypeOK
<1> QED BY <1>1, <1>2, <1>3, <1>5

(* Only create_run admits, after it looked at the row again.               *)
LEMMA AdmissionStep ==
  ASSUME Tasks!AutomationAssumption, ScheduleInv, [Tasks!Next]_(Tasks!vars)
  PROVE  Tasks!Admission
<1> SUFFICES ASSUME NEW t \in Tasks!Times, occurrences[t].status = "none",
                    occurrences'[t].status = "running"
             PROVE  /\ definition.status = "active" /\ occurrences'[t].version = definition.version
                    /\ definition.max # 0 =>
                          definition.count + Tasks!Cardinality(Tasks!Running) < definition.max
  BY DEF Tasks!Admission
<1>0. occurrences \in [Tasks!Times -> Occurrence]
  BY DEF ScheduleInv, ScheduleTypes
<1>1. occurrences' # occurrences
  OBVIOUS
<1>2. ASSUME NEW r, NEW s \in Tasks!RunEnds, Tasks!FinishRun(r, s)  PROVE FALSE
  BY <1>0, <1>2 DEF Tasks!FinishRun, Tasks!RunEnds
<1>3. PICK w \in Claimers : Tasks!CreateRun(w)
  <2>1. Tasks!Next
    BY <1>1 DEF Tasks!vars
  <2>2. ~Tasks!Owner /\ ~Tasks!Tick /\ ~Tasks!Lapse /\ ~Tasks!Expire /\ ~Tasks!Crash
    BY <1>1 DEF Tasks!Owner, Tasks!UpdateTask, Tasks!Pause, Tasks!Resume, Tasks!Cancel,
                Tasks!RunNow, Tasks!Edit, Tasks!Tick, Tasks!Lapse, Tasks!Expire, Tasks!Crash
  <2>3. ~Tasks!Recover
    BY <1>1, <1>2 DEF Tasks!Recover, Tasks!Boot, Tasks!Start, Tasks!StartSettle, Tasks!RunEnds
  <2>4. ~\E r \in Tasks!Times : Tasks!SettleWork(r) \/ \E state \in Tasks!WorkEnds : Tasks!WorkEnd(r, state)
    <3>1. \A r : Tasks!RunEnd(roots[r]) \in Tasks!RunEnds
      BY DEF Tasks!RunEnd, Tasks!RunEnds
    <3> QED BY <1>1, <1>2, <3>1 DEF Tasks!SettleWork, Tasks!WorkEnd
  <2>5. PICK w \in Claimers : Tasks!Claim(w) \/ Tasks!Step(w) \/ Tasks!Busy(w)
                              \/ Tasks!AcceptWork(w) \/ Tasks!Interrupt(w)
    BY <2>1, <2>2, <2>3, <2>4 DEF Tasks!Next
  <2>6. Tasks!Step(w)
    BY <1>1, <2>5 DEF Tasks!Claim, Tasks!Busy, Tasks!AcceptWork, Tasks!Interrupt
  <2>7. ~\E bound \in BOOLEAN : Tasks!Bind(w, bound)
    BY <1>1 DEF Tasks!Bind
  <2>8. ~Tasks!Block(w) /\ ~Tasks!CloseUnowned(w)
    BY <1>1, <1>2 DEF Tasks!Block, Tasks!CloseUnowned, Tasks!RunEnds
  <2>9. ~\E status \in {"succeeded", "failed"} : Tasks!EndTurn(w, status)
    BY <1>1, <1>2 DEF Tasks!EndTurn, Tasks!RunEnds
  <2>10. ~Tasks!LeaveSettled(w) /\ ~Tasks!FindUnowned(w) /\ ~Tasks!Release(w)
    BY <1>1 DEF Tasks!LeaveSettled, Tasks!FindUnowned, Tasks!Release
  <2> QED BY <2>6, <2>7, <2>8, <2>9, <2>10 DEF Tasks!Step
<1>4. /\ Tasks!Admissible(w) /\ ~Tasks!Full
      /\ occurrences' = [occurrences EXCEPT ![task[w].sched] =
             [status |-> "running", version |-> task[w].version, schedule |-> definition.schedule]]
  BY <1>1, <1>3 DEF Tasks!CreateRun
<1>5. occurrences'[t].version = task[w].version
  BY <1>0, <1>4
<1>6. definition.status = "active" /\ task[w].version = definition.version
  BY <1>4 DEF Tasks!Admissible
<1>7. ASSUME definition.max # 0
      PROVE  definition.count + Tasks!Cardinality(Tasks!Running) < definition.max
  <2>1. definition.count \in Nat /\ definition.max \in Nat
    BY DEF ScheduleInv, ScheduleTypes, Definition, Tasks!AutomationAssumption
  <2>2. Tasks!Running \subseteq 1 .. MaxTime /\ MaxTime \in Nat
    BY DEF Tasks!Running, Tasks!Times, Tasks!AutomationAssumption
  <2>3. Tasks!Cardinality(Tasks!Running) \in Nat
    <3>1. IsFiniteSet(Tasks!Running)
      <4>1. IsFiniteSet(1 .. MaxTime)
        BY <2>2, FS_Interval
      <4> QED BY <2>2, <4>1, FS_Subset
    <3> QED BY <3>1, FS_CardinalityType, ScheduleSize
  <2>4. ~(definition.count + Tasks!Cardinality(Tasks!Running) >= definition.max)
    BY <1>4, <1>7 DEF Tasks!Full
  <2> QED BY <2>1, <2>3, <2>4
<1> QED BY <1>5, <1>6, <1>7

(* A run is admitted under the definition and the limit in force then, and *)
(* not under those its task claimed (Automation!AdmittedAsDefined).        *)
THEOREM RunsAdmittedAsDefined == ASSUME Tasks!AutomationAssumption PROVE Tasks!Spec => Tasks!AdmittedAsDefined
<1>1. ScheduleInv /\ [Tasks!Next]_(Tasks!vars) => [Tasks!Admission]_(Tasks!vars)
  BY AdmissionStep
<1> QED BY <1>1, ScheduleInductive, PTL DEF Tasks!Spec, Tasks!AdmittedAsDefined

-----------------------------------------------------------------------------
(* The sum: a behaviour of it is a behaviour of every component.           *)

LEMMA StartAll ==
  ASSUME InitAll
  PROVE  Init /\ Tasks!Init /\ Turns!Init /\ Children!Init
BY DEF InitAll

LEMMA StepAll ==
  ASSUME [NextAll]_all
  PROVE  /\ [Next]_vars /\ [Tasks!Next]_(Tasks!vars)
         /\ [Turns!Next]_(Turns!vars) /\ [Children!Next]_(Children!vars)
<1>1. /\ UNCHANGED scheduled => UNCHANGED Tasks!vars
      /\ UNCHANGED turning => UNCHANGED Turns!vars
      /\ UNCHANGED delegating => UNCHANGED Children!vars
  BY DEF scheduled, turning, delegating, Tasks!vars, Turns!vars, Children!vars
<1>2. UNCHANGED all => UNCHANGED <<vars, scheduled, turning, delegating>>
  BY DEF all
<1> QED BY <1>1, <1>2 DEF NextAll

(* An active task always has an occurrence ahead that was not settled, each *)
(* settled run is counted once, and the end of a run is the end of its     *)
(* Work (MCServices!TasksAreSettled).                                      *)
THEOREM TasksSettle == SpecAll => []TasksAreSettled
<1>1. InitAll => ScheduleInv
  BY StartAll, ScheduleStart, ServicesAssumption
<1>2. ScheduleInv /\ [NextAll]_all => ScheduleInv'
  BY StepAll, ScheduleStep, ServicesAssumption
<1>3. ScheduleInv => TasksAreSettled
  BY TasksAgree, ServicesAssumption DEF TasksAreSettled
<1> QED BY <1>1, <1>2, <1>3, PTL DEF SpecAll

(* No step of the worker, the owner or the recovery admits a run under an  *)
(* old definition or beyond the limit (MCServices!RunsAreAdmitted).        *)
THEOREM RunsAdmitted == SpecAll => RunsAreAdmitted
<1>1. InitAll => ScheduleInv
  BY StartAll, ScheduleStart, ServicesAssumption
<1>2. ScheduleInv /\ [NextAll]_all => ScheduleInv'
  BY StepAll, ScheduleStep, ServicesAssumption
<1>3. ScheduleInv /\ [NextAll]_all => [(instance \in {"edited", "faulty"}) => Tasks!Admission]_all
  BY StepAll, AdmissionStep, ServicesAssumption
<1> QED BY <1>1, <1>2, <1>3, PTL DEF SpecAll, RunsAreAdmitted

(* One external event buys one Work, run by one executor at a time; the    *)
(* job completes with that Work, and only failures use up its attempts     *)
(* (MCServices!JobIsItsWork).                                              *)
THEOREM JobsFollowWorks == SpecAll => []JobIsItsWork
<1>1. SpecAll => Turns!Spec
  <2>1. InitAll => Turns!Init
    BY StartAll
  <2>2. [NextAll]_all => [Turns!Next]_(Turns!vars)
    BY StepAll
  <2> QED BY <2>1, <2>2, PTL DEF SpecAll, Turns!Spec
<1>2. /\ Turns!Spec => []Turns!TypeOK /\ []Turns!OneWork
      /\ Turns!Spec => []Turns!CompletedWithWork /\ []Turns!BudgetIsCharged
  BY TurnTypeOK, JobOneWork, JobCompletes, JobBudget, ServicesAssumption
<1>3. Turns!TypeOK /\ Turns!OneWork /\ Turns!CompletedWithWork /\ Turns!BudgetIsCharged
        => JobIsItsWork
  BY DEF JobIsItsWork
<1> QED BY <1>1, <1>2, <1>3, PTL

(* Results of a child reach its parent in order and once, one shown as     *)
(* current names the state of the row, no unread message is left on an     *)
(* ended child, and no parent waits while a question of its child is       *)
(* unread (MCServices!ParentAndChildAgree).                                *)
THEOREM FamiliesAgree == SpecAll => []ParentAndChildAgree
<1>1. SpecAll => Children!Spec
  <2>1. InitAll => Children!Init
    BY StartAll
  <2>2. [NextAll]_all => [Children!Next]_(Children!vars)
    BY StepAll
  <2> QED BY <2>1, <2>2, PTL DEF SpecAll, Children!Spec
<1>2. /\ Children!Spec => []Children!TypeOK
      /\ Children!Spec => []Children!ReportsInOrder /\ []Children!ResultDescribesRow
      /\ Children!Spec => []Children!MessageKeepsChild /\ []Children!QuestionReachesParent
  BY ChildrenTyped, ChildrenReportInOrder, ChildResults, ChildMessages, ChildQuestions,
     ServicesAssumption
<1>3. Children!TypeOK /\ Children!ReportsInOrder /\ Children!ResultDescribesRow
        /\ Children!MessageKeepsChild /\ Children!QuestionReachesParent
        => ParentAndChildAgree
  BY DEF ParentAndChildAgree
<1> QED BY <1>1, <1>2, <1>3, PTL

(* The outbox of the sum is true, and its ends are final: the theorems     *)
(* about PluginOutbox hold of it (PluginOutbox!OutboxIsTrue, EndsAreFinal). *)
THEOREM OutboxInSum == SpecAll => []OutboxIsTrue /\ EndsAreFinal
<1>1. SpecAll => Spec
  <2>1. InitAll => Init
    BY StartAll
  <2>2. [NextAll]_all => [Next]_vars
    BY StepAll
  <2> QED BY <2>1, <2>2, PTL DEF SpecAll, Spec
<1>2. Spec => []OutboxIsTrue
  BY OutboxTellsTruth, ServicesAssumption
<1>3. Spec => EndsAreFinal
  BY SettledForGood, ServicesAssumption
<1> QED BY <1>1, <1>2, <1>3, PTL

(* What others do to a Work it survives: a job that ends while its target  *)
(* is live takes its Work along, speech withdraws no admitted Work, a      *)
(* cancelled or archived child stays so, and an execution that lost its    *)
(* child settles nothing (MCServices!WorkIsKept).                          *)
THEOREM WorkKept == SpecAll => WorkIsKept
<1> DEFINE Kept1 == /\ instance = "turns" => Turns!Retirement /\ Turns!Withdrawal
                    /\ instance = "children" => Children!Settlement /\ Children!Finality
<1>1. InitAll => TurnInv /\ FamilyInv
  BY StartAll, TurnStart, FamilyStart, ServicesAssumption
<1>2. TurnInv /\ FamilyInv /\ [NextAll]_all => (TurnInv /\ FamilyInv)'
  BY StepAll, TurnStep, FamilyStep, ServicesAssumption
<1>3. TurnInv /\ FamilyInv /\ [NextAll]_all => [Kept1]_all
  <2> SUFFICES ASSUME TurnInv, FamilyInv, NextAll
               PROVE  Kept1
    OBVIOUS
  <2>1. ASSUME instance = "turns"  PROVE Turns!Retirement /\ Turns!Withdrawal
    <3>1. Turns!Next /\ [Turns!Next]_(Turns!vars)
      BY <2>1 DEF NextAll
    <3>2. CASE Turns!vars' # Turns!vars
      BY <3>1, <3>2, RetirementStep, WithdrawalStep
    <3>3. CASE Turns!vars' = Turns!vars
      BY <3>3 DEF Turns!vars, Turns!Retirement, Turns!Withdrawal
    <3> QED BY <3>2, <3>3
  <2>2. Children!Settlement /\ Children!Finality
    BY StepAll, FamilyStep, ServicesAssumption DEF Rules, Children!Settlement, Children!Finality
  <2> QED BY <2>1, <2>2
<1> QED BY <1>1, <1>2, <1>3, PTL DEF SpecAll, WorkIsKept
=============================================================================
