---------------------------- MODULE PluginOutbox ----------------------------
(***************************************************************************)
(* The notification outbox of the plugin host: plugin_host/                *)
(* notification_repository.py (publication, preparation, claim,            *)
(* settlement, revocation) and the delivery worker of                      *)
(* notification_delivery.py.                                               *)
(*                                                                         *)
(* A plugin publishes a notification under an event key of its own.  The   *)
(* publication reads, prepares outside the writer and commits the external *)
(* event with its outbox row; a second call with the same key gets the     *)
(* first receipt.  One worker per process freezes the platform layout of a *)
(* row (which may split it into several physical parts), claims one part   *)
(* at a time under a lease, sends it and records the message in the ledger *)
(* together with the status "sent".  A part whose route ends in the local  *)
(* ledger has no send: recording it is the delivery.                       *)
(*                                                                         *)
(* Every commit is one atomic step; between two commits, and between the   *)
(* physical send and its record, the process may die, a write may fail,    *)
(* the lease may run out and the owner may revoke the target.              *)
(***************************************************************************)
EXTENDS Integers, Sequences, FiniteSets, SequencesExt

CONSTANTS
    Keys,         \* event keys the plugin publishes under
    Callers,      \* concurrent calls of notifications.publish
    Contents,     \* what a call publishes (the publication manifest)
    MaxParts,     \* physical parts a platform layout may need
    MaxAttempts,  \* max_attempts of an outbox row
    MaxFaults,    \* failed writes, lost acknowledgements, slow deliveries, deaths
    MaxChanges    \* revocations and grants of the target by its owner

BoundsAssumption ==
    /\ MaxParts \in Nat \ {0} /\ MaxAttempts \in Nat \ {0}
    /\ MaxFaults \in Nat /\ MaxChanges \in Nat

VARIABLES
    event,     \* the content of the external event of each key, or "none"
    order,     \* the keys in the order their rows were created
    row,       \* plugin_notification_outbox
    granted,   \* the target grant is enabled
    readable,  \* source person, target, conversation and presence are live
    call,      \* the publications in progress and their receipts
    worker,    \* the delivery worker: where it is, with which claimed attempt
    delivered, \* messages the platform really took, per part
    ledger,    \* outbound events of the conversation ledger, per part
    faults, changes

vars == <<event, order, row, granted, readable, call, worker, delivered,
          ledger, faults, changes>>

Parts == Keys \X (1 .. MaxParts)

NoRow == [st |-> "absent", route |-> "none", attempts |-> 0, lease |-> "none",
          due |-> TRUE, err |-> "none", message |-> FALSE, event |-> FALSE]

Idle == [at |-> "idle"]

Terminal == {"sent", "uncertain", "failed", "cancelled"}

Init ==
    /\ event = [k \in Keys |-> "none"]
    /\ order = <<>>
    /\ row = [p \in Parts |-> NoRow]
    /\ granted = TRUE
    /\ readable = TRUE
    /\ call = [c \in Callers |-> Idle]
    /\ worker = Idle
    /\ delivered = [p \in Parts |-> 0]
    /\ ledger = [p \in Parts |-> 0]
    /\ faults = 0
    /\ changes = 0

-----------------------------------------------------------------------------
(* Publication                                                             *)

\* _existing_event_receipt: the earlier receipt for an exact match of the
\* manifest, a conflict otherwise.
ExistingReceipt(k, v) ==
    [at |-> "done", key |-> k, content |-> v,
     receipt |-> IF event[k] = v THEN "deduplicated" ELSE "conflict"]

\* The preparation of _publish_once: a reader looks for the grant and for an
\* event with the same key; the manifest is prepared outside the writer.
PublishRead(c, k, v) ==
    /\ \/ call[c].at = "idle"
       \/ call[c].at = "again" /\ call[c].key = k /\ call[c].content = v
    /\ call' = [call EXCEPT ![c] =
           IF ~granted \/ ~readable
           THEN [at |-> "done", key |-> k, content |-> v, receipt |-> "refused"]
           ELSE IF event[k] # "none" THEN ExistingReceipt(k, v)
           ELSE [at |-> "prepared", key |-> k, content |-> v]]
    /\ UNCHANGED <<event, order, row, granted, readable, worker, delivered,
                   ledger, faults, changes>>

\* The writer of _publish_once checks everything again: the grant as it was
\* read, and the key, which another publisher may have taken since; the loser
\* goes back and reads the winner.  _ensure_outbox_part inserts the row in the
\* transaction of the event.
PublishCommit(c) ==
    LET k == call[c].key  v == call[c].content IN
    /\ call[c].at = "prepared"
    /\ \/ /\ ~granted \/ ~readable
          /\ call' = [call EXCEPT ![c] = [at |-> "done", key |-> k, content |-> v,
                                          receipt |-> "refused"]]
          /\ UNCHANGED <<event, order, row>>
       \/ /\ granted /\ readable /\ event[k] # "none"
          /\ call' = [call EXCEPT ![c].at = "again"]
          /\ UNCHANGED <<event, order, row>>
       \/ /\ granted /\ readable /\ event[k] = "none"
          /\ event' = [event EXCEPT ![k] = v]
          /\ order' = Append(order, k)
          /\ row' = [row EXCEPT ![<<k, 1>>] = [NoRow EXCEPT !.st = "pending"]]
          /\ call' = [call EXCEPT ![c] = [at |-> "done", key |-> k, content |-> v,
                                          receipt |-> "created"]]
    /\ UNCHANGED <<granted, readable, worker, delivered, ledger, faults, changes>>

\* The acknowledgement of a publication is lost: the plugin calls again.
PublishLost(c) ==
    /\ call[c].at = "done" /\ call[c].receipt = "created"
    /\ faults < MaxFaults
    /\ faults' = faults + 1
    /\ call' = [call EXCEPT ![c] = [at |-> "again", key |-> call[c].key,
                                    content |-> call[c].content]]
    /\ UNCHANGED <<event, order, row, granted, readable, worker, delivered,
                   ledger, changes>>

-----------------------------------------------------------------------------
(* The target's owner                                                      *)

\* revoke_target: the grant is disabled and every open row of the target is
\* cancelled, one that is being delivered at this moment included.
RevokeTarget ==
    /\ granted /\ changes < MaxChanges
    /\ changes' = changes + 1
    /\ granted' = FALSE
    /\ row' = [p \in Parts |-> IF row[p].st \in {"pending", "processing"}
                               THEN [row[p] EXCEPT !.st = "cancelled", !.lease = "none"]
                               ELSE row[p]]
    /\ UNCHANGED <<event, order, readable, call, worker, delivered, ledger, faults>>

\* grant_target: the grant is enabled again; cancelled rows stay cancelled.
GrantTarget ==
    /\ ~granted /\ changes < MaxChanges
    /\ changes' = changes + 1
    /\ granted' = TRUE
    /\ UNCHANGED <<event, order, row, readable, call, worker, delivered, ledger,
                   faults>>

\* A person is disabled, a conversation or a presence ends: from now on
\* require_queued_work_readable refuses.
OwnerEnds ==
    /\ readable /\ changes < MaxChanges
    /\ changes' = changes + 1
    /\ readable' = FALSE
    /\ UNCHANGED <<event, order, row, granted, call, worker, delivered, ledger,
                   faults>>

-----------------------------------------------------------------------------
(* Preparation                                                             *)

\* _prepare_pending with prepare_outbox, when there is nothing to claim: the
\* first row without a layout gets one, for the route its conversation has
\* now; a platform that needs several messages gets one row for each, copied
\* from the first.  A row whose route is not known yet keeps its turn.
PrepareOutbox(p, n, r) ==
    /\ worker.at = "idle" /\ n \in 1 .. MaxParts
    /\ p[2] = 1 /\ row[p].st = "pending" /\ row[p].route = "none"
    /\ row[p].due /\ readable
    /\ row' = [q \in Parts |->
           IF q[1] = p[1] /\ q[2] \in 1 .. n
           THEN [row[p] EXCEPT !.route = r] ELSE row[q]]
    /\ UNCHANGED <<event, order, granted, readable, call, worker, delivered,
                   ledger, faults, changes>>

\* fail_unclaimed_outbox: the source is gone, or the medium is invalid.
PrepareRefused(p) ==
    /\ worker.at = "idle"
    /\ p[2] = 1 /\ row[p].st = "pending" /\ row[p].route = "none" /\ row[p].due
    /\ row' = [row EXCEPT ![p].st = "failed", ![p].err = "permanent"]
    /\ UNCHANGED <<event, order, granted, readable, call, worker, delivered,
                   ledger, faults, changes>>

-----------------------------------------------------------------------------
(* The claim                                                               *)

Position(k) == CHOOSE i \in 1 .. Len(order) : order[i] = k

Before(p, q) ==
    \/ Position(p[1]) < Position(q[1])
    \/ p[1] = q[1] /\ p[2] < q[2]

MutExpired(r) ==
    [r EXCEPT !.st = IF r.event THEN "sent" ELSE "pending",
              !.err = IF r.event THEN "none" ELSE "lease", !.lease = "none"]

\* The verdict of claim_outbox on a row whose lease ran out: what has its
\* ledger event is sent, what never leaves the process may be tried again,
\* the rest may have been sent.
Expired(r) ==
    LET st == IF r.event THEN "sent"
              ELSE IF r.route = "local" THEN "pending" ELSE "uncertain" IN
    [r EXCEPT !.st = st, !.err = IF st = "sent" THEN "none" ELSE "lease",
              !.lease = "none"]

MutSwept == row

\* The rows after the expired leases are settled.
Swept ==
    [p \in Parts |-> IF row[p].st = "processing" /\ row[p].lease = "past"
                     THEN Expired(row[p]) ELSE row[p]]

Claimable(rows) ==
    {p \in Parts : rows[p].st = "pending" /\ rows[p].route # "none" /\ rows[p].due}

\* claim_outbox: one transaction settles the expired leases and takes the
\* oldest part.  A part whose owners are gone is failed on the spot.
ClaimOutbox ==
    /\ worker.at = "idle"
    /\ \/ Swept # row /\ Claimable(Swept) = {} /\ row' = Swept
          /\ UNCHANGED worker
       \/ \E p \in Claimable(Swept) :
            /\ \A q \in Claimable(Swept) \ {p} : Before(p, q)
            /\ LET n == Swept[p].attempts + 1 IN
               IF readable
               THEN /\ row' = [Swept EXCEPT ![p].st = "processing", ![p].attempts = n,
                                            ![p].lease = "live"]
                    /\ worker' = [at |-> "claimed", part |-> p, attempt |-> n]
               ELSE /\ row' = [Swept EXCEPT ![p].st = "failed", ![p].attempts = n,
                                            ![p].err = "permanent"]
                    /\ UNCHANGED worker
    /\ UNCHANGED <<event, order, granted, readable, call, delivered, ledger,
                   faults, changes>>

\* The clock: a lease of 300 seconds runs out.  While the worker is still busy
\* with the part this is one of the bounded faults.
Held(p) == worker.at # "idle" /\ worker.part = p

LeasePasses(p) ==
    /\ row[p].lease = "live"
    /\ Held(p) => faults < MaxFaults
    /\ faults' = IF Held(p) THEN faults + 1 ELSE faults
    /\ row' = [row EXCEPT ![p].lease = "past"]
    /\ UNCHANGED <<event, order, granted, readable, call, worker, delivered,
                   ledger, changes>>

\* The clock: a delayed attempt is due.
BecomesDue(p) ==
    /\ row[p].st = "pending" /\ ~row[p].due
    /\ row' = [row EXCEPT ![p].due = TRUE]
    /\ UNCHANGED <<event, order, granted, readable, call, worker, delivered,
                   ledger, faults, changes>>

-----------------------------------------------------------------------------
(* Settlement of a claimed attempt                                         *)

MutOwns(r, n) == r.attempts = n

\* _owns_processing_attempt
Owns(r, n) == r.st = "processing" /\ r.attempts = n

\* finish_outbox: by the attempt that owns the row; a row already quarantined
\* still takes the late receipt of its own attempt.
FinishOutbox(r, n, st, message, err) ==
    IF \/ Owns(r, n)
       \/ /\ r.attempts = n /\ r.st = "uncertain" /\ st \in {"sent", "uncertain"}
          /\ r.message => message
    THEN [r EXCEPT !.st = st, !.message = message, !.err = err, !.lease = "none"]
    ELSE r

SafeErrors == {"gateway"}

\* retry_outbox of an attempt: only for a failure that is known to precede
\* the send, with a delay, and at most max_attempts times.
RetryOutbox(r, n, err) ==
    IF Owns(r, n) /\ ~r.message /\ err \in SafeErrors
    THEN [r EXCEPT !.st = IF r.attempts >= MaxAttempts THEN "failed" ELSE "pending",
                   !.due = r.attempts >= MaxAttempts, !.err = err, !.lease = "none"]
    ELSE r

\* retry_outbox without an attempt, the operator's POST /plugin-outbox/{id}/retry:
\* when it accepts a row.
OperatorMayRetry(r) ==
    /\ r.st = "failed" /\ r.err \in SafeErrors
    /\ ~r.message /\ r.attempts < MaxAttempts

\* recover_local_outbox: the row of a local delivery that did not commit goes
\* back to the queue.
RecoverLocal(r, n) ==
    IF r.st # "sent" /\ ~r.event /\ Owns(r, n) /\ r.route = "local"
    THEN [r EXCEPT !.st = "pending", !.lease = "none", !.err = "local"] ELSE r

-----------------------------------------------------------------------------
(* Delivery                                                                *)

At(pc) == worker.at = pc

Settles(p, r) ==
    /\ row' = [row EXCEPT ![p] = r]
    /\ worker' = Idle

\* _deliver, its first transaction: require_outbox_ready renews the lease of
\* the exact attempt.
OutboxReady ==
    LET p == worker.part  n == worker.attempt IN
    /\ At("claimed")
    /\ \/ /\ ~Owns(row[p], n)
          /\ worker' = Idle /\ UNCHANGED row
       \/ /\ Owns(row[p], n) /\ ~readable
          /\ Settles(p, FinishOutbox(row[p], n, "failed", FALSE, "permanent"))
       \/ /\ Owns(row[p], n) /\ readable
          /\ row' = [row EXCEPT ![p].lease = "live"]
          /\ worker' = [worker EXCEPT !.at = "ready"]
    /\ UNCHANGED <<event, order, granted, readable, call, delivered, ledger,
                   faults, changes>>

\* _deliver reads the grant before it goes on.
CheckGrant ==
    LET p == worker.part  n == worker.attempt IN
    /\ At("ready")
    /\ \/ /\ granted
          /\ worker' = [worker EXCEPT !.at = "granted"] /\ UNCHANGED row
       \/ /\ ~granted
          /\ Settles(p, FinishOutbox(row[p], n, "cancelled", FALSE, "revoked"))
    /\ UNCHANGED <<event, order, granted, readable, call, delivered, ledger,
                   faults, changes>>

\* _deliver_ready up to the transport's answer, and what the worker then knows:
\* the message was taken ("taken"), nothing was sent because the gateway is
\* away ("away") or because the platform, the route or the medium refuses
\* ("refused"), or the outcome is not known ("unknown"), whether or not the
\* platform took it.  A local route has nothing to send: it is resolved
\* ("taken") or refused; the categories of resolve() are not the retryable ones.
Transport(answer, took) ==
    LET p == worker.part IN
    /\ At("granted")
    /\ IF row[p].route = "local"
       THEN answer \in {"taken", "refused"} /\ ~took
       ELSE /\ answer = "taken" => took
            /\ answer \in {"away", "refused"} => ~took
    /\ worker' = [worker EXCEPT !.at = answer]
    /\ delivered' = [delivered EXCEPT ![p] = @ + IF took THEN 1 ELSE 0]
    /\ UNCHANGED <<event, order, row, granted, readable, call, ledger, faults,
                   changes>>

\* The except branches of _deliver_ready.
SendFailed ==
    LET p == worker.part  n == worker.attempt  r == row[p] IN
    /\ \/ At("away") /\ Settles(p, RetryOutbox(r, n, "gateway"))
       \/ At("refused") /\ Settles(p, FinishOutbox(r, n, "failed", FALSE, "permanent"))
       \/ At("unknown") /\ Settles(p, FinishOutbox(r, n, "uncertain", FALSE, "unknown"))
    /\ UNCHANGED <<event, order, granted, readable, call, delivered, ledger,
                   faults, changes>>

\* settle_local_outbox: the attempt under its live lease.
SettleLocal(r, n) == Owns(r, n) /\ r.lease = "live"

\* The transaction of _record_outbound: the outbox row becomes "sent" and the
\* ledger gets its event, or neither.  A local delivery whose owners or grant
\* are gone rolls back.
Recordable(p, n) ==
    IF row[p].route = "local"
    THEN SettleLocal(row[p], n) /\ readable /\ granted
    ELSE FinishOutbox(row[p], n, "sent", TRUE, "none").st = "sent"

Recorded(p) ==
    /\ row' = [row EXCEPT ![p].st = "sent", ![p].event = TRUE, ![p].err = "none",
                          ![p].message = row[p].route # "local",
                          ![p].lease = "none"]
    /\ ledger' = [ledger EXCEPT ![p] = @ + 1]

\* _record_outbound.
RecordOutbound ==
    LET p == worker.part  n == worker.attempt IN
    /\ At("taken")
    /\ \/ /\ Recordable(p, n)
          /\ Recorded(p)
          /\ worker' = Idle
       \/ /\ ~Recordable(p, n) /\ row[p].route # "local"
          /\ worker' = Idle
          /\ UNCHANGED <<row, ledger>>
       \/ /\ ~Recordable(p, n) /\ row[p].route = "local"
          /\ worker' = [worker EXCEPT !.at = "unrecorded"]
          /\ UNCHANGED <<row, ledger>>
    /\ UNCHANGED <<event, order, granted, readable, call, delivered, faults, changes>>

\* The transaction of _record_outbound raises: it was rolled back, or only its
\* acknowledgement was lost.
RecordRaises(committed) ==
    LET p == worker.part  n == worker.attempt IN
    /\ At("taken") /\ faults < MaxFaults
    /\ faults' = faults + 1
    /\ IF committed THEN Recordable(p, n) /\ Recorded(p) ELSE UNCHANGED <<row, ledger>>
    /\ worker' = [worker EXCEPT !.at = "unrecorded"]
    /\ UNCHANGED <<event, order, granted, readable, call, delivered, changes>>

\* What _deliver_ready does when the record is missing: a local part is
\* reconciled with the original transaction and queued again, a sent one is
\* quarantined with its message id.
AfterRecord ==
    LET p == worker.part  n == worker.attempt  r == row[p] IN
    /\ At("unrecorded")
    /\ Settles(p, IF r.route = "local" THEN RecoverLocal(r, n)
                  ELSE FinishOutbox(r, n, "uncertain", TRUE, "unrecorded"))
    /\ UNCHANGED <<event, order, granted, readable, call, delivered, ledger,
                   faults, changes>>

-----------------------------------------------------------------------------
(* Failures                                                                *)

\* A write of the worker fails (recover_database_loop starts the loop over) or
\* the process dies: what the worker and the callers held in memory is gone,
\* the claimed row stays as it is until its lease runs out.
WorkerLost ==
    /\ ~At("idle") /\ faults < MaxFaults
    /\ faults' = faults + 1
    /\ worker' = Idle
    /\ UNCHANGED <<event, order, row, granted, readable, call, delivered, ledger,
                   changes>>

-----------------------------------------------------------------------------
Deliver == OutboxReady \/ CheckGrant \/ SendFailed \/ RecordOutbound \/ AfterRecord

Next ==
    \/ \E c \in Callers, k \in Keys, v \in Contents : PublishRead(c, k, v)
    \/ \E c \in Callers : PublishCommit(c) \/ PublishLost(c)
    \/ RevokeTarget \/ GrantTarget \/ OwnerEnds
    \/ \E p \in Parts, n \in 1 .. MaxParts, r \in {"local", "platform"} :
          PrepareOutbox(p, n, r)
    \/ \E p \in Parts : PrepareRefused(p) \/ LeasePasses(p) \/ BecomesDue(p)
    \/ ClaimOutbox
    \/ Deliver
    \/ \E answer \in {"taken", "away", "refused", "unknown"}, took \in BOOLEAN :
          Transport(answer, took)
    \/ \E committed \in BOOLEAN : RecordRaises(committed)
    \/ WorkerLost

\* The loop of the worker runs while the process does; the clock advances.
\* A publication that entered the writer ends.  The route of a conversation is
\* found again and again (the loop asks once a second), so that a row gets its
\* layout; nothing is assumed of the platform's answers.
Fairness ==
    /\ WF_vars(ClaimOutbox) /\ WF_vars(Deliver)
    /\ WF_vars(\E answer \in {"taken", "away", "refused", "unknown"},
                  took \in BOOLEAN : Transport(answer, took))
    /\ \A p \in Parts : WF_vars(LeasePasses(p)) /\ WF_vars(BecomesDue(p))
    /\ \A p \in Parts :
          SF_vars(\E n \in 1 .. MaxParts, r \in {"local", "platform"} :
                     PrepareOutbox(p, n, r) \/ PrepareRefused(p))
    /\ \A c \in Callers : WF_vars(PublishCommit(c))

Spec == Init /\ [][Next]_vars

FairSpec == Spec /\ Fairness

-----------------------------------------------------------------------------
(* Properties                                                              *)

\* The types of the state: rows exist exactly for the published keys, attempts
\* stay within max_attempts for parts that leave the process, and a lease is
\* held exactly by a row in processing.
TypeOK ==
    /\ event \in [Keys -> Contents \cup {"none"}]
    /\ ToSet(order) = {k \in Keys : event[k] # "none"}
    /\ \A k \in Keys : row[<<k, 1>>].st = "absent" <=> event[k] = "none"
    /\ \A p \in Parts :
          /\ row[p].st \in {"absent", "pending", "processing"} \cup Terminal
          /\ row[p].lease # "none" <=> row[p].st = "processing"
          /\ row[p].route = "platform" => row[p].attempts <= MaxAttempts
    /\ granted \in BOOLEAN /\ readable \in BOOLEAN
    /\ faults \in 0 .. MaxFaults /\ changes \in 0 .. MaxChanges

\* notifications.publish is idempotent per event key: of all calls, repeated
\* and concurrent ones included, at most one creates the event, and every
\* receipt of success is for the content that was published.
ReceiptsAgree ==
    /\ \A c, d \in Callers :
          (/\ c # d /\ call[c].at = "done" /\ call[d].at = "done"
           /\ call[c].key = call[d].key)
          => ~(call[c].receipt = "created" /\ call[d].receipt = "created")
    /\ \A c \in Callers :
          (call[c].at = "done" /\ call[c].receipt \in {"created", "deduplicated"})
          => event[call[c].key] = call[c].content

\* No part is delivered twice: through failed sends with an unknown outcome,
\* retries, expired leases, lost acknowledgements and restarts the platform is
\* given each physical part at most once.
DeliveredOnce == \A p \in Parts : delivered[p] <= 1

\* What the platform may have taken is never queued again: a row that waits
\* for an attempt, or that failed, was not delivered.
QueuedIsUnsent ==
    \A p \in Parts : row[p].st \in {"pending", "failed"} => delivered[p] = 0

\* The ledger tells the truth: a part has exactly one outbound event when it
\* is "sent" and none otherwise, and what is "sent" over a platform was taken
\* by it.
LedgerMatchesSent ==
    \A p \in Parts :
        /\ ledger[p] = IF row[p].st = "sent" THEN 1 ELSE 0
        /\ (row[p].st = "sent" /\ row[p].route = "platform") => delivered[p] = 1

\* A settled row is left alone: sent, failed and cancelled rows keep their
\* status whatever late worker, revocation or restart follows, and an uncertain
\* row can only become sent.
Settling ==
    \A p \in Parts :
        /\ row[p].st \in {"sent", "failed", "cancelled"} => row'[p].st = row[p].st
        /\ row[p].st = "uncertain" => row'[p].st \in {"uncertain", "sent"}
EndsAreFinal == [][Settling]_vars

\* What the outbox, its ledger and the receipts of publishers say is what happened.
OutboxIsTrue ==
    TypeOK /\ ReceiptsAgree /\ DeliveredOnce /\ QueuedIsUnsent /\ LedgerMatchesSent

\* Every published part is settled: the worker goes on past failed sends,
\* expired leases and failed writes of other parts.
PartsSettle ==
    \A p \in Parts :
        row[p].st \in {"pending", "processing"} ~> row[p].st \in Terminal

\* The operator can queue a part again that failed before it was sent, as the
\* command POST /plugin-outbox/{id}/retry offers.
FailedCanBeRetried ==
    \A p \in Parts :
        (row[p].st = "failed" /\ row[p].err \in SafeErrors) => OperatorMayRetry(row[p])
=============================================================================
