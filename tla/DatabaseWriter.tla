--------------------------- MODULE DatabaseWriter ---------------------------
(***************************************************************************)
(* The single SQLite writer of persistence/database.py: immediate_session  *)
(* with every cleanup path it has, the driver whose worker thread outlives *)
(* a cancelled await (persistence/sqlite_connection.py), the verdict a     *)
(* caller reads from the exception it gets (write_failure_...), the retry  *)
(* of work_session.py that trusts it, and the wake-up hints of             *)
(* persistence/commit_hints.py with the client stream that waits on them.  *)
(*                                                                         *)
(* Every driver or session call runs under _complete: a cancellation that  *)
(* arrives meanwhile is remembered (`asked') and the call still finishes.  *)
(* Only BEGIN IMMEDIATE and the caller's own statements are interrupted.   *)
(***************************************************************************)
EXTENDS Naturals, Sequences, FiniteSets

CONSTANTS Writers,       \* callers, each with one logical write to apply
          Streams,       \* client streams subscribed to the commit hints
          QueueLimit,    \* capacity of a hint queue (64 in the code)
          Closer,        \* the task that calls Database.close
          None

CloserAssumption == Closer \notin Writers /\ None \notin Writers \cup {Closer}
LimitAssumption == QueueLimit \in Nat \ {0}

VARIABLES
  lock,           \* holder of Database._writer, or None
  queue,          \* tasks waiting for it, first come first served
  writerFailure,  \* Database._writer_failure is set
  closed,         \* Database._closed
  w,              \* [Writers -> the frame of its immediate_session]
  open,           \* writers whose connection holds a transaction in SQLite
  applied,        \* [Writers -> durable commits of its logical write]
  confirmed,      \* commits the writer published a hint for
  hints,          \* [Streams -> the queue of hints: TRUE wakes, FALSE disconnects]
  stream          \* [Streams -> the state of the client stream]

vars == <<lock, queue, writerFailure, closed, w, open, applied, confirmed, hints, stream>>

Kinds == {"busy", "error"}          \* SQLITE_BUSY, any other driver error
Phases == {"begin", "execute", "flush", "commit"}
Inside == {"connect", "begin", "execute", "flush", "commit",
           "rollback", "invalidate", "close", "exit", "leave"}

\* The points at which the task awaits a shielded call.
Shielded == {"connect", "flush", "commit", "rollback", "invalidate", "close", "exit"}

\* The exception that left the session: its kind, the first phase note and the other notes.
Errors == [kind : Kinds \cup {"cancel", "unavailable"},
           phase : Phases \cup {None},
           notes : SUBSET {"rollback", "commit"}]

\* None is no exception and no place.
NoneAssumption == None \notin Kinds \cup Phases \cup {"cancel", "same", "other"} \cup Errors

Frame == [pc : {"idle", "waiting", "done"} \cup Inside,
          phase : Phases,
          asked : BOOLEAN,                            \* cancellation inside _complete
          failure : Kinds \cup {"cancel", None},      \* the exception of the try block
          rolled : BOOLEAN,                           \* it carries database_rollback:confirmed
          cancellation : {None, "same", "other"},     \* same object as failure, or another one
          committed : BOOLEAN,
          closeFailed : BOOLEAN,
          driver : {"none", "live", "stopping", "exited"},
          raised : Errors \cup {None}]

NewFrame == [pc |-> "idle", phase |-> "begin", asked |-> FALSE, failure |-> None,
             rolled |-> FALSE, cancellation |-> None, committed |-> FALSE,
             closeFailed |-> FALSE, driver |-> "none", raised |-> None]

TypeOK ==
  /\ lock \in Writers \cup {Closer, None}
  /\ queue \in Seq(Writers \cup {Closer})
  /\ writerFailure \in BOOLEAN
  /\ closed \in BOOLEAN
  /\ w \in [Writers -> Frame]
  /\ open \in SUBSET Writers
  /\ applied \in [Writers -> Nat]
  /\ confirmed \in Nat
  /\ hints \in [Streams -> Seq(BOOLEAN)]
  /\ \A s \in Streams : Len(hints[s]) <= QueueLimit
  /\ stream \in [Streams -> [pc : {"sync", "wait", "gone"}, seen : Nat, subscribed : BOOLEAN]]

Init ==
  /\ lock = None
  /\ queue = <<>>
  /\ writerFailure = FALSE
  /\ closed = FALSE
  /\ w = [t \in Writers |-> NewFrame]
  /\ open = {}
  /\ applied = [t \in Writers |-> 0]
  /\ confirmed = 0
  /\ hints = [s \in Streams |-> <<>>]
  /\ stream = [s \in Streams |-> [pc |-> "sync", seen |-> 0, subscribed |-> TRUE]]

-----------------------------------------------------------------------------
(* What a caller reads from the exception.                                 *)

\* Mutant: the phase of the failure is not looked at.
VerdictIgnoresPhase(e) ==
  IF "commit" \in e.notes THEN "yes"
  ELSE IF "rollback" \in e.notes THEN "no" ELSE "unknown"

write_failure_committed(e) ==
  IF "commit" \in e.notes THEN "yes"
  ELSE IF e.phase \in {"begin", "execute", "flush"} /\ "rollback" \in e.notes THEN "no"
  ELSE "unknown"

write_failure_retryable(e) ==
  e.kind = "busy" /\ write_failure_committed(e) = "no"

-----------------------------------------------------------------------------
(* Admission: the lock is taken before any connection is checked out.      *)

Go(t, f) == w' = [w EXCEPT ![t] = f]

Enter(t) ==
  /\ w[t].pc = "idle"
  /\ Go(t, [w[t] EXCEPT !.pc = "waiting"])
  /\ queue' = Append(queue, t)
  /\ UNCHANGED <<lock, writerFailure, closed, open, applied, confirmed, hints, stream>>

writer_available == ~closed /\ ~writerFailure

Admit(t) ==
  /\ lock = None /\ queue # <<>> /\ Head(queue) = t /\ t \in Writers
  /\ queue' = Tail(queue)
  /\ IF writer_available
       THEN /\ lock' = t
            /\ Go(t, [NewFrame EXCEPT !.pc = "connect"])
       ELSE /\ lock' = lock            \* raised inside the lock, which is released at once
            /\ Go(t, [NewFrame EXCEPT !.pc = "done",
                        !.raised = [kind |-> "unavailable", phase |-> None, notes |-> {}]])
  /\ UNCHANGED <<writerFailure, closed, open, applied, confirmed, hints, stream>>

-----------------------------------------------------------------------------
(* Cancellation of the task by its owner.                                  *)

\* The except clause of the try block: the frame once `kind' has been raised.
Raised(f, kind) ==
  [f EXCEPT !.failure = kind, !.asked = FALSE, !.pc = "rollback",
            !.cancellation = IF kind = "cancel" THEN "same" ELSE @]

CancelShielded(t) ==
  /\ w[t].pc \in Shielded
  /\ w[t].pc = "exit" =>           \* only a physical close is awaited there
       w[t].driver = "stopping" \/ (w[t].driver = "live" /\ w[t].closeFailed)
  /\ ~w[t].asked
  /\ Go(t, [w[t] EXCEPT !.asked = TRUE])
  /\ UNCHANGED <<lock, queue, writerFailure, closed, open, applied, confirmed, hints, stream>>

CancelWaiting(t) ==
  /\ w[t].pc = "waiting"
  /\ \E i \in 1..Len(queue) :
       /\ queue[i] = t
       /\ queue' = SubSeq(queue, 1, i - 1) \o SubSeq(queue, i + 1, Len(queue))
  /\ Go(t, [w[t] EXCEPT !.pc = "done",
              !.raised = [kind |-> "cancel", phase |-> None, notes |-> {}]])
  /\ UNCHANGED <<lock, writerFailure, closed, open, applied, confirmed, hints, stream>>

\* The await is interrupted, the statement is not: the driver's thread may have run BEGIN
\* or not, and SQLAlchemy may have force-terminated the connection, whose physical close
\* is then still to come.
CancelStatement(t) ==
  /\ w[t].pc \in {"begin", "execute"}
  /\ \E d \in {"live", "stopping"} : Go(t, Raised([w[t] EXCEPT !.driver = d], "cancel"))
  /\ open' \in IF w[t].pc = "begin" THEN {open, open \cup {t}} ELSE {open}
  /\ UNCHANGED <<lock, queue, writerFailure, closed, applied, confirmed, hints, stream>>

-----------------------------------------------------------------------------
(* The try block.                                                          *)

\* What a shielded call that ends in error raises: the remembered cancellation, from it.
Surfaced(t, kind) == IF w[t].asked THEN "cancel" ELSE kind

\* _connect_sqlite stops the half-opened driver, which may itself fail.
ConnectSqliteFails == writerFailure' \in {writerFailure, TRUE}

Connect(t) ==
  /\ w[t].pc = "connect"
  /\ \/ /\ Go(t, IF w[t].asked
                   THEN Raised([w[t] EXCEPT !.driver = "live"], "cancel")
                   ELSE [w[t] EXCEPT !.driver = "live", !.pc = "begin"])
        /\ UNCHANGED writerFailure
     \/ /\ \E kind \in Kinds : Go(t, Raised(w[t], Surfaced(t, kind)))
        /\ ConnectSqliteFails
  /\ UNCHANGED <<lock, queue, closed, open, applied, confirmed, hints, stream>>

BeginImmediate(t) ==
  /\ w[t].pc = "begin"
  /\ \/ /\ Go(t, [w[t] EXCEPT !.pc = "execute", !.phase = "execute"])
        /\ open' = open \cup {t}
     \/ /\ \E kind \in Kinds : Go(t, Raised(w[t], kind))
        /\ UNCHANGED open
  /\ UNCHANGED <<lock, queue, writerFailure, closed, applied, confirmed, hints, stream>>

\* The caller's statements: they end, or one of them raises.
Execute(t) ==
  /\ w[t].pc = "execute"
  /\ \/ Go(t, [w[t] EXCEPT !.pc = "flush", !.phase = "flush"])
     \/ \E kind \in Kinds : Go(t, Raised(w[t], kind))
  /\ UNCHANGED <<lock, queue, writerFailure, closed, open, applied, confirmed, hints, stream>>

Flush(t) ==
  /\ w[t].pc = "flush"
  /\ \/ Go(t, IF w[t].asked THEN Raised(w[t], "cancel")
                            ELSE [w[t] EXCEPT !.pc = "commit", !.phase = "commit"])
     \/ \E kind \in Kinds : Go(t, Raised(w[t], Surfaced(t, kind)))
  /\ UNCHANGED <<lock, queue, writerFailure, closed, open, applied, confirmed, hints, stream>>

Durable(t) == applied' = [applied EXCEPT ![t] = @ + 1]

\* An error of COMMIT does not say whether SQLite made the transaction durable.
Commit(t) ==
  /\ w[t].pc = "commit"
  /\ \/ /\ Go(t, [w[t] EXCEPT !.pc = "close", !.committed = TRUE, !.asked = FALSE,
                     !.cancellation = IF w[t].asked THEN "other" ELSE None])
        /\ Durable(t)
        /\ open' = open \ {t}
     \/ /\ \E kind \in Kinds : Go(t, Raised(w[t], Surfaced(t, kind)))
        /\ \/ Durable(t) /\ open' = open \ {t}
           \/ UNCHANGED <<applied, open>>
  /\ UNCHANGED <<lock, queue, writerFailure, closed, confirmed, hints, stream>>

-----------------------------------------------------------------------------
(* Cleanup. Each call may succeed or fail; a cancellation remembered by a  *)
(* call that succeeds is kept, one remembered by a failing call is part of *)
(* the cleanup error and goes with it.                                     *)

Remember(f) ==
  [f EXCEPT !.asked = FALSE,
            !.cancellation = IF f.asked /\ @ = None THEN "other" ELSE @]

Rollback(t) ==
  /\ w[t].pc = "rollback"
  /\ \/ /\ Go(t, [Remember(w[t]) EXCEPT !.pc = "close", !.rolled = TRUE])
        \* on a connection already given up the session has nothing left to roll back
        /\ open' = IF w[t].driver = "live" THEN open \ {t} ELSE open
     \/ /\ Go(t, [w[t] EXCEPT !.pc = "invalidate", !.asked = FALSE])
        /\ open' \in {open, open \ {t}}
  /\ UNCHANGED <<lock, queue, writerFailure, closed, applied, confirmed, hints, stream>>

Stopped(f) == [f EXCEPT !.driver = IF @ = "live" THEN "stopping" ELSE @]

Invalidate(t) ==
  /\ w[t].pc = "invalidate"
  /\ \/ Go(t, [Stopped(Remember(w[t])) EXCEPT !.pc = "close"])
     \/ Go(t, [w[t] EXCEPT !.pc = "close", !.asked = FALSE])
  /\ UNCHANGED <<lock, queue, writerFailure, closed, open, applied, confirmed, hints, stream>>

\* Returning a connection to the pool resets it; a reset that fails terminates it.
Close(t) ==
  /\ w[t].pc = "close"
  /\ \/ /\ Go(t, [Remember(w[t]) EXCEPT !.pc = "exit"])
        /\ open' = IF w[t].driver = "live" THEN open \ {t} ELSE open
     \/ /\ Go(t, [Stopped(Remember(w[t])) EXCEPT !.pc = "exit"])
        /\ UNCHANGED open
     \/ /\ Go(t, [w[t] EXCEPT !.pc = "exit", !.closeFailed = TRUE, !.asked = FALSE])
        /\ UNCHANGED open
  /\ UNCHANGED <<lock, queue, writerFailure, closed, applied, confirmed, hints, stream>>

\* Mutant: the owner does not wait for a close requested by the pool.
PhysicalExitUnawaited(t) ==
  /\ w[t].pc = "exit"
  /\ Go(t, [w[t] EXCEPT !.pc = "leave"])
  /\ UNCHANGED <<lock, queue, writerFailure, closed, open, applied, confirmed, hints, stream>>

\* The owner waits for the physical close the driver was asked for, by itself or by the
\* pool. Closing the file ends an open transaction; it confirms the rollback of a write
\* that never reached COMMIT. A close that fails ends all admission.
PhysicalExit(t) ==
  LET f == IF w[t].closeFailed THEN Stopped(w[t]) ELSE w[t] IN
  /\ w[t].pc = "exit"
  /\ \/ /\ f.driver = "stopping"
        /\ Go(t, [Remember(f) EXCEPT !.pc = "leave", !.driver = "exited",
                    !.rolled = @ \/ (f.failure # None /\ f.phase # "commit")])
        /\ open' = open \ {t}
        /\ UNCHANGED writerFailure
     \/ /\ f.driver = "stopping" \/ (f.driver = "none" /\ f.closeFailed)
        /\ Go(t, [f EXCEPT !.pc = "leave", !.asked = FALSE])
        /\ writerFailure' = TRUE
        /\ UNCHANGED open
     \/ /\ f.driver = "live" \/ (f.driver = "none" /\ ~f.closeFailed)
        /\ Go(t, [f EXCEPT !.pc = "leave"])
        /\ UNCHANGED <<writerFailure, open>>
  /\ UNCHANGED <<lock, queue, closed, applied, confirmed, hints, stream>>

-----------------------------------------------------------------------------
(* After the owner is released: hints and the exception, in one step.      *)

\* CommitHints.publish: a full queue is emptied, told FALSE and unsubscribed.
publish ==
  /\ hints' = [s \in Streams |->
       IF ~stream[s].subscribed THEN hints[s]
       ELSE IF Len(hints[s]) = QueueLimit THEN <<FALSE>> ELSE Append(hints[s], TRUE)]
  /\ stream' = [s \in Streams |->
       [stream[s] EXCEPT !.subscribed = @ /\ Len(hints[s]) < QueueLimit]]

Leaves(f) ==
  IF f.cancellation # None
    THEN [kind |-> "cancel", phase |-> f.phase,
          notes |-> (IF f.cancellation = "same" /\ f.rolled THEN {"rollback"} ELSE {})
                    \cup (IF f.committed THEN {"commit"} ELSE {})]
    ELSE IF f.failure # None
      THEN [kind |-> f.failure, phase |-> f.phase,
            notes |-> IF f.rolled THEN {"rollback"} ELSE {}]
      ELSE None

Leave(t) ==
  /\ w[t].pc = "leave"
  /\ lock' = None
  /\ Go(t, [NewFrame EXCEPT !.pc = "done", !.raised = Leaves(w[t])])
  /\ IF w[t].committed
       THEN /\ confirmed' = confirmed + 1
            /\ publish
       ELSE UNCHANGED <<confirmed, hints, stream>>
  /\ UNCHANGED <<queue, writerFailure, closed, open, applied>>

\* WorkSession._save: the same publication again, when the verdict allows it.
Retry(t) ==
  /\ w[t].pc = "done" /\ w[t].raised # None
  /\ write_failure_retryable(w[t].raised)
  /\ Go(t, NewFrame)
  /\ UNCHANGED <<lock, queue, writerFailure, closed, open, applied, confirmed, hints, stream>>

-----------------------------------------------------------------------------
(* Readers and shutdown.                                                   *)

\* read_session never takes the lock; of the writer's state it can only touch the failure,
\* when the driver it gave up cannot be closed.
ReadSession ==
  /\ ~writerFailure
  /\ writerFailure' = TRUE
  /\ UNCHANGED <<lock, queue, closed, w, open, applied, confirmed, hints, stream>>

CloseRequest ==
  /\ ~closed /\ lock # Closer /\ ~(\E i \in 1..Len(queue) : queue[i] = Closer)
  /\ queue' = Append(queue, Closer)
  /\ UNCHANGED <<lock, writerFailure, closed, w, open, applied, confirmed, hints, stream>>

CloseAdmit ==
  /\ lock = None /\ queue # <<>> /\ Head(queue) = Closer
  /\ queue' = Tail(queue)
  /\ lock' = Closer
  /\ closed' = TRUE
  /\ UNCHANGED <<writerFailure, w, open, applied, confirmed, hints, stream>>

CloseDispose ==
  /\ lock = Closer
  /\ lock' = None
  /\ UNCHANGED <<queue, writerFailure, closed, w, open, applied, confirmed, hints, stream>>

-----------------------------------------------------------------------------
(* The client stream: subscribe, read a snapshot, wait for a hint, drain.  *)

\* The snapshot shows every commit made so far, confirmed or not.
StreamSync(s) ==
  /\ stream[s].pc = "sync"
  /\ stream' = [stream EXCEPT ![s].pc = "wait", ![s].seen = confirmed]
  /\ UNCHANGED <<lock, queue, writerFailure, closed, w, open, applied, confirmed, hints>>

\* One hint is awaited, the rest is drained; FALSE anywhere ends the stream, and the
\* client reconnects with a new subscription.
StreamHint(s) ==
  /\ stream[s].pc = "wait" /\ hints[s] # <<>>
  /\ hints' = [hints EXCEPT ![s] = <<>>]
  /\ stream' = [stream EXCEPT
       ![s].pc = IF \E i \in 1..Len(hints[s]) : ~hints[s][i] THEN "gone" ELSE "sync"]
  /\ UNCHANGED <<lock, queue, writerFailure, closed, w, open, applied, confirmed>>

StreamReconnect(s) ==
  /\ stream[s].pc = "gone"
  /\ hints' = [hints EXCEPT ![s] = <<>>]
  /\ stream' = [stream EXCEPT ![s].pc = "sync", ![s].subscribed = TRUE]
  /\ UNCHANGED <<lock, queue, writerFailure, closed, w, open, applied, confirmed>>

-----------------------------------------------------------------------------
Session(t) ==
  \/ Connect(t) \/ BeginImmediate(t) \/ Execute(t) \/ Flush(t) \/ Commit(t)
  \/ Rollback(t) \/ Invalidate(t) \/ Close(t) \/ PhysicalExit(t) \/ Leave(t)

Cancel(t) == CancelShielded(t) \/ CancelWaiting(t) \/ CancelStatement(t)

Next ==
  \/ \E t \in Writers : Enter(t) \/ Admit(t) \/ Session(t) \/ Cancel(t) \/ Retry(t)
  \/ ReadSession \/ CloseRequest \/ CloseAdmit \/ CloseDispose
  \/ \E s \in Streams : StreamSync(s) \/ StreamHint(s) \/ StreamReconnect(s)

Spec == Init /\ [][Next]_vars

\* A driver call ends, with a result or an error; a body of statements ends; asyncio.Lock
\* serves its waiters in order.
Fairness ==
  /\ \A t \in Writers : WF_vars(Session(t)) /\ WF_vars(Admit(t))
  /\ WF_vars(CloseAdmit) /\ WF_vars(CloseDispose)

FairSpec == Spec /\ Fairness

-----------------------------------------------------------------------------
(* Properties.                                                             *)

Done(t) == w[t].pc = "done"

\* immediate_session and write_failure_committed never lie: a session that returns normally
\* is durable, an exception that reads as committed belongs to a durable transaction and one
\* that reads as rolled back to a transaction that left nothing, whatever the cancellations
\* and cleanup errors on the way.
VerdictTrue ==
  \A t \in Writers : Done(t) =>
    /\ w[t].raised = None => applied[t] = 1
    /\ w[t].raised # None =>
         /\ write_failure_committed(w[t].raised) = "yes" => applied[t] = 1
         /\ write_failure_committed(w[t].raised) = "no" => applied[t] = 0

\* A caller that repeats its write while write_failure_retryable allows it (the journal of
\* work_session.py) never applies it twice, an error of COMMIT shaped like SQLITE_BUSY included.
RetriedOnce == \A t \in Writers : applied[t] <= 1

\* The writer lock is released only after the actual exit of the transaction: a transaction
\* without its owner is left in SQLite only where admission has ended for good.
NoOpenWithoutOwner == \A t \in open : lock = t \/ writerFailure

\* Two connections never hold a write transaction at once.
OneTransaction == Cardinality(open) <= 1

\* A commit that was confirmed is never lost to a client stream: one that waits with an
\* empty queue has read a snapshot that includes every confirmed commit, even when the
\* committing task was cancelled or the queue overflowed.
StreamNotStale ==
  \A s \in Streams :
    (stream[s].pc = "wait" /\ hints[s] = <<>>) => stream[s].seen = confirmed

\* What the writer tells is true: the verdict on an exception, the retry that trusts it, and
\* the hints a client stream waits for.
WriterTellsTruth == TypeOK /\ VerdictTrue /\ RetriedOnce /\ StreamNotStale

\* SQLite has one writer, which the lock names while admission goes on.
SingleWriter == NoOpenWithoutOwner /\ OneTransaction

\* A caller that waits for the writer gets an answer: no cleanup path keeps the lock.
WriterAnswers == \A t \in Writers : (w[t].pc = "waiting") ~> Done(t)
=============================================================================
