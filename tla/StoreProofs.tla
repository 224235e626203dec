----------------------------- MODULE StoreProofs -----------------------------
(***************************************************************************)
(* Proofs about what a Work keeps in SQLite, for every value of the        *)
(* constants: DatabaseWriter, WorkJournal and WorkWait, and about their    *)
(* sum MCStore.                                                            *)
(*                                                                         *)
(* The writer.  FrameInv says of one immediate_session what each place in  *)
(* it knows of SQLite: how often its write is durable, and whether its     *)
(* connection may still hold a transaction.  LockInv says that a session   *)
(* runs under the lock and that a transaction without a session ended all  *)
(* admission.  QueueInv keeps a waiter from being admitted into a session  *)
(* it left, and StreamInv keeps a stream without a subscription from       *)
(* waiting for ever.                                                       *)
(*                                                                         *)
(* The journal.  JournalInv relates the session in memory, the row of the  *)
(* database and the requests that were answered, place by place.           *)
(*                                                                         *)
(* The waits.  WaitInv says what the tables hold; what a step may do with  *)
(* one binding is Moves, and every action makes only such moves.           *)
(***************************************************************************)
EXTENDS MCStore, Integers, FiniteSetTheorems, SequenceTheorems, TLAPS

Trying   == {"connect", "begin", "execute", "flush", "commit"}
Cleaning == {"rollback", "invalidate", "close", "exit", "leave"}

(* What the caller may conclude from the exception e, or from none.        *)
Truthful(e, a) ==
    /\ e = None => a = 1
    /\ e # None =>
         /\ write_failure_committed(e) = "yes" => a = 1
         /\ write_failure_committed(e) = "no" => a = 0

(* How often the write of the frame f is durable.                          *)
Applied(f, a) ==
    /\ a \in {0, 1}
    /\ f.pc \in {"idle", "waiting"} \cup Trying => a = 0
    /\ f.pc \in Trying => f.failure = None /\ ~f.committed
    /\ f.pc = "commit" => f.phase = "commit"
    /\ f.pc \in Cleaning =>
         /\ f.committed => f.failure = None /\ a = 1
         /\ ~f.committed => f.failure # None /\ (f.phase # "commit" => a = 0)
    /\ f.pc = "done" => Truthful(f.raised, a)

(* Whether the connection of the frame f can hold a transaction.           *)
Holding(f, o, failed) ==
    /\ f.pc = "connect" => f.driver = "none"
    /\ f.pc \in {"begin", "execute", "flush", "commit"} => f.driver = "live"
    /\ f.pc \in Inside /\ f.driver \in {"none", "exited"} => ~o
    /\ (f.pc = "exit" /\ f.driver = "live" /\ ~f.closeFailed) => ~o
    /\ f.pc = "leave" /\ o => failed

FrameInv ==
    \A t \in Writers :
        Applied(w[t], applied[t]) /\ Holding(w[t], t \in open, writerFailure)

LockInv ==
    /\ \A t \in Writers : w[t].pc \in Inside => lock = t
    /\ \A t \in open : lock = t \/ (writerFailure /\ lock \notin Writers)
    /\ \A t, u \in open : t = u

QueueInv ==
    /\ \A i \in 1..Len(queue) : queue[i] \in Writers => w[queue[i]].pc = "waiting"
    /\ \A i, j \in 1..Len(queue) : queue[i] = queue[j] => i = j

StreamInv ==
    /\ StreamNotStale
    /\ \A s \in Streams :
         ~stream[s].subscribed =>
             stream[s].pc = "gone" \/ \E i \in 1..Len(hints[s]) : ~hints[s][i]

IInv == TypeOK /\ FrameInv /\ LockInv /\ QueueInv /\ StreamInv

Assumptions == CloserAssumption /\ LimitAssumption /\ NoneAssumption

-----------------------------------------------------------------------------
(* The parts of the state.                                                 *)

TypeFrames ==
    w \in [Writers -> Frame] /\ open \in SUBSET Writers /\ applied \in [Writers -> Nat]

TypeLock ==
    /\ lock \in Writers \cup {Closer, None} /\ queue \in Seq(Writers \cup {Closer})
    /\ writerFailure \in BOOLEAN /\ closed \in BOOLEAN

TypeStream ==
    /\ confirmed \in Nat
    /\ hints \in [Streams -> Seq(BOOLEAN)]
    /\ \A s \in Streams : Len(hints[s]) <= QueueLimit
    /\ stream \in [Streams -> [pc : {"sync", "wait", "gone"}, seen : Nat, subscribed : BOOLEAN]]

Framing   == TypeFrames /\ FrameInv
Admission == TypeLock /\ LockInv /\ QueueInv
Streaming == TypeStream /\ StreamInv

LEMMA Parts == IInv <=> Framing /\ Admission /\ Streaming
PROOF
  BY DEF IInv, TypeOK, TypeFrames, TypeLock, TypeStream, Framing, Admission, Streaming

LEMMA PartsNext == IInv' <=> Framing' /\ Admission' /\ Streaming'
PROOF
  BY DEF IInv, TypeOK, TypeFrames, TypeLock, TypeStream, Framing, Admission, Streaming

LEMMA NewFrameType == NewFrame \in Frame
PROOF BY DEF NewFrame, Frame, Phases

LEMMA InitIInv ==
    ASSUME Assumptions, Init
    PROVE  IInv
PROOF
  <1>1. Framing
    <2>1. TypeFrames
      BY NewFrameType DEF Init, TypeFrames
    <2>2. FrameInv
      BY DEF Init, FrameInv, Applied, Holding, NewFrame, Trying, Cleaning, Inside
    <2> QED BY <2>1, <2>2 DEF Framing
  <1>2. Admission
    <2>1. TypeLock
      <3>1. <<>> \in Seq(Writers \cup {Closer})
        OBVIOUS
      <3>2. queue \in Seq(Writers \cup {Closer})
        BY <3>1 DEF Init
      <3>3. lock \in Writers \cup {Closer, None}
        BY DEF Init
      <3>4. writerFailure \in BOOLEAN /\ closed \in BOOLEAN
        BY DEF Init
      <3> QED BY <3>2, <3>3, <3>4 DEF TypeLock
    <2>2. LockInv /\ QueueInv
      BY DEF Init, LockInv, QueueInv, NewFrame, Inside
    <2> QED BY <2>1, <2>2 DEF Admission
  <1>3. Streaming
    <2>1. TypeStream
      BY DEF Init, TypeStream, Assumptions, LimitAssumption
    <2>2. StreamInv
      BY DEF Init, StreamInv, StreamNotStale
    <2> QED BY <2>1, <2>2 DEF Streaming
  <1> QED BY <1>1, <1>2, <1>3, Parts

-----------------------------------------------------------------------------
(* What the steps of a session make of its frame.                          *)

LEMMA RaisedResult ==
    ASSUME Assumptions, NEW f \in Frame, NEW kind \in Kinds \cup {"cancel"}
    PROVE  /\ Raised(f, kind) \in Frame
           /\ Raised(f, kind).pc = "rollback"
           /\ Raised(f, kind).failure # None
           /\ Raised(f, kind).committed = f.committed
           /\ Raised(f, kind).phase = f.phase
           /\ Raised(f, kind).driver = f.driver
PROOF
  <1> DEFINE c == IF kind = "cancel" THEN "same" ELSE f.cancellation
  <1>1. c \in {None, "same", "other"}
    BY DEF Frame
  <1>2. Raised(f, kind) = [f EXCEPT !.failure = kind, !.asked = FALSE, !.pc = "rollback",
                                    !.cancellation = c]
    BY DEF Raised
  <1>3. kind # None
    BY DEF Assumptions, NoneAssumption
  <1> HIDE DEF c
  <1> QED BY <1>1, <1>2, <1>3 DEF Frame, Inside

LEMMA RememberResult ==
    ASSUME NEW f \in Frame
    PROVE  /\ Remember(f) \in Frame
           /\ Remember(f).pc = f.pc /\ Remember(f).failure = f.failure
           /\ Remember(f).committed = f.committed /\ Remember(f).phase = f.phase
           /\ Remember(f).driver = f.driver /\ Remember(f).closeFailed = f.closeFailed
           /\ Remember(f).rolled = f.rolled
PROOF
  <1> DEFINE c == IF f.asked /\ f.cancellation = None THEN "other" ELSE f.cancellation
  <1>1. c \in {None, "same", "other"}
    BY DEF Frame
  <1>2. Remember(f) = [f EXCEPT !.asked = FALSE, !.cancellation = c]
    BY DEF Remember
  <1> HIDE DEF c
  <1> QED BY <1>1, <1>2 DEF Frame

LEMMA StoppedResult ==
    ASSUME NEW f \in Frame
    PROVE  /\ Stopped(f) \in Frame
           /\ Stopped(f).pc = f.pc /\ Stopped(f).failure = f.failure
           /\ Stopped(f).committed = f.committed /\ Stopped(f).phase = f.phase
           /\ Stopped(f).closeFailed = f.closeFailed /\ Stopped(f).rolled = f.rolled
           /\ Stopped(f).driver = IF f.driver = "live" THEN "stopping" ELSE f.driver
PROOF
  <1> DEFINE d == IF f.driver = "live" THEN "stopping" ELSE f.driver
  <1>1. d \in {"none", "live", "stopping", "exited"}
    BY DEF Frame
  <1>2. Stopped(f) = [f EXCEPT !.driver = d]
    BY DEF Stopped
  <1> HIDE DEF d
  <1>3. Stopped(f).driver = d
    BY <1>1, <1>2 DEF Frame
  <1>4. Stopped(f) \in Frame /\ Stopped(f).pc = f.pc /\ Stopped(f).failure = f.failure
    BY <1>1, <1>2 DEF Frame
  <1>5. /\ Stopped(f).committed = f.committed /\ Stopped(f).phase = f.phase
        /\ Stopped(f).closeFailed = f.closeFailed /\ Stopped(f).rolled = f.rolled
    BY <1>1, <1>2 DEF Frame
  <1> QED BY <1>3, <1>4, <1>5 DEF d

(* A caller that is outside of a session owns what its last one told.      *)
LEMMA LeavesTruth ==
    ASSUME Assumptions, NEW f \in Frame, NEW a \in {0, 1}, f.pc = "leave", Applied(f, a)
    PROVE  Leaves(f) \in Errors \cup {None} /\ Truthful(Leaves(f), a)
PROOF
  <1>1. None \notin Errors
    BY DEF Assumptions, NoneAssumption
  <1>2. /\ f.committed => f.failure = None /\ a = 1
        /\ ~f.committed => f.failure # None /\ (f.phase # "commit" => a = 0)
    BY DEF Applied, Cleaning
  <1>3. CASE f.cancellation # None
    <2> DEFINE n == (IF f.cancellation = "same" /\ f.rolled THEN {"rollback"} ELSE {})
                    \cup (IF f.committed THEN {"commit"} ELSE {})
    <2>1. Leaves(f) = [kind |-> "cancel", phase |-> f.phase, notes |-> n]
      BY <1>3 DEF Leaves
    <2>2. n \in SUBSET {"rollback", "commit"} /\ ("commit" \in n <=> f.committed)
      OBVIOUS
    <2> HIDE DEF n
    <2>3. Leaves(f) \in Errors
      BY <2>1, <2>2 DEF Errors, Frame
    <2>4. Leaves(f).phase = f.phase /\ ("commit" \in Leaves(f).notes <=> f.committed)
      BY <2>1, <2>2
    <2> QED BY <1>1, <1>2, <2>3, <2>4 DEF Truthful, write_failure_committed
  <1>4. CASE f.cancellation = None /\ f.failure # None
    <2> DEFINE n == IF f.rolled THEN {"rollback"} ELSE {}
    <2>1. Leaves(f) = [kind |-> f.failure, phase |-> f.phase, notes |-> n]
      BY <1>4 DEF Leaves
    <2>2. n \in SUBSET {"rollback", "commit"} /\ "commit" \notin n
      OBVIOUS
    <2> HIDE DEF n
    <2>3. Leaves(f) \in Errors
      BY <1>4, <2>1, <2>2 DEF Errors, Frame
    <2>4. Leaves(f).phase = f.phase /\ "commit" \notin Leaves(f).notes
      BY <2>1, <2>2
    <2> QED BY <1>1, <1>2, <1>4, <2>3, <2>4 DEF Truthful, write_failure_committed
  <1>5. CASE f.cancellation = None /\ f.failure = None
    BY <1>2, <1>5 DEF Leaves, Truthful
  <1> QED BY <1>3, <1>4, <1>5

-----------------------------------------------------------------------------
(* A step of one writer.                                                   *)

LEMMA FrameStep ==
    ASSUME Framing, NEW t \in Writers, NEW f \in Frame, NEW n \in {0, 1},
           Go(t, f), applied' = [applied EXCEPT ![t] = n],
           open' \in {open, open \cup {t}, open \ {t}},
           writerFailure => writerFailure',
           Applied(f, n), Holding(f, t \in open', writerFailure')
    PROVE  Framing' /\ w'[t] = f /\ \A u \in Writers \ {t} : w'[u] = w[u]
PROOF
  <1>1. TypeFrames'
    BY DEF Framing, TypeFrames, Go
  <1>2. w'[t] = f /\ applied'[t] = n
    BY DEF Framing, TypeFrames, Go
  <1>3. ASSUME NEW u \in Writers \ {t}
        PROVE  w'[u] = w[u] /\ applied'[u] = applied[u] /\ (u \in open' <=> u \in open)
    BY DEF Framing, TypeFrames, Go
  <1>4. FrameInv'
    <2> SUFFICES ASSUME NEW u \in Writers
                 PROVE  /\ Applied(w'[u], applied'[u])
                        /\ Holding(w'[u], u \in open', writerFailure')
      BY DEF FrameInv
    <2>1. CASE u = t
      BY <2>1, <1>2
    <2>2. CASE u # t
      <3>1. w'[u] = w[u] /\ applied'[u] = applied[u] /\ (u \in open' <=> u \in open)
        BY <2>2, <1>3
      <3>2. Applied(w[u], applied[u]) /\ Holding(w[u], u \in open, writerFailure)
        BY DEF Framing, FrameInv
      <3>3. Applied(w'[u], applied'[u])
        BY <3>1, <3>2
      <3>4. Holding(w'[u], u \in open', writerFailure')
        BY <3>1, <3>2 DEF Holding
      <3> QED BY <3>3, <3>4
    <2> QED BY <2>1, <2>2
  <1> QED BY <1>1, <1>2, <1>3, <1>4 DEF Framing

(* Inside of its session a writer has the lock, and keeps it.              *)
LEMMA InsideStep ==
    ASSUME IInv, Assumptions, NEW t \in Writers, NEW f \in Frame, NEW n \in {0, 1},
           w[t].pc \in Inside, f.pc \in Inside,
           Go(t, f), applied' = [applied EXCEPT ![t] = n],
           open' \in {open, open \cup {t}, open \ {t}},
           writerFailure' \in {writerFailure, TRUE},
           UNCHANGED <<lock, queue, closed, confirmed, hints, stream>>,
           Applied(f, n), Holding(f, t \in open', writerFailure')
    PROVE  IInv'
PROOF
  <1>1. Framing /\ Admission /\ Streaming
    BY Parts
  <1>2. writerFailure => writerFailure'
    OBVIOUS
  <1>3. Framing' /\ w'[t] = f /\ \A u \in Writers \ {t} : w'[u] = w[u]
    BY <1>1, <1>2, FrameStep
  <1>4. Streaming'
    BY <1>1 DEF Streaming, TypeStream, StreamInv, StreamNotStale
  <1>5. TypeLock'
    <2>1. writerFailure' \in BOOLEAN
      BY <1>1 DEF Admission, TypeLock
    <2> QED BY <1>1, <2>1 DEF Admission, TypeLock
  <1>6. lock = t /\ lock \in Writers
    BY <1>1 DEF Admission, LockInv
  <1>7. open \subseteq {t}
    BY <1>1, <1>6 DEF Admission, LockInv
  <1>8. LockInv'
    <2>1. \A u \in Writers : w'[u].pc \in Inside => lock' = u
      BY <1>1, <1>3, <1>6 DEF Admission, LockInv
    <2>2. open' \subseteq {t}
      BY <1>7
    <2> QED BY <1>6, <2>1, <2>2 DEF LockInv
  <1>9. QueueInv'
    <2>1. \A i \in 1..Len(queue) : queue[i] # t
      BY <1>1 DEF Admission, QueueInv, Inside
    <2>2. \A i \in 1..Len(queue) : queue[i] \in Writers => w'[queue[i]] = w[queue[i]]
      BY <1>3, <2>1
    <2> QED BY <1>1, <2>2 DEF Admission, QueueInv
  <1> QED BY <1>3, <1>4, <1>5, <1>8, <1>9, PartsNext DEF Admission

-----------------------------------------------------------------------------
(* The try block.                                                          *)

LEMMA ThisFrame ==
    ASSUME IInv, NEW t \in Writers
    PROVE  /\ w[t] \in Frame /\ applied[t] \in {0, 1} /\ applied = [applied EXCEPT ![t] = @]
           /\ Applied(w[t], applied[t]) /\ Holding(w[t], t \in open, writerFailure)
PROOF
  <1>1. TypeFrames /\ FrameInv
    BY Parts DEF Framing
  <1>2. Applied(w[t], applied[t]) /\ Holding(w[t], t \in open, writerFailure)
    BY <1>1 DEF FrameInv
  <1> QED BY <1>1, <1>2 DEF TypeFrames, Applied

(* The failure of a session of which nothing is durable, or of its commit. *)
LEMMA RaiseStep ==
    ASSUME IInv, Assumptions, NEW t \in Writers, NEW f \in Frame, NEW n \in {0, 1},
           NEW kind \in Kinds \cup {"cancel"},
           w[t].pc \in Trying, f.phase = w[t].phase, ~f.committed,
           f.driver \in {"none", "live", "stopping"},
           f.driver = "none" => t \notin open',
           n = 0 \/ w[t].pc = "commit",
           Go(t, Raised(f, kind)), applied' = [applied EXCEPT ![t] = n],
           open' \in {open, open \cup {t}, open \ {t}},
           writerFailure' \in {writerFailure, TRUE},
           UNCHANGED <<lock, queue, closed, confirmed, hints, stream>>
    PROVE  IInv'
PROOF
  <1> DEFINE g == Raised(f, kind)
  <1>1. /\ g \in Frame /\ g.pc = "rollback" /\ g.failure # None /\ ~g.committed
        /\ g.phase = w[t].phase /\ g.driver = f.driver
    BY RaisedResult
  <1>2. w[t].pc = "commit" => w[t].phase = "commit"
    BY ThisFrame DEF Applied
  <1>3. Go(t, g)
    OBVIOUS
  <1> HIDE DEF g
  <1>4. Applied(g, n)
    BY <1>1, <1>2 DEF Applied, Trying, Cleaning
  <1>5. Holding(g, t \in open', writerFailure')
    BY <1>1 DEF Holding
  <1>6. w[t].pc \in Inside /\ g.pc \in Inside
    BY <1>1 DEF Trying, Inside
  <1> QED BY <1>1, <1>3, <1>4, <1>5, <1>6, InsideStep

(* Before its commit a session has nothing durable, and has not failed.    *)
LEMMA TryingFrame ==
    ASSUME IInv, NEW t \in Writers, w[t].pc \in Trying
    PROVE  /\ w[t] \in Frame /\ applied[t] = 0 /\ applied = [applied EXCEPT ![t] = 0]
           /\ w[t].failure = None /\ ~w[t].committed
           /\ w[t].driver = IF w[t].pc = "connect" THEN "none" ELSE "live"
           /\ w[t].pc = "connect" => t \notin open
PROOF
  <1>1. /\ w[t] \in Frame /\ applied = [applied EXCEPT ![t] = @]
        /\ Applied(w[t], applied[t]) /\ Holding(w[t], t \in open, writerFailure)
    BY ThisFrame
  <1>2. applied[t] = 0 /\ w[t].failure = None /\ ~w[t].committed
    BY <1>1 DEF Applied, Trying
  <1>3. /\ w[t].driver = IF w[t].pc = "connect" THEN "none" ELSE "live"
        /\ w[t].pc = "connect" => t \notin open
    BY <1>1 DEF Holding, Trying, Inside
  <1> QED BY <1>1, <1>2, <1>3

LEMMA SurfacedType ==
    ASSUME NEW t, NEW kind \in Kinds
    PROVE  Surfaced(t, kind) \in Kinds \cup {"cancel"}
PROOF BY DEF Surfaced

LEMMA ConnectKeeps ==
    ASSUME IInv, Assumptions, NEW t \in Writers, Connect(t)
    PROVE  IInv'
PROOF
  <1>1. w[t].pc = "connect" /\ w[t].pc \in Trying
    BY DEF Connect, Trying
  <1>2. /\ w[t] \in Frame /\ applied[t] = 0 /\ applied = [applied EXCEPT ![t] = 0]
        /\ w[t].failure = None /\ ~w[t].committed /\ w[t].driver = "none" /\ t \notin open
    BY <1>1, TryingFrame
  <1>3. /\ UNCHANGED <<lock, queue, closed, confirmed, hints, stream>>
        /\ open' = open /\ applied' = [applied EXCEPT ![t] = 0]
        /\ open' \in {open, open \cup {t}, open \ {t}}
    BY <1>2 DEF Connect
  <1> DEFINE f == [w[t] EXCEPT !.driver = "live"]
             g == [w[t] EXCEPT !.driver = "live", !.pc = "begin"]
  <1>4. /\ f \in Frame /\ f.phase = w[t].phase /\ ~f.committed /\ f.driver = "live"
        /\ g \in Frame /\ g.pc = "begin" /\ ~g.committed /\ g.failure = None
        /\ g.driver = "live"
    BY <1>2 DEF Frame, Inside
  <1>5. \/ w[t].asked /\ Go(t, Raised(f, "cancel")) /\ UNCHANGED writerFailure
        \/ Go(t, g) /\ UNCHANGED writerFailure
        \/ /\ \E kind \in Kinds : Go(t, Raised(w[t], Surfaced(t, kind)))
           /\ ConnectSqliteFails
    BY DEF Connect
  <1> HIDE DEF f, g
  <1>6. CASE Go(t, Raised(f, "cancel")) /\ UNCHANGED writerFailure
    BY <1>1, <1>3, <1>4, <1>6, RaiseStep
  <1>7. CASE Go(t, g) /\ UNCHANGED writerFailure
    <2>1. Applied(g, 0) /\ Holding(g, t \in open', writerFailure')
      BY <1>4 DEF Applied, Holding, Trying, Cleaning
    <2>2. w[t].pc \in Inside /\ g.pc \in Inside
      BY <1>1, <1>4 DEF Inside
    <2> QED BY <1>3, <1>4, <1>7, <2>1, <2>2, InsideStep
  <1>8. CASE /\ \E kind \in Kinds : Go(t, Raised(w[t], Surfaced(t, kind)))
             /\ ConnectSqliteFails
    <2>1. PICK kind \in Kinds : Go(t, Raised(w[t], Surfaced(t, kind)))
      BY <1>8
    <2>2. Surfaced(t, kind) \in Kinds \cup {"cancel"}
      BY <2>1, SurfacedType
    <2>3. writerFailure' \in {writerFailure, TRUE}
      BY <1>8 DEF ConnectSqliteFails
    <2> QED BY <1>1, <1>2, <1>3, <2>1, <2>2, <2>3, RaiseStep
  <1> QED BY <1>5, <1>6, <1>7, <1>8

(* A call that succeeds leads to the next place of the try block.          *)
LEMMA TryStep ==
    ASSUME IInv, Assumptions, NEW t \in Writers, NEW f \in Frame,
           w[t].pc \in Trying, f.pc \in {"execute", "flush", "commit"},
           f.pc = "commit" => f.phase = "commit",
           ~f.committed, f.failure = None, f.driver = "live",
           Go(t, f), open' \in {open, open \cup {t}, open \ {t}},
           UNCHANGED <<writerFailure, lock, queue, closed, applied, confirmed, hints, stream>>
    PROVE  IInv'
PROOF
  <1>1. applied' = [applied EXCEPT ![t] = 0]
    BY TryingFrame
  <1>2. Applied(f, 0) /\ Holding(f, t \in open', writerFailure')
    BY DEF Applied, Holding, Trying, Cleaning
  <1>3. w[t].pc \in Inside /\ f.pc \in Inside
    BY DEF Trying, Inside
  <1> QED BY <1>1, <1>2, <1>3, InsideStep

LEMMA BeginKeeps ==
    ASSUME IInv, Assumptions, NEW t \in Writers, BeginImmediate(t)
    PROVE  IInv'
PROOF
  <1>1. w[t].pc = "begin" /\ w[t].pc \in Trying
    BY DEF BeginImmediate, Trying
  <1>2. /\ w[t] \in Frame /\ applied = [applied EXCEPT ![t] = 0]
        /\ w[t].failure = None /\ ~w[t].committed /\ w[t].driver = "live"
    BY <1>1, TryingFrame
  <1>3. UNCHANGED <<writerFailure, lock, queue, closed, applied, confirmed, hints, stream>>
    BY DEF BeginImmediate
  <1> DEFINE f == [w[t] EXCEPT !.pc = "execute", !.phase = "execute"]
  <1>4. /\ f \in Frame /\ f.pc = "execute" /\ ~f.committed /\ f.failure = None
        /\ f.driver = "live"
    BY <1>2 DEF Frame, Inside, Phases
  <1>5. \/ Go(t, f) /\ open' = open \cup {t}
        \/ (\E kind \in Kinds : Go(t, Raised(w[t], kind))) /\ UNCHANGED open
    BY DEF BeginImmediate
  <1> HIDE DEF f
  <1>6. CASE Go(t, f) /\ open' = open \cup {t}
    BY <1>1, <1>3, <1>4, <1>6, TryStep
  <1>7. CASE (\E kind \in Kinds : Go(t, Raised(w[t], kind))) /\ UNCHANGED open
    <2>1. PICK kind \in Kinds : Go(t, Raised(w[t], kind))
      BY <1>7
    <2> QED BY <1>1, <1>2, <1>3, <1>7, <2>1, RaiseStep
  <1> QED BY <1>5, <1>6, <1>7

LEMMA ExecuteKeeps ==
    ASSUME IInv, Assumptions, NEW t \in Writers, Execute(t)
    PROVE  IInv'
PROOF
  <1>1. w[t].pc = "execute" /\ w[t].pc \in Trying
    BY DEF Execute, Trying
  <1>2. /\ w[t] \in Frame /\ applied = [applied EXCEPT ![t] = 0]
        /\ w[t].failure = None /\ ~w[t].committed /\ w[t].driver = "live"
    BY <1>1, TryingFrame
  <1>3. UNCHANGED <<writerFailure, lock, queue, closed, open, applied, confirmed, hints, stream>>
    BY DEF Execute
  <1> DEFINE f == [w[t] EXCEPT !.pc = "flush", !.phase = "flush"]
  <1>4. /\ f \in Frame /\ f.pc = "flush" /\ ~f.committed /\ f.failure = None
        /\ f.driver = "live"
    BY <1>2 DEF Frame, Inside, Phases
  <1>5. Go(t, f) \/ \E kind \in Kinds : Go(t, Raised(w[t], kind))
    BY DEF Execute
  <1> HIDE DEF f
  <1>6. CASE Go(t, f)
    BY <1>1, <1>3, <1>4, <1>6, TryStep
  <1>7. CASE \E kind \in Kinds : Go(t, Raised(w[t], kind))
    <2>1. PICK kind \in Kinds : Go(t, Raised(w[t], kind))
      BY <1>7
    <2> QED BY <1>1, <1>2, <1>3, <2>1, RaiseStep
  <1> QED BY <1>5, <1>6, <1>7

LEMMA FlushKeeps ==
    ASSUME IInv, Assumptions, NEW t \in Writers, Flush(t)
    PROVE  IInv'
PROOF
  <1>1. w[t].pc = "flush" /\ w[t].pc \in Trying
    BY DEF Flush, Trying
  <1>2. /\ w[t] \in Frame /\ applied = [applied EXCEPT ![t] = 0]
        /\ w[t].failure = None /\ ~w[t].committed /\ w[t].driver = "live"
    BY <1>1, TryingFrame
  <1>3. UNCHANGED <<writerFailure, lock, queue, closed, open, applied, confirmed, hints, stream>>
    BY DEF Flush
  <1> DEFINE f == [w[t] EXCEPT !.pc = "commit", !.phase = "commit"]
  <1>4. /\ f \in Frame /\ f.pc = "commit" /\ f.phase = "commit" /\ ~f.committed
        /\ f.failure = None /\ f.driver = "live"
    BY <1>2 DEF Frame, Inside, Phases
  <1>5. \/ Go(t, f)
        \/ Go(t, Raised(w[t], "cancel"))
        \/ \E kind \in Kinds : Go(t, Raised(w[t], Surfaced(t, kind)))
    BY DEF Flush
  <1> HIDE DEF f
  <1>6. CASE Go(t, f)
    BY <1>1, <1>3, <1>4, <1>6, TryStep
  <1>7. CASE Go(t, Raised(w[t], "cancel"))
    BY <1>1, <1>2, <1>3, <1>7, RaiseStep
  <1>8. CASE \E kind \in Kinds : Go(t, Raised(w[t], Surfaced(t, kind)))
    <2>1. PICK kind \in Kinds : Go(t, Raised(w[t], Surfaced(t, kind)))
      BY <1>8
    <2>2. Surfaced(t, kind) \in Kinds \cup {"cancel"}
      BY <2>1, SurfacedType
    <2> QED BY <1>1, <1>2, <1>3, <2>1, <2>2, RaiseStep
  <1> QED BY <1>5, <1>6, <1>7, <1>8

LEMMA CommitKeeps ==
    ASSUME IInv, Assumptions, NEW t \in Writers, Commit(t)
    PROVE  IInv'
PROOF
  <1>1. w[t].pc = "commit" /\ w[t].pc \in Trying
    BY DEF Commit, Trying
  <1>2. /\ w[t] \in Frame /\ applied[t] = 0 /\ applied = [applied EXCEPT ![t] = 0]
        /\ w[t].failure = None /\ ~w[t].committed /\ w[t].driver = "live"
    BY <1>1, TryingFrame
  <1>3. UNCHANGED <<writerFailure, lock, queue, closed, confirmed, hints, stream>>
    BY DEF Commit
  <1>4. Durable(t) => applied' = [applied EXCEPT ![t] = 1]
    BY <1>2 DEF Durable
  <1> DEFINE c == IF w[t].asked THEN "other" ELSE None
             f == [w[t] EXCEPT !.pc = "close", !.committed = TRUE, !.asked = FALSE,
                               !.cancellation = c]
  <1>5. c \in {None, "same", "other"}
    OBVIOUS
  <1>6. \/ Go(t, f) /\ Durable(t) /\ open' = open \ {t}
        \/ /\ \E kind \in Kinds : Go(t, Raised(w[t], Surfaced(t, kind)))
           /\ (Durable(t) /\ open' = open \ {t}) \/ UNCHANGED <<applied, open>>
    BY DEF Commit
  <1> HIDE DEF c
  <1>7. /\ f \in Frame /\ f.pc = "close" /\ f.committed /\ f.failure = None
        /\ f.driver = "live"
    BY <1>2, <1>5 DEF Frame, Inside
  <1> HIDE DEF f
  <1>8. CASE Go(t, f) /\ Durable(t) /\ open' = open \ {t}
    <2>1. Applied(f, 1) /\ Holding(f, t \in open', writerFailure')
      BY <1>7 DEF Applied, Holding, Trying, Cleaning
    <2>2. w[t].pc \in Inside /\ f.pc \in Inside
      BY <1>1, <1>7 DEF Inside
    <2> QED BY <1>3, <1>4, <1>7, <1>8, <2>1, <2>2, InsideStep
  <1>9. CASE /\ \E kind \in Kinds : Go(t, Raised(w[t], Surfaced(t, kind)))
             /\ (Durable(t) /\ open' = open \ {t}) \/ UNCHANGED <<applied, open>>
    <2>1. PICK kind \in Kinds : Go(t, Raised(w[t], Surfaced(t, kind)))
      BY <1>9
    <2>2. Surfaced(t, kind) \in Kinds \cup {"cancel"}
      BY <2>1, SurfacedType
    <2>3. PICK n \in {0, 1} : applied' = [applied EXCEPT ![t] = n]
      BY <1>2, <1>4, <1>9
    <2>4. open' \in {open, open \cup {t}, open \ {t}}
      BY <1>9
    <2> QED BY <1>1, <1>2, <1>3, <2>1, <2>2, <2>3, <2>4, RaiseStep
  <1> QED BY <1>6, <1>8, <1>9

(* The await of a statement is interrupted.                                *)
LEMMA CancelStatementKeeps ==
    ASSUME IInv, Assumptions, NEW t \in Writers, CancelStatement(t)
    PROVE  IInv'
PROOF
  <1>1. w[t].pc \in Trying
    BY DEF CancelStatement, Trying
  <1>2. /\ w[t] \in Frame /\ applied = [applied EXCEPT ![t] = 0] /\ ~w[t].committed
    BY <1>1, TryingFrame
  <1>3. /\ UNCHANGED <<writerFailure, lock, queue, closed, applied, confirmed, hints, stream>>
        /\ open' \in {open, open \cup {t}, open \ {t}}
    BY DEF CancelStatement
  <1>4. PICK d \in {"live", "stopping"} : Go(t, Raised([w[t] EXCEPT !.driver = d], "cancel"))
    BY DEF CancelStatement
  <1> DEFINE f == [w[t] EXCEPT !.driver = d]
  <1>5. /\ f \in Frame /\ f.phase = w[t].phase /\ ~f.committed
        /\ f.driver \in {"live", "stopping"}
    BY <1>2, <1>4 DEF Frame
  <1>6. Go(t, Raised(f, "cancel"))
    BY <1>4
  <1> HIDE DEF f
  <1> QED BY <1>1, <1>2, <1>3, <1>5, <1>6, RaiseStep

LEMMA CancelShieldedKeeps ==
    ASSUME IInv, Assumptions, NEW t \in Writers, CancelShielded(t)
    PROVE  IInv'
PROOF
  <1>1. /\ w[t] \in Frame /\ applied[t] \in {0, 1} /\ applied = [applied EXCEPT ![t] = @]
        /\ Applied(w[t], applied[t]) /\ Holding(w[t], t \in open, writerFailure)
    BY ThisFrame
  <1>2. /\ UNCHANGED <<lock, queue, closed, confirmed, hints, stream>>
        /\ writerFailure' = writerFailure /\ open' = open /\ applied' = applied
    BY DEF CancelShielded
  <1>3. w[t].pc \in Inside \ {"waiting", "done"}
    BY DEF CancelShielded, Shielded, Inside
  <1> DEFINE f == [w[t] EXCEPT !.asked = TRUE]
  <1>4. Go(t, f)
    BY DEF CancelShielded
  <1>5. /\ f \in Frame /\ f.pc = w[t].pc /\ f.phase = w[t].phase
        /\ f.failure = w[t].failure /\ f.committed = w[t].committed /\ f.driver = w[t].driver
        /\ f.closeFailed = w[t].closeFailed
    BY <1>1 DEF Frame
  <1> HIDE DEF f
  <1>6. Applied(f, applied[t])
    BY <1>1, <1>3, <1>5 DEF Applied, Inside
  <1>7. Holding(f, t \in open', writerFailure')
    BY <1>1, <1>2, <1>5 DEF Holding
  <1>8. /\ applied' = [applied EXCEPT ![t] = applied[t]]
        /\ open' \in {open, open \cup {t}, open \ {t}}
        /\ writerFailure' \in {writerFailure, TRUE}
    BY <1>1, <1>2
  <1> QED BY <1>1, <1>2, <1>3, <1>4, <1>5, <1>6, <1>7, <1>8, InsideStep

-----------------------------------------------------------------------------
(* Cleanup.                                                                *)

(* A cleanup call neither applies the write nor forgets why it failed.     *)
LEMMA CleanStep ==
    ASSUME IInv, Assumptions, NEW t \in Writers, NEW f \in Frame,
           w[t].pc \in Cleaning, f.pc \in Cleaning,
           f.failure = w[t].failure, f.committed = w[t].committed, f.phase = w[t].phase,
           Holding(f, t \in open', writerFailure'),
           Go(t, f), open' \in {open, open \ {t}}, writerFailure' \in {writerFailure, TRUE},
           UNCHANGED <<lock, queue, closed, applied, confirmed, hints, stream>>
    PROVE  IInv'
PROOF
  <1>1. /\ applied[t] \in {0, 1} /\ applied = [applied EXCEPT ![t] = @]
        /\ Applied(w[t], applied[t])
    BY ThisFrame
  <1>2. Applied(f, applied[t])
    BY <1>1 DEF Applied, Cleaning, Trying
  <1>3. w[t].pc \in Inside /\ f.pc \in Inside
    BY DEF Cleaning, Inside
  <1>4. applied' = [applied EXCEPT ![t] = applied[t]]
    BY <1>1
  <1> QED BY <1>1, <1>2, <1>3, <1>4, InsideStep

LEMMA RollbackKeeps ==
    ASSUME IInv, Assumptions, NEW t \in Writers, Rollback(t)
    PROVE  IInv'
PROOF
  <1>1. w[t].pc = "rollback" /\ w[t].pc \in Cleaning /\ w[t] \in Frame
    BY ThisFrame DEF Rollback, Cleaning
  <1>2. Holding(w[t], t \in open, writerFailure)
    BY ThisFrame
  <1>3. UNCHANGED <<lock, queue, writerFailure, closed, applied, confirmed, hints, stream>>
    BY DEF Rollback
  <1>4. open' \in {open, open \ {t}}
    BY DEF Rollback
  <1> DEFINE r == Remember(w[t])
             f == [r EXCEPT !.pc = "close", !.rolled = TRUE]
             g == [w[t] EXCEPT !.pc = "invalidate", !.asked = FALSE]
  <1>5. Go(t, f) \/ Go(t, g)
    BY DEF Rollback
  <1>6. /\ f \in Frame /\ f.pc = "close" /\ f.failure = w[t].failure
        /\ f.committed = w[t].committed /\ f.phase = w[t].phase /\ f.driver = w[t].driver
    <2>1. /\ r \in Frame /\ r.failure = w[t].failure
          /\ r.committed = w[t].committed /\ r.phase = w[t].phase /\ r.driver = w[t].driver
      BY <1>1, RememberResult
    <2> HIDE DEF r
    <2> QED BY <2>1 DEF Frame, Inside
  <1>7. /\ g \in Frame /\ g.pc = "invalidate" /\ g.failure = w[t].failure
        /\ g.committed = w[t].committed /\ g.phase = w[t].phase /\ g.driver = w[t].driver
    BY <1>1 DEF Frame, Inside
  <1> HIDE DEF f, g
  <1>8. Holding(f, t \in open', writerFailure') /\ Holding(g, t \in open', writerFailure')
    BY <1>1, <1>2, <1>3, <1>4, <1>6, <1>7 DEF Holding, Inside
  <1>9. f.pc \in Cleaning /\ g.pc \in Cleaning
    BY <1>6, <1>7 DEF Cleaning
  <1> QED BY <1>1, <1>3, <1>4, <1>5, <1>6, <1>7, <1>8, <1>9, CleanStep

LEMMA InvalidateKeeps ==
    ASSUME IInv, Assumptions, NEW t \in Writers, Invalidate(t)
    PROVE  IInv'
PROOF
  <1>1. w[t].pc = "invalidate" /\ w[t].pc \in Cleaning /\ w[t] \in Frame
    BY ThisFrame DEF Invalidate, Cleaning
  <1>2. Holding(w[t], t \in open, writerFailure)
    BY ThisFrame
  <1>3. UNCHANGED <<lock, queue, writerFailure, closed, open, applied, confirmed, hints, stream>>
    BY DEF Invalidate
  <1> DEFINE r == Remember(w[t])
             f == [Stopped(r) EXCEPT !.pc = "close"]
             g == [w[t] EXCEPT !.pc = "close", !.asked = FALSE]
  <1>4. Go(t, f) \/ Go(t, g)
    BY DEF Invalidate
  <1>5. /\ r \in Frame /\ r.failure = w[t].failure
        /\ r.committed = w[t].committed /\ r.phase = w[t].phase /\ r.driver = w[t].driver
    BY <1>1, RememberResult
  <1> HIDE DEF r
  <1>6. /\ Stopped(r) \in Frame /\ Stopped(r).failure = w[t].failure
        /\ Stopped(r).committed = w[t].committed /\ Stopped(r).phase = w[t].phase
        /\ Stopped(r).driver = IF w[t].driver = "live" THEN "stopping" ELSE w[t].driver
    BY <1>5, StoppedResult
  <1>7. /\ f \in Frame /\ f.pc = "close" /\ f.failure = w[t].failure
        /\ f.committed = w[t].committed /\ f.phase = w[t].phase
        /\ f.driver = IF w[t].driver = "live" THEN "stopping" ELSE w[t].driver
    BY <1>6 DEF Frame, Inside
  <1>8. /\ g \in Frame /\ g.pc = "close" /\ g.failure = w[t].failure
        /\ g.committed = w[t].committed /\ g.phase = w[t].phase /\ g.driver = w[t].driver
    BY <1>1 DEF Frame, Inside
  <1> HIDE DEF f, g
  <1>9. Holding(f, t \in open', writerFailure')
    BY <1>1, <1>2, <1>3, <1>7 DEF Holding, Inside
  <1>10. Holding(g, t \in open', writerFailure')
    BY <1>1, <1>2, <1>3, <1>8 DEF Holding, Inside
  <1>11. f.pc \in Cleaning /\ g.pc \in Cleaning
    BY <1>7, <1>8 DEF Cleaning
  <1> QED BY <1>1, <1>3, <1>4, <1>7, <1>8, <1>9, <1>10, <1>11, CleanStep

LEMMA CloseKeeps ==
    ASSUME IInv, Assumptions, NEW t \in Writers, Close(t)
    PROVE  IInv'
PROOF
  <1>1. w[t].pc = "close" /\ w[t].pc \in Cleaning /\ w[t] \in Frame
    BY ThisFrame DEF Close, Cleaning
  <1>2. Holding(w[t], t \in open, writerFailure)
    BY ThisFrame
  <1>3. UNCHANGED <<lock, queue, writerFailure, closed, applied, confirmed, hints, stream>>
    BY DEF Close
  <1> DEFINE r == Remember(w[t])
             f == [r EXCEPT !.pc = "exit"]
             g == [Stopped(r) EXCEPT !.pc = "exit"]
             h == [w[t] EXCEPT !.pc = "exit", !.closeFailed = TRUE, !.asked = FALSE]
             after == IF w[t].driver = "live" THEN open \ {t} ELSE open
  <1>4. \/ Go(t, f) /\ open' = after
        \/ (Go(t, g) \/ Go(t, h)) /\ UNCHANGED open
    BY DEF Close
  <1>5. /\ r \in Frame /\ r.failure = w[t].failure
        /\ r.committed = w[t].committed /\ r.phase = w[t].phase /\ r.driver = w[t].driver
    BY <1>1, RememberResult
  <1> HIDE DEF r
  <1>6. /\ Stopped(r) \in Frame /\ Stopped(r).failure = w[t].failure
        /\ Stopped(r).committed = w[t].committed /\ Stopped(r).phase = w[t].phase
        /\ Stopped(r).driver = IF w[t].driver = "live" THEN "stopping" ELSE w[t].driver
    BY <1>5, StoppedResult
  <1>7. /\ f \in Frame /\ f.pc = "exit" /\ f.failure = w[t].failure
        /\ f.committed = w[t].committed /\ f.phase = w[t].phase /\ f.driver = w[t].driver
    BY <1>5 DEF Frame, Inside
  <1>8. /\ g \in Frame /\ g.pc = "exit" /\ g.failure = w[t].failure
        /\ g.committed = w[t].committed /\ g.phase = w[t].phase
        /\ g.driver = IF w[t].driver = "live" THEN "stopping" ELSE w[t].driver
    BY <1>6 DEF Frame, Inside
  <1>9. /\ h \in Frame /\ h.pc = "exit" /\ h.failure = w[t].failure
        /\ h.committed = w[t].committed /\ h.phase = w[t].phase /\ h.driver = w[t].driver
        /\ h.closeFailed
    BY <1>1 DEF Frame, Inside
  <1>10. f.pc \in Cleaning /\ g.pc \in Cleaning /\ h.pc \in Cleaning
    BY <1>7, <1>8, <1>9 DEF Cleaning
  <1> HIDE DEF f, g, h
  <1>11. CASE Go(t, f) /\ open' = after
    <2>1. Holding(f, t \in open', writerFailure')
      BY <1>1, <1>2, <1>3, <1>7, <1>11 DEF Holding, Inside
    <2>2. open' \in {open, open \ {t}}
      BY <1>11
    <2> QED BY <1>1, <1>3, <1>7, <1>10, <1>11, <2>1, <2>2, CleanStep
  <1>12. CASE Go(t, g) /\ UNCHANGED open
    <2>1. Holding(g, t \in open', writerFailure')
      BY <1>1, <1>2, <1>3, <1>8, <1>12 DEF Holding, Inside
    <2> QED BY <1>1, <1>3, <1>8, <1>10, <1>12, <2>1, CleanStep
  <1>13. CASE Go(t, h) /\ UNCHANGED open
    <2>1. Holding(h, t \in open', writerFailure')
      BY <1>1, <1>2, <1>3, <1>9, <1>13 DEF Holding, Inside
    <2> QED BY <1>1, <1>3, <1>9, <1>10, <1>13, <2>1, CleanStep
  <1> QED BY <1>4, <1>11, <1>12, <1>13

LEMMA PhysicalExitKeeps ==
    ASSUME IInv, Assumptions, NEW t \in Writers, PhysicalExit(t)
    PROVE  IInv'
PROOF
  <1>1. w[t].pc = "exit" /\ w[t].pc \in Cleaning /\ w[t] \in Frame
    BY ThisFrame DEF PhysicalExit, Cleaning
  <1>2. Holding(w[t], t \in open, writerFailure)
    BY ThisFrame
  <1>3. UNCHANGED <<lock, queue, closed, applied, confirmed, hints, stream>>
    BY DEF PhysicalExit
  <1> DEFINE f == IF w[t].closeFailed THEN Stopped(w[t]) ELSE w[t]
  <1>4. /\ f \in Frame /\ f.failure = w[t].failure /\ f.committed = w[t].committed
        /\ f.phase = w[t].phase /\ f.closeFailed = w[t].closeFailed
        /\ f.driver = IF w[t].closeFailed /\ w[t].driver = "live" THEN "stopping"
                      ELSE w[t].driver
    BY <1>1, StoppedResult
  <1> DEFINE r == Remember(f)
             b == r.rolled \/ (f.failure # None /\ f.phase # "commit")
             e == [r EXCEPT !.pc = "leave", !.driver = "exited", !.rolled = b]
             g == [f EXCEPT !.pc = "leave", !.asked = FALSE]
             h == [f EXCEPT !.pc = "leave"]
  <1>5. \/ Go(t, e) /\ open' = open \ {t} /\ UNCHANGED writerFailure
        \/ /\ f.driver = "stopping" \/ (f.driver = "none" /\ f.closeFailed)
           /\ Go(t, g) /\ writerFailure' = TRUE /\ UNCHANGED open
        \/ /\ f.driver = "live" \/ (f.driver = "none" /\ ~f.closeFailed)
           /\ Go(t, h) /\ UNCHANGED <<writerFailure, open>>
    BY DEF PhysicalExit
  <1> HIDE DEF f
  <1>6. /\ r \in Frame /\ r.failure = w[t].failure
        /\ r.committed = w[t].committed /\ r.phase = w[t].phase
    BY <1>4, RememberResult
  <1>7. b \in BOOLEAN
    BY <1>6 DEF Frame
  <1> HIDE DEF r, b
  <1>8. /\ e \in Frame /\ e.pc = "leave" /\ e.failure = w[t].failure
        /\ e.committed = w[t].committed /\ e.phase = w[t].phase /\ e.driver = "exited"
    BY <1>6, <1>7 DEF Frame, Inside
  <1>9. /\ g \in Frame /\ g.pc = "leave" /\ g.failure = w[t].failure
        /\ g.committed = w[t].committed /\ g.phase = w[t].phase /\ g.driver = f.driver
    BY <1>4 DEF Frame, Inside
  <1>10. /\ h \in Frame /\ h.pc = "leave" /\ h.failure = w[t].failure
         /\ h.committed = w[t].committed /\ h.phase = w[t].phase /\ h.driver = f.driver
    BY <1>4 DEF Frame, Inside
  <1>11. e.pc \in Cleaning /\ g.pc \in Cleaning /\ h.pc \in Cleaning
    BY <1>8, <1>9, <1>10 DEF Cleaning
  <1> HIDE DEF e, g, h
  <1>12. CASE Go(t, e) /\ open' = open \ {t} /\ UNCHANGED writerFailure
    <2>1. Holding(e, t \in open', writerFailure')
      BY <1>8, <1>12 DEF Holding
    <2> QED BY <1>1, <1>3, <1>8, <1>11, <1>12, <2>1, CleanStep
  <1>13. CASE /\ f.driver = "stopping" \/ (f.driver = "none" /\ f.closeFailed)
              /\ Go(t, g) /\ writerFailure' = TRUE /\ UNCHANGED open
    <2>1. f.driver = "none" => t \notin open
      BY <1>1, <1>2, <1>4 DEF Holding, Inside
    <2>2. Holding(g, t \in open', writerFailure')
      BY <1>9, <1>13, <2>1 DEF Holding
    <2> QED BY <1>1, <1>3, <1>9, <1>11, <1>13, <2>2, CleanStep
  <1>14. CASE /\ f.driver = "live" \/ (f.driver = "none" /\ ~f.closeFailed)
              /\ Go(t, h) /\ UNCHANGED <<writerFailure, open>>
    <2>1. t \notin open
      BY <1>1, <1>2, <1>4, <1>14 DEF Holding, Inside
    <2>2. Holding(h, t \in open', writerFailure')
      BY <1>10, <1>14, <2>1 DEF Holding
    <2> QED BY <1>1, <1>3, <1>10, <1>11, <1>14, <2>2, CleanStep
  <1> QED BY <1>5, <1>12, <1>13, <1>14

-----------------------------------------------------------------------------
(* Outside of a session: admission, its end and the retry.                 *)

(* Streams that see nothing new.                                           *)
LEMMA StreamsSame ==
    ASSUME IInv, UNCHANGED <<confirmed, hints, stream>>
    PROVE  Streaming'
PROOF
  <1>1. Streaming
    BY Parts
  <1> QED BY <1>1 DEF Streaming, TypeStream, StreamInv, StreamNotStale

(* The frame of a writer that is not in a session tells the truth.         *)
LEMMA OutsideFrame ==
    ASSUME IInv, NEW t \in Writers, NEW f \in Frame, NEW n \in {0, 1},
           Go(t, f), applied[t] = n, f.pc \in {"idle", "waiting", "connect", "done"},
           f.pc = "connect" =>
             t \notin open /\ f.driver = "none" /\ f.failure = None /\ ~f.committed,
           f.pc # "done" => n = 0,
           f.pc = "done" => Truthful(f.raised, n),
           UNCHANGED <<applied, open, writerFailure>>
    PROVE  Framing' /\ w'[t] = f /\ \A u \in Writers \ {t} : w'[u] = w[u]
PROOF
  <1>1. Framing /\ applied = [applied EXCEPT ![t] = @]
    BY Parts, ThisFrame
  <1>2. Applied(f, n)
    BY DEF Applied, Trying, Cleaning
  <1>3. Holding(f, t \in open', writerFailure')
    BY DEF Holding, Inside
  <1>4. /\ applied' = [applied EXCEPT ![t] = n]
        /\ open' \in {open, open \cup {t}, open \ {t}}
        /\ writerFailure => writerFailure'
    BY <1>1
  <1> QED BY <1>1, <1>2, <1>3, <1>4, FrameStep

(* One more waiter, that was not in the queue.                             *)
LEMMA QueueJoin ==
    ASSUME IInv, NEW x \in Writers \cup {Closer}, queue' = Append(queue, x),
           \A i \in 1..Len(queue) : queue[i] # x,
           \A t \in Writers : t # x => w'[t] = w[t],
           x \in Writers => w'[x].pc = "waiting"
    PROVE  queue' \in Seq(Writers \cup {Closer}) /\ QueueInv'
PROOF
  <1>1. TypeLock /\ QueueInv
    BY Parts DEF Admission
  <1>2. queue \in Seq(Writers \cup {Closer}) /\ queue' \in Seq(Writers \cup {Closer})
    BY <1>1 DEF TypeLock
  <1>3. /\ Len(queue') = Len(queue) + 1 /\ Len(queue) \in Nat
        /\ \A i \in 1..Len(queue) : queue'[i] = queue[i]
        /\ queue'[Len(queue) + 1] = x
    BY <1>2
  <1>4. ASSUME NEW i \in 1..Len(queue'), queue'[i] \in Writers
        PROVE  w'[queue'[i]].pc = "waiting"
    <2>1. CASE i = Len(queue) + 1
      BY <1>3, <1>4, <2>1
    <2>2. CASE i \in 1..Len(queue)
      BY <1>1, <1>3, <1>4, <2>2 DEF QueueInv
    <2> QED BY <1>3, <2>1, <2>2
  <1>5. ASSUME NEW i \in 1..Len(queue'), NEW k \in 1..Len(queue'), queue'[i] = queue'[k]
        PROVE  i = k
    BY <1>1, <1>3, <1>5 DEF QueueInv
  <1> QED BY <1>2, <1>4, <1>5 DEF QueueInv

(* One waiter less: the one at place k of the queue.                       *)
LEMMA QueueLeave ==
    ASSUME IInv, NEW k \in 1..Len(queue),
           queue' = SubSeq(queue, 1, k - 1) \o SubSeq(queue, k + 1, Len(queue)),
           \A t \in Writers : t # queue[k] => w'[t] = w[t]
    PROVE  queue' \in Seq(Writers \cup {Closer}) /\ QueueInv'
PROOF
  <1>1. TypeLock /\ QueueInv
    BY Parts DEF Admission
  <1>2. queue \in Seq(Writers \cup {Closer}) /\ Len(queue) \in Nat
    BY <1>1 DEF TypeLock
  <1> DEFINE a == SubSeq(queue, 1, k - 1)
             b == SubSeq(queue, k + 1, Len(queue))
             at(i) == IF i < k THEN i ELSE i + 1
  <1>3. /\ a \in Seq(Writers \cup {Closer}) /\ Len(a) = k - 1
        /\ \A i \in 1..k - 1 : a[i] = queue[i]
    BY <1>2
  <1>4. /\ b \in Seq(Writers \cup {Closer}) /\ Len(b) = Len(queue) - k
        /\ \A i \in 1..Len(queue) - k : b[i] = queue[k + i]
    BY <1>2
  <1>5. queue' = a \o b
    OBVIOUS
  <1> HIDE DEF a, b
  <1>6. /\ queue' \in Seq(Writers \cup {Closer}) /\ Len(queue') = Len(a) + Len(b)
        /\ \A i \in 1..Len(a) + Len(b) :
             queue'[i] = IF i <= Len(a) THEN a[i] ELSE b[i - Len(a)]
    <2> DEFINE S == Writers \cup {Closer}
    <2>1. a \in Seq(S) /\ b \in Seq(S)
      BY <1>3, <1>4
    <2> HIDE DEF S
    <2>2. /\ a \o b \in Seq(S) /\ Len(a \o b) = Len(a) + Len(b)
          /\ \A i \in 1..Len(a) + Len(b) :
               (a \o b)[i] = IF i <= Len(a) THEN a[i] ELSE b[i - Len(a)]
      BY <2>1, ConcatProperties
    <2> QED BY <1>5, <2>2 DEF S
  <1>7. queue' \in Seq(Writers \cup {Closer}) /\ Len(queue') = Len(queue) - 1
    <2> DEFINE m == Len(queue)
               x == Len(a)
               y == Len(b)
               z == Len(queue')
    <2>1. m \in Nat /\ k \in 1..m /\ x = k - 1 /\ y = m - k /\ z = x + y
      BY <1>2, <1>3, <1>4, <1>6
    <2> HIDE DEF m, x, y, z
    <2>2. z = m - 1
      BY <2>1
    <2> QED BY <1>6, <2>2 DEF m, z
  <1>8. ASSUME NEW i \in 1..Len(queue')
        PROVE  at(i) \in 1..Len(queue) /\ at(i) # k /\ queue'[i] = queue[at(i)]
    <2>1. CASE i < k
      BY <1>2, <1>3, <1>4, <1>7, <1>6, <2>1
    <2>2. CASE i >= k
      <3>1. /\ k \in Int /\ i \in Int /\ Len(queue) \in Int /\ i <= Len(queue) - 1
            /\ k >= 1 /\ Len(a) = k - 1 /\ Len(b) = Len(queue) - k
        <4>1. i \in 1..Len(queue) - 1
          BY <1>7
        <4>2. Len(a) = k - 1 /\ Len(b) = Len(queue) - k /\ Len(queue) \in Nat
          BY <1>2, <1>3, <1>4
        <4> QED BY <4>1, <4>2
      <3>2. i - Len(a) \in 1..Len(b) /\ i \in 1..Len(a) + Len(b) /\ ~(i <= Len(a))
        BY <2>2, <3>1
      <3>3. queue'[i] = b[i - Len(a)]
        BY <1>6, <3>2
      <3>4. at(i) = i + 1 /\ i + 1 \in 1..Len(queue) /\ i + 1 # k
        BY <2>2, <3>1
      <3> HIDE DEF at
      <3> DEFINE d == i - Len(a)
      <3>5. d \in 1..Len(queue) - k /\ k + d = i + 1
        BY <3>1, <3>2
      <3>6. b[d] = queue[k + d]
        <4> HIDE DEF d
        <4> QED BY <1>4, <3>5
      <3>7. queue'[i] = queue[i + 1]
        BY <3>3, <3>5, <3>6
      <3> QED BY <3>4, <3>7
    <2> QED BY <2>1, <2>2
  <1>9. ASSUME NEW i \in 1..Len(queue'), queue'[i] \in Writers
        PROVE  w'[queue'[i]].pc = "waiting"
    <2>1. at(i) \in 1..Len(queue) /\ at(i) # k /\ queue'[i] = queue[at(i)]
      BY <1>8
    <2> HIDE DEF at
    <2>2. queue[at(i)] # queue[k]
      BY <1>1, <2>1 DEF QueueInv
    <2> QED BY <1>1, <1>9, <2>1, <2>2 DEF QueueInv
  <1>10. ASSUME NEW i \in 1..Len(queue'), NEW n \in 1..Len(queue'), queue'[i] = queue'[n]
        PROVE  i = n
    <2>1. /\ at(i) \in 1..Len(queue) /\ queue'[i] = queue[at(i)]
          /\ at(n) \in 1..Len(queue) /\ queue'[n] = queue[at(n)]
      BY <1>8
    <2>2. at(i) = at(n)
      <3> HIDE DEF at
      <3> QED BY <1>1, <1>10, <2>1 DEF QueueInv
    <2> QED BY <1>2, <1>7, <2>2
  <1> QED BY <1>7, <1>9, <1>10 DEF QueueInv

(* Taking the head is leaving from place 1.                                *)
LEMMA QueueServe ==
    ASSUME IInv, queue # <<>>, queue' = Tail(queue),
           \A t \in Writers : t # Head(queue) => w'[t] = w[t]
    PROVE  queue' \in Seq(Writers \cup {Closer}) /\ QueueInv'
PROOF
  <1>1. TypeLock
    BY Parts DEF Admission
  <1>2. queue \in Seq(Writers \cup {Closer})
    BY <1>1 DEF TypeLock
  <1>3. 1 \in 1..Len(queue) /\ queue[1] = Head(queue)
    BY <1>2
  <1>4. SubSeq(queue, 1, 0) = <<>> /\ SubSeq(queue, 2, Len(queue)) = Tail(queue)
    BY <1>2
  <1>5. Tail(queue) = SubSeq(queue, 1, 1 - 1) \o SubSeq(queue, 1 + 1, Len(queue))
    BY <1>2, <1>4
  <1> QED BY <1>3, <1>5, QueueLeave

(* The lock when a frame outside of a session changes.                     *)
LEMMA LockSame ==
    ASSUME IInv, NEW t \in Writers,
           \A u \in Writers \ {t} : w'[u] = w[u],
           w'[t].pc \notin Inside,
           UNCHANGED <<lock, writerFailure, open>>
    PROVE  LockInv'
PROOF
  <1>1. LockInv
    BY Parts DEF Admission
  <1> QED BY <1>1 DEF LockInv

LEMMA EnterKeeps ==
    ASSUME IInv, Assumptions, NEW t \in Writers, Enter(t)
    PROVE  IInv'
PROOF
  <1>1. w[t].pc = "idle" /\ w[t] \in Frame /\ applied[t] = 0
    BY ThisFrame DEF Enter, Applied
  <1>2. /\ queue' = Append(queue, t)
        /\ UNCHANGED <<lock, writerFailure, closed, open, applied, confirmed, hints, stream>>
    BY DEF Enter
  <1> DEFINE f == [w[t] EXCEPT !.pc = "waiting"]
  <1>3. Go(t, f)
    BY DEF Enter
  <1>4. f \in Frame /\ f.pc = "waiting"
    BY <1>1 DEF Frame
  <1> HIDE DEF f
  <1>5. Framing' /\ w'[t] = f /\ \A u \in Writers \ {t} : w'[u] = w[u]
    BY <1>1, <1>2, <1>3, <1>4, OutsideFrame
  <1>6. \A i \in 1..Len(queue) : queue[i] # t
    BY <1>1, Parts DEF Admission, QueueInv
  <1>7. queue' \in Seq(Writers \cup {Closer}) /\ QueueInv'
    BY <1>2, <1>4, <1>5, <1>6, QueueJoin
  <1>8. TypeLock'
    BY <1>2, <1>7, Parts DEF Admission, TypeLock
  <1>9. LockInv'
    BY <1>2, <1>4, <1>5, LockSame DEF Inside
  <1> QED BY <1>2, <1>5, <1>7, <1>8, <1>9, StreamsSame, PartsNext DEF Admission

LEMMA AdmitKeeps ==
    ASSUME IInv, Assumptions, NEW t \in Writers, Admit(t)
    PROVE  IInv'
PROOF
  <1>1. /\ lock = None /\ queue # <<>> /\ Head(queue) = t /\ queue' = Tail(queue)
        /\ UNCHANGED <<writerFailure, closed, open, applied, confirmed, hints, stream>>
    BY DEF Admit
  <1>2. TypeLock /\ LockInv /\ QueueInv
    BY Parts DEF Admission
  <1>3. queue \in Seq(Writers \cup {Closer})
    BY <1>2 DEF TypeLock
  <1>4. 1 \in 1..Len(queue) /\ queue[1] = t
    BY <1>1, <1>3
  <1>5. w[t].pc = "waiting" /\ applied[t] = 0
    BY <1>2, <1>4, ThisFrame DEF QueueInv, Applied
  <1>6. None \notin Writers
    BY DEF Assumptions, CloserAssumption
  <1> DEFINE f == [NewFrame EXCEPT !.pc = "connect"]
             e == [kind |-> "unavailable", phase |-> None, notes |-> {}]
             g == [NewFrame EXCEPT !.pc = "done", !.raised = e]
  <1>7. \/ writer_available /\ lock' = t /\ Go(t, f)
        \/ ~writer_available /\ lock' = lock /\ Go(t, g)
    BY DEF Admit
  <1>8. /\ f \in Frame /\ f.pc = "connect" /\ f.driver = "none" /\ f.failure = None
        /\ ~f.committed
    BY NewFrameType DEF NewFrame, Frame, Inside
  <1>9. e \in Errors /\ e.notes = {}
    BY DEF Errors
  <1>10. e # None
    BY <1>9 DEF Assumptions, NoneAssumption
  <1> HIDE DEF e
  <1>11. g \in Frame /\ g.pc = "done" /\ g.raised = e
    BY <1>9, NewFrameType DEF NewFrame, Frame
  <1> HIDE DEF f, g
  <1>12. CASE writer_available /\ lock' = t /\ Go(t, f)
    <2>1. open = {}
      <3>1. open \subseteq Writers /\ ~writerFailure
        BY <1>12, Parts DEF Framing, TypeFrames, writer_available
      <3> QED BY <1>1, <1>2, <1>6, <3>1 DEF LockInv
    <2>2. Framing' /\ w'[t] = f /\ \A u \in Writers \ {t} : w'[u] = w[u]
      BY <1>1, <1>5, <1>8, <1>12, <2>1, OutsideFrame
    <2>3. queue' \in Seq(Writers \cup {Closer}) /\ QueueInv'
      BY <1>1, <2>2, QueueServe
    <2>4. TypeLock'
      BY <1>1, <1>2, <1>12, <2>3 DEF TypeLock
    <2>5. LockInv'
      BY <1>1, <1>2, <1>6, <1>12, <2>1, <2>2 DEF LockInv
    <2> QED BY <1>1, <2>2, <2>3, <2>4, <2>5, StreamsSame, PartsNext DEF Admission
  <1>13. CASE lock' = lock /\ Go(t, g)
    <2>1. Truthful(g.raised, 0)
      BY <1>9, <1>10, <1>11 DEF Truthful, write_failure_committed
    <2>2. Framing' /\ w'[t] = g /\ \A u \in Writers \ {t} : w'[u] = w[u]
      BY <1>1, <1>5, <1>11, <1>13, <2>1, OutsideFrame
    <2>3. queue' \in Seq(Writers \cup {Closer}) /\ QueueInv'
      BY <1>1, <2>2, QueueServe
    <2>4. TypeLock'
      BY <1>1, <1>2, <1>13, <2>3 DEF TypeLock
    <2>5. LockInv'
      BY <1>1, <1>11, <1>13, <2>2, LockSame DEF Inside
    <2> QED BY <1>1, <2>2, <2>3, <2>4, <2>5, StreamsSame, PartsNext DEF Admission
  <1> QED BY <1>7, <1>12, <1>13

LEMMA CancelWaitingKeeps ==
    ASSUME IInv, Assumptions, NEW t \in Writers, CancelWaiting(t)
    PROVE  IInv'
PROOF
  <1>1. /\ w[t].pc = "waiting" /\ w[t] \in Frame /\ applied[t] = 0
        /\ UNCHANGED <<lock, writerFailure, closed, open, applied, confirmed, hints, stream>>
    BY ThisFrame DEF CancelWaiting, Applied
  <1>2. PICK i \in 1..Len(queue) :
          /\ queue[i] = t
          /\ queue' = SubSeq(queue, 1, i - 1) \o SubSeq(queue, i + 1, Len(queue))
    BY DEF CancelWaiting
  <1> DEFINE e == [kind |-> "cancel", phase |-> None, notes |-> {}]
             g == [w[t] EXCEPT !.pc = "done", !.raised = e]
  <1>3. Go(t, g)
    BY DEF CancelWaiting
  <1>4. e \in Errors /\ e.notes = {}
    BY DEF Errors
  <1>5. e # None
    BY <1>4 DEF Assumptions, NoneAssumption
  <1> HIDE DEF e
  <1>6. g \in Frame /\ g.pc = "done" /\ g.raised = e
    BY <1>1, <1>4 DEF Frame
  <1> HIDE DEF g
  <1>7. Truthful(g.raised, 0)
    BY <1>4, <1>5, <1>6 DEF Truthful, write_failure_committed
  <1>8. Framing' /\ w'[t] = g /\ \A u \in Writers \ {t} : w'[u] = w[u]
    BY <1>1, <1>3, <1>6, <1>7, OutsideFrame
  <1>9. queue' \in Seq(Writers \cup {Closer}) /\ QueueInv'
    BY <1>2, <1>8, QueueLeave
  <1>10. TypeLock'
    BY <1>1, <1>9, Parts DEF Admission, TypeLock
  <1>11. LockInv'
    BY <1>1, <1>6, <1>8, LockSame DEF Inside
  <1> QED BY <1>1, <1>8, <1>9, <1>10, <1>11, StreamsSame, PartsNext DEF Admission

(* A frame outside of a session changes, nobody enters or leaves the queue. *)
LEMMA QueueSame ==
    ASSUME IInv, NEW t \in Writers, w[t].pc # "waiting", UNCHANGED queue,
           \A u \in Writers \ {t} : w'[u] = w[u]
    PROVE  QueueInv'
PROOF
  <1>1. QueueInv
    BY Parts DEF Admission
  <1>2. \A i \in 1..Len(queue) : queue[i] # t
    BY <1>1 DEF QueueInv
  <1> QED BY <1>1, <1>2 DEF QueueInv

(* The verdict allows a retry only of a write that left nothing.           *)
LEMMA RetryKeeps ==
    ASSUME IInv, Assumptions, NEW t \in Writers, Retry(t)
    PROVE  IInv'
PROOF
  <1>1. /\ w[t].pc = "done" /\ w[t].raised # None /\ write_failure_retryable(w[t].raised)
        /\ Go(t, NewFrame)
        /\ UNCHANGED <<lock, queue, writerFailure, closed, open, applied, confirmed, hints,
                       stream>>
    BY DEF Retry
  <1>2. applied[t] = 0
    BY <1>1, ThisFrame DEF Applied, Truthful, write_failure_retryable
  <1>3. NewFrame.pc = "idle"
    BY DEF NewFrame
  <1>4. Framing' /\ w'[t] = NewFrame /\ \A u \in Writers \ {t} : w'[u] = w[u]
    BY <1>1, <1>2, <1>3, NewFrameType, OutsideFrame
  <1>5. QueueInv'
    BY <1>1, <1>4, QueueSame
  <1>6. TypeLock'
    BY <1>1, Parts DEF Admission, TypeLock
  <1>7. LockInv'
    BY <1>1, <1>3, <1>4, LockSame DEF Inside
  <1> QED BY <1>1, <1>4, <1>5, <1>6, <1>7, StreamsSame, PartsNext DEF Admission

-----------------------------------------------------------------------------
(* Hints and streams.                                                      *)

StreamType == [pc : {"sync", "wait", "gone"}, seen : Nat, subscribed : BOOLEAN]

(* What Streaming says of one stream.                                      *)
StreamOK(r, h, c) ==
    /\ r \in StreamType /\ h \in Seq(BOOLEAN) /\ Len(h) <= QueueLimit
    /\ (r.pc = "wait" /\ h = <<>>) => r.seen = c
    /\ ~r.subscribed => r.pc = "gone" \/ \E i \in 1..Len(h) : ~h[i]

LEMMA StreamingOf ==
    ASSUME Streaming, NEW s \in Streams
    PROVE  StreamOK(stream[s], hints[s], confirmed)
PROOF
  BY DEF Streaming, TypeStream, StreamInv, StreamNotStale, StreamOK, StreamType

LEMMA StreamingNext ==
    ASSUME NEW r, NEW h, confirmed' \in Nat,
           stream' = [s \in Streams |-> r[s]], hints' = [s \in Streams |-> h[s]],
           \A s \in Streams : StreamOK(r[s], h[s], confirmed')
    PROVE  Streaming'
PROOF
  <1>1. \A s \in Streams : stream'[s] = r[s] /\ hints'[s] = h[s]
    OBVIOUS
  <1>2. TypeStream'
    BY <1>1 DEF TypeStream, StreamOK, StreamType
  <1>3. StreamInv'
    BY <1>1 DEF StreamInv, StreamNotStale, StreamOK
  <1> QED BY <1>2, <1>3 DEF Streaming

(* A hint that is queued behind the others, or alone.                      *)
LEMMA Hinted ==
    ASSUME NEW S, NEW x \in S, NEW q \in Seq(S)
    PROVE  /\ <<x>> \in Seq(S) /\ Len(<<x>>) = 1 /\ <<x>> # <<>> /\ <<x>>[1] = x
           /\ Append(q, x) \in Seq(S) /\ Len(Append(q, x)) = Len(q) + 1
           /\ Append(q, x) # <<>>
PROOF
  <1>1. <<x>> \in Seq(S)
    OBVIOUS
  <1>2. Len(<<x>>) = 1 /\ <<x>> # <<>> /\ <<x>>[1] = x
    OBVIOUS
  <1>3. Append(q, x) \in Seq(S) /\ Len(Append(q, x)) = Len(q) + 1
    OBVIOUS
  <1>4. Append(q, x) # <<>>
    BY AppendProperties
  <1> QED BY <1>1, <1>2, <1>3, <1>4

LEMMA PublishKeeps ==
    ASSUME Streaming, Assumptions, publish, confirmed' = confirmed + 1
    PROVE  Streaming'
PROOF
  <1> DEFINE h == [s \in Streams |->
                     IF ~stream[s].subscribed THEN hints[s]
                     ELSE IF Len(hints[s]) = QueueLimit THEN <<FALSE>>
                     ELSE Append(hints[s], TRUE)]
             b(s) == stream[s].subscribed /\ Len(hints[s]) < QueueLimit
             r == [s \in Streams |-> [stream[s] EXCEPT !.subscribed = b(s)]]
  <1>1. hints' = h /\ stream' = r
    BY DEF publish
  <1>2. confirmed \in Nat /\ QueueLimit \in Nat \ {0}
    BY DEF Streaming, TypeStream, Assumptions, LimitAssumption
  <1>3. ASSUME NEW s \in Streams
        PROVE  StreamOK(r[s], h[s], confirmed + 1)
    <2>1. StreamOK(stream[s], hints[s], confirmed)
      BY StreamingOf
    <2>2. b(s) \in BOOLEAN
      BY <2>1 DEF StreamOK, StreamType
    <2>3. Len(hints[s]) \in Nat
      BY <2>1 DEF StreamOK
    <2> DEFINE q == r[s]
               c == b(s)
    <2>4. q = [stream[s] EXCEPT !.subscribed = c]
      OBVIOUS
    <2>5. c <=> stream[s].subscribed /\ Len(hints[s]) < QueueLimit
      OBVIOUS
    <2> HIDE DEF b, c
    <2>6. q \in StreamType /\ q.pc = stream[s].pc /\ q.seen = stream[s].seen /\ (q.subscribed <=> c)
      BY <2>1, <2>2, <2>4 DEF StreamOK, StreamType, c
    <2> HIDE DEF q
    <2>7. CASE ~stream[s].subscribed
      <3>1. h[s] = hints[s] /\ ~q.subscribed
        BY <2>5, <2>6, <2>7
      <3>2. \/ stream[s].pc = "gone" /\ q.pc = "gone"
            \/ hints[s] # <<>> /\ \E i \in 1..Len(h[s]) : ~h[s][i]
        BY <2>1, <2>6, <2>7, <3>1 DEF StreamOK
      <3> QED BY <2>1, <2>6, <3>1, <3>2 DEF StreamOK, q
    <2>8. CASE stream[s].subscribed /\ Len(hints[s]) = QueueLimit
      <3>1. h[s] = <<FALSE>>
        BY <2>8
      <3> DEFINE no == FALSE
                 one == h[s]
      <3>2. no \in BOOLEAN /\ hints[s] \in Seq(BOOLEAN) /\ ~no
        BY <2>1 DEF StreamOK
      <3>3. one = <<no>>
        BY <3>1
      <3> HIDE DEF no, one
      <3>4. one \in Seq(BOOLEAN) /\ Len(one) = 1 /\ one # <<>> /\ one[1] = no
        BY <3>2, <3>3, Hinted
      <3>5. 1 \in 1..Len(one) /\ Len(one) <= QueueLimit
        BY <1>2, <3>4
      <3>6. \E i \in 1..Len(one) : ~one[i]
        BY <3>2, <3>4, <3>5
      <3>7. StreamOK(q, one, confirmed + 1)
        BY <2>6, <3>4, <3>5, <3>6 DEF StreamOK
      <3> QED BY <3>7 DEF one, q
    <2>9. CASE stream[s].subscribed /\ Len(hints[s]) # QueueLimit
      <3>1. h[s] = Append(hints[s], TRUE)
        BY <2>9
      <3> DEFINE yes == TRUE
                 more == h[s]
      <3>2. yes \in BOOLEAN /\ hints[s] \in Seq(BOOLEAN)
        BY <2>1 DEF StreamOK
      <3>3. more = Append(hints[s], yes)
        BY <3>1
      <3> HIDE DEF yes, more
      <3>4. more \in Seq(BOOLEAN) /\ Len(more) = Len(hints[s]) + 1 /\ more # <<>>
        BY <3>2, <3>3, Hinted
      <3>5. Len(hints[s]) < QueueLimit /\ Len(more) <= QueueLimit
        BY <1>2, <2>1, <2>3, <2>9, <3>4 DEF StreamOK
      <3>6. q.subscribed
        BY <2>5, <2>6, <2>9, <3>5
      <3>7. StreamOK(q, more, confirmed + 1)
        BY <2>6, <3>4, <3>5, <3>6 DEF StreamOK
      <3> QED BY <3>7 DEF more, q
    <2> QED BY <2>7, <2>8, <2>9
  <1> HIDE DEF h, r
  <1>4. stream' = [s \in Streams |-> r[s]] /\ hints' = [s \in Streams |-> h[s]]
    BY <1>1 DEF h, r
  <1> QED BY <1>2, <1>3, <1>4, StreamingNext

(* A stream moves; the writer and the other streams do not.                *)
LEMMA StreamStep ==
    ASSUME IInv, NEW s \in Streams, NEW r, NEW h,
           stream' = [stream EXCEPT ![s] = r], hints' = [hints EXCEPT ![s] = h],
           UNCHANGED <<lock, queue, writerFailure, closed, w, open, applied, confirmed>>,
           StreamOK(r, h, confirmed)
    PROVE  IInv'
PROOF
  <1>1. Framing /\ Admission /\ Streaming
    BY Parts
  <1>2. /\ stream \in [Streams -> StreamType] /\ hints \in [Streams -> Seq(BOOLEAN)]
        /\ confirmed \in Nat
    BY <1>1 DEF Streaming, TypeStream, StreamType
  <1>3. ASSUME NEW u \in Streams
        PROVE  StreamOK(stream'[u], hints'[u], confirmed')
    <2>1. CASE u = s
      BY <1>2, <2>1
    <2>2. CASE u # s
      BY <1>1, <1>2, <2>2, StreamingOf
    <2> QED BY <2>1, <2>2
  <1>4. r \in StreamType /\ h \in Seq(BOOLEAN)
    BY DEF StreamOK
  <1>5. Streaming'
    <2>1. TypeStream'
      BY <1>2, <1>3, <1>4 DEF TypeStream, StreamOK, StreamType
    <2>2. StreamInv'
      BY <1>3 DEF StreamInv, StreamNotStale, StreamOK
    <2> QED BY <2>1, <2>2 DEF Streaming
  <1>6. Framing'
    BY <1>1 DEF Framing, TypeFrames, FrameInv
  <1>7. Admission'
    BY <1>1 DEF Admission, TypeLock, LockInv, QueueInv
  <1> QED BY <1>5, <1>6, <1>7, PartsNext

LEMMA StreamsKeep ==
    ASSUME IInv, Assumptions, NEW s \in Streams,
           StreamSync(s) \/ StreamHint(s) \/ StreamReconnect(s)
    PROVE  IInv'
PROOF
  <1>1. Streaming
    BY Parts
  <1>2. StreamOK(stream[s], hints[s], confirmed) /\ stream[s] \in StreamType
    BY <1>1, StreamingOf DEF StreamOK
  <1>3. /\ stream \in [Streams -> StreamType] /\ hints \in [Streams -> Seq(BOOLEAN)]
        /\ confirmed \in Nat /\ QueueLimit \in Nat
    BY <1>1 DEF Streaming, TypeStream, StreamType, Assumptions, LimitAssumption
  <1>4. <<>> \in Seq(BOOLEAN) /\ Len(<<>>) <= QueueLimit
    BY <1>3, EmptySeq
  <1>5. CASE StreamSync(s)
    <2> DEFINE r == [stream[s] EXCEPT !.pc = "wait", !.seen = confirmed]
    <2>1. /\ stream[s].pc = "sync" /\ stream' = [stream EXCEPT ![s] = r]
          /\ UNCHANGED <<lock, queue, writerFailure, closed, w, open, applied, confirmed, hints>>
      BY <1>3, <1>5 DEF StreamSync
    <2>2. /\ r \in StreamType /\ r.pc = "wait" /\ r.seen = confirmed
          /\ r.subscribed = stream[s].subscribed
      BY <1>2, <1>3 DEF StreamType
    <2> HIDE DEF r
    <2>3. StreamOK(r, hints[s], confirmed)
      BY <1>2, <2>1, <2>2 DEF StreamOK
    <2>4. hints' = [hints EXCEPT ![s] = hints[s]]
      BY <1>3, <2>1
    <2> QED BY <2>1, <2>3, <2>4, StreamStep
  <1>6. CASE StreamHint(s)
    <2> DEFINE next == IF \E i \in 1..Len(hints[s]) : ~hints[s][i] THEN "gone" ELSE "sync"
               r == [stream[s] EXCEPT !.pc = next]
    <2>1. /\ stream[s].pc = "wait" /\ stream' = [stream EXCEPT ![s] = r]
          /\ hints' = [hints EXCEPT ![s] = <<>>]
          /\ UNCHANGED <<lock, queue, writerFailure, closed, w, open, applied, confirmed>>
      BY <1>3, <1>6 DEF StreamHint
    <2>2. ~stream[s].subscribed => next = "gone"
      BY <1>2, <2>1 DEF StreamOK
    <2>3. next \in {"gone", "sync"}
      OBVIOUS
    <2> HIDE DEF next
    <2>4. r \in StreamType /\ r.pc = next /\ r.subscribed = stream[s].subscribed
      BY <1>2, <2>3 DEF StreamType
    <2> HIDE DEF r
    <2>5. StreamOK(r, <<>>, confirmed)
      BY <1>4, <2>2, <2>3, <2>4 DEF StreamOK
    <2> QED BY <2>1, <2>5, StreamStep
  <1>7. CASE StreamReconnect(s)
    <2> DEFINE r == [stream[s] EXCEPT !.pc = "sync", !.subscribed = TRUE]
    <2>1. /\ stream' = [stream EXCEPT ![s] = r] /\ hints' = [hints EXCEPT ![s] = <<>>]
          /\ UNCHANGED <<lock, queue, writerFailure, closed, w, open, applied, confirmed>>
      BY <1>3, <1>7 DEF StreamReconnect
    <2>2. r \in StreamType /\ r.pc = "sync" /\ r.subscribed
      BY <1>2 DEF StreamType
    <2> HIDE DEF r
    <2>3. StreamOK(r, <<>>, confirmed)
      BY <1>4, <2>2 DEF StreamOK
    <2> QED BY <2>1, <2>3, StreamStep
  <1> QED BY <1>5, <1>6, <1>7

(* The owner is released; what its caller is told is true.                 *)
LEMMA LeaveKeeps ==
    ASSUME IInv, Assumptions, NEW t \in Writers, Leave(t)
    PROVE  IInv'
PROOF
  <1>1. /\ w[t].pc = "leave" /\ lock' = None
        /\ UNCHANGED <<queue, writerFailure, closed, open, applied>>
    BY DEF Leave
  <1>2. /\ w[t] \in Frame /\ applied[t] \in {0, 1} /\ Applied(w[t], applied[t])
        /\ Holding(w[t], t \in open, writerFailure)
    BY ThisFrame
  <1> DEFINE e == Leaves(w[t])
             g == [NewFrame EXCEPT !.pc = "done", !.raised = e]
  <1>3. Go(t, g)
    BY DEF Leave
  <1>4. e \in Errors \cup {None} /\ Truthful(e, applied[t])
    BY <1>1, <1>2, LeavesTruth
  <1> HIDE DEF e
  <1>5. g \in Frame /\ g.pc = "done" /\ g.raised = e
    BY <1>4, NewFrameType DEF NewFrame, Frame
  <1> HIDE DEF g
  <1>6. Framing' /\ w'[t] = g /\ \A u \in Writers \ {t} : w'[u] = w[u]
    BY <1>1, <1>2, <1>3, <1>4, <1>5, OutsideFrame
  <1>7. TypeLock /\ LockInv /\ None \notin Writers
    BY Parts DEF Admission, Assumptions, CloserAssumption
  <1>8. lock = t
    BY <1>1, <1>7 DEF LockInv, Inside
  <1>9. LockInv'
    <2>1. \A u \in Writers : w'[u].pc \notin Inside
      BY <1>5, <1>6, <1>7, <1>8 DEF LockInv, Inside
    <2>2. \A u \in open : u = t /\ writerFailure
      BY <1>1, <1>2, <1>7, <1>8 DEF LockInv, Holding
    <2> QED BY <1>1, <1>7, <2>1, <2>2 DEF LockInv
  <1>10. QueueInv'
    BY <1>1, <1>6, QueueSame
  <1>11. TypeLock'
    BY <1>1, <1>7 DEF TypeLock
  <1>12. Streaming'
    <2>1. \/ confirmed' = confirmed + 1 /\ publish
          \/ UNCHANGED <<confirmed, hints, stream>>
      BY DEF Leave
    <2> QED BY <2>1, Parts, PublishKeeps, StreamsSame
  <1> QED BY <1>6, <1>9, <1>10, <1>11, <1>12, PartsNext DEF Admission

-----------------------------------------------------------------------------
(* Readers and shutdown.                                                   *)

LEMMA ReadKeeps ==
    ASSUME IInv, ReadSession
    PROVE  IInv'
PROOF
  <1>1. /\ writerFailure' = TRUE
        /\ UNCHANGED <<lock, queue, closed, w, open, applied, confirmed, hints, stream>>
    BY DEF ReadSession
  <1>2. Framing /\ Admission
    BY Parts
  <1>3. Framing'
    BY <1>1, <1>2 DEF Framing, TypeFrames, FrameInv, Holding
  <1>4. TypeLock'
    <2>1. writerFailure' \in BOOLEAN
      BY <1>1
    <2> QED BY <1>1, <1>2, <2>1 DEF Admission, TypeLock
  <1>5. LockInv' /\ QueueInv'
    BY <1>1, <1>2 DEF Admission, LockInv, QueueInv
  <1> QED BY <1>1, <1>3, <1>4, <1>5, StreamsSame, PartsNext DEF Admission

LEMMA CloserKeeps ==
    ASSUME IInv, Assumptions, CloseRequest \/ CloseAdmit \/ CloseDispose
    PROVE  IInv'
PROOF
  <1>1. Framing /\ TypeLock /\ LockInv /\ QueueInv /\ open \subseteq Writers
    BY Parts DEF Admission, Framing, TypeFrames
  <1>2. Closer \notin Writers /\ None \notin Writers
    BY DEF Assumptions, CloserAssumption
  <1>3. UNCHANGED <<writerFailure, w, open, applied, confirmed, hints, stream>>
    BY DEF CloseRequest, CloseAdmit, CloseDispose
  <1>4. Framing'
    BY <1>1, <1>3 DEF Framing, TypeFrames, FrameInv
  <1>5. CASE CloseRequest
    <2>1. /\ queue' = Append(queue, Closer) /\ UNCHANGED <<lock, closed>>
          /\ \A i \in 1..Len(queue) : queue[i] # Closer
      BY <1>5 DEF CloseRequest
    <2>2. queue' \in Seq(Writers \cup {Closer}) /\ QueueInv'
      BY <1>2, <1>3, <2>1, QueueJoin
    <2>3. TypeLock'
      BY <1>1, <1>3, <2>1, <2>2 DEF TypeLock
    <2>4. LockInv'
      BY <1>1, <1>3, <2>1 DEF LockInv
    <2> QED BY <1>3, <1>4, <2>2, <2>3, <2>4, StreamsSame, PartsNext DEF Admission
  <1>6. CASE CloseAdmit
    <2>1. /\ lock = None /\ queue # <<>> /\ queue' = Tail(queue) /\ lock' = Closer
          /\ closed' = TRUE
      BY <1>6 DEF CloseAdmit
    <2>2. queue' \in Seq(Writers \cup {Closer}) /\ QueueInv'
      BY <1>3, <2>1, QueueServe
    <2>3. TypeLock'
      <3>1. closed' \in BOOLEAN
        BY <2>1
      <3> QED BY <1>1, <1>3, <2>1, <2>2, <3>1 DEF TypeLock
    <2>4. LockInv'
      BY <1>1, <1>2, <1>3, <2>1 DEF LockInv, TypeLock
    <2> QED BY <1>3, <1>4, <2>2, <2>3, <2>4, StreamsSame, PartsNext DEF Admission
  <1>7. CASE CloseDispose
    <2>1. lock = Closer /\ lock' = None /\ UNCHANGED <<queue, closed>>
      BY <1>7 DEF CloseDispose
    <2>2. TypeLock' /\ QueueInv'
      BY <1>1, <1>3, <2>1 DEF TypeLock, QueueInv
    <2>3. LockInv'
      BY <1>1, <1>2, <1>3, <2>1 DEF LockInv
    <2> QED BY <1>3, <1>4, <2>2, <2>3, StreamsSame, PartsNext DEF Admission
  <1> QED BY <1>5, <1>6, <1>7

-----------------------------------------------------------------------------
(* The invariant and what it shows.                                        *)

LEMMA NextKeeps ==
    ASSUME Assumptions, IInv, [Next]_vars
    PROVE  IInv'
PROOF
  <1>1. CASE UNCHANGED vars
    <2>1. UNCHANGED <<lock, queue, writerFailure, closed, w, open, applied, confirmed,
                      hints, stream>>
      BY <1>1 DEF vars
    <2>2. Framing /\ Admission
      BY Parts
    <2>3. Framing' /\ Admission'
      BY <2>1, <2>2 DEF Framing, TypeFrames, FrameInv, Admission, TypeLock, LockInv, QueueInv
    <2> QED BY <2>1, <2>3, StreamsSame, PartsNext
  <1>2. ASSUME NEW t \in Writers, Session(t)
        PROVE  IInv'
    BY <1>2, ConnectKeeps, BeginKeeps, ExecuteKeeps, FlushKeeps, CommitKeeps, RollbackKeeps,
       InvalidateKeeps, CloseKeeps, PhysicalExitKeeps, LeaveKeeps DEF Session
  <1>3. ASSUME NEW t \in Writers, Enter(t) \/ Admit(t) \/ Cancel(t) \/ Retry(t)
        PROVE  IInv'
    BY <1>3, EnterKeeps, AdmitKeeps, CancelShieldedKeeps, CancelWaitingKeeps,
       CancelStatementKeeps, RetryKeeps DEF Cancel
  <1>4. ASSUME NEW s \in Streams, StreamSync(s) \/ StreamHint(s) \/ StreamReconnect(s)
        PROVE  IInv'
    BY <1>4, StreamsKeep
  <1>5. CASE ReadSession \/ CloseRequest \/ CloseAdmit \/ CloseDispose
    BY <1>5, ReadKeeps, CloserKeeps
  <1> QED BY <1>1, <1>2, <1>3, <1>4, <1>5 DEF Next

(* The invariant holds in every behaviour of the writer.                   *)
THEOREM Inductive ==
    ASSUME Assumptions
    PROVE  Spec => []IInv
PROOF
  <1>1. Init => IInv
    BY InitIInv
  <1>2. IInv /\ [Next]_vars => IInv'
    BY NextKeeps
  <1> QED BY <1>1, <1>2, PTL DEF Spec

(* A session that returns is durable, an exception that reads as committed *)
(* is, and one that reads as rolled back left nothing                      *)
(* (immediate_session, write_failure_committed).                           *)
THEOREM VerdictsAreTrue ==
    ASSUME Assumptions
    PROVE  Spec => []VerdictTrue
PROOF
  <1>1. IInv => VerdictTrue
    BY DEF IInv, FrameInv, Applied, Truthful, VerdictTrue, Done
  <1> QED BY <1>1, Inductive, PTL

(* The retry of WorkSession._save never applies a write twice.             *)
THEOREM AppliedOnce ==
    ASSUME Assumptions
    PROVE  Spec => []RetriedOnce
PROOF
  <1>1. IInv => RetriedOnce
    BY DEF IInv, FrameInv, Applied, RetriedOnce
  <1> QED BY <1>1, Inductive, PTL

(* A transaction is left without its owner only where admission has ended  *)
(* for good (the cleanup of immediate_session).                            *)
THEOREM OwnedOrClosed ==
    ASSUME Assumptions
    PROVE  Spec => []NoOpenWithoutOwner
PROOF
  <1>1. IInv => NoOpenWithoutOwner
    BY DEF IInv, LockInv, NoOpenWithoutOwner
  <1> QED BY <1>1, Inductive, PTL

(* Two connections never hold a write transaction at once, although a      *)
(* driver outlives the await that gave it up.                              *)
THEOREM OneWriter ==
    ASSUME Assumptions
    PROVE  Spec => []OneTransaction
PROOF
  <1>1. ASSUME IInv
        PROVE  OneTransaction
    <2>1. CASE open = {}
      BY <2>1, FS_EmptySet DEF OneTransaction
    <2>2. CASE open # {}
      <3>1. PICK t : t \in open
        BY <2>2
      <3>2. open = {t}
        BY <1>1, <3>1 DEF IInv, LockInv
      <3>3. Cardinality({t}) = 1
        BY FS_Singleton
      <3> QED BY <3>2, <3>3 DEF OneTransaction
    <2> QED BY <2>1, <2>2
  <1> QED BY <1>1, Inductive, PTL

(* A client stream that waits with an empty queue has read every confirmed *)
(* commit (CommitHints.publish, the stream of client_api).                 *)
THEOREM StreamsSeeCommits ==
    ASSUME Assumptions
    PROVE  Spec => []StreamNotStale
PROOF
  <1>1. IInv => StreamNotStale
    BY DEF IInv, StreamInv
  <1> QED BY <1>1, Inductive, PTL

(* Whatever is cancelled or fails, the verdict on an exception, the retry  *)
(* that trusts it and the hints of a stream are true                       *)
(* (DatabaseWriter!WriterTellsTruth).                                      *)
THEOREM TellsTruth ==
    ASSUME Assumptions
    PROVE  Spec => []WriterTellsTruth
PROOF
  <1>1. IInv => TypeOK
    BY DEF IInv
  <1> QED BY <1>1, Inductive, VerdictsAreTrue, AppliedOnce, StreamsSeeCommits, PTL
          DEF WriterTellsTruth

(* SQLite has one writer, known to the lock while admission goes on        *)
(* (DatabaseWriter!SingleWriter).                                          *)
THEOREM OneWriterOwned ==
    ASSUME Assumptions
    PROVE  Spec => []SingleWriter
PROOF
  BY OwnedOrClosed, OneWriter, PTL DEF SingleWriter

-----------------------------------------------------------------------------
(* WorkJournal.  Keys of calls, and every fact that a request can tell.    *)

KeySet == Nat \X Nat \X Nat
Facts == Journal!ToldAll(Journal!Inputs) \cup Journal!Results(KeySet)

Memory ==
    [chain : Nat, seq : Nat, ids : SUBSET Journal!Inputs, shown : SUBSET Facts,
     calls : 0 .. MaxCalls, contract : Nat]

JournalRow ==
    [phase : Journal!Rows, chain : Nat, seq : Nat, ids : SUBSET Journal!Inputs,
     shown : SUBSET Facts, calls : 0 .. MaxCalls, contract : Nat]

JournalTypes ==
    /\ inbox \in [Journal!Inputs -> {"absent", "pending", "staged", "consumed"}]
    /\ mem \in Memory
    /\ journal \in JournalRow
    /\ requests \in Nat /\ begun \subseteq KeySet
    /\ contract \in 1 .. MaxContracts /\ decided \in BOOLEAN
    /\ pc \in {"down", "inputs", "loop", "reserved", "sent", "answered", "calls", "tools",
               "final", "closing", "end"}

(* Where the session stands to the row: it is ahead until the row knows of *)
(* its request, and only a stored response has calls.                      *)
Behind(k, j) == k[1] < j.chain \/ (k[1] = j.chain /\ k[2] < j.seq)
UpTo(k, j)   == k[1] < j.chain \/ (k[1] = j.chain /\ k[2] <= j.seq)
Place(m)     == <<m.chain, m.seq>>

Awake == pc \notin {"down", "end"}
Resumes == journal.phase \in {"response", "paired"} /\ journal.contract = contract

PlaceInv ==
    /\ pc \in {"inputs", "loop"} => UpTo(Place(journal), mem)
    /\ pc = "reserved" => Behind(Place(journal), mem)
    /\ pc \in {"sent", "answered", "calls", "final", "closing"} =>
           journal.phase = "dispatched" /\ Place(journal) = Place(mem)
    /\ pc = "tools" => journal.phase = "response" /\ Journal!Continued(journal) = mem
    /\ pc = "inputs" /\ mem.calls > 0 => journal.phase = "response" /\ Journal!Continued(journal) = mem
    /\ pc = "inputs" /\ Resumes => mem.ids = journal.ids
    /\ pc \in {"loop", "reserved", "sent", "final", "closing"} => mem.calls = 0
    /\ pc \in {"calls", "tools"} => mem.calls > 0
    /\ journal.calls > 0 <=> journal.phase = "response"
    /\ Awake => mem.contract = contract
    /\ pc \in {"sent", "answered", "calls", "tools", "final", "closing"} => journal.contract = contract
    /\ journal.contract <= contract
    /\ requests = 0 => journal.phase = "none"
    /\ pc = "reserved" => requests > 0
    /\ pc = "closing" => decided
    /\ journal.phase = "none" => answered = {} /\ begun = {}

(* No result belongs to a call behind the row's place, nor before its      *)
(* response was answered.                                                  *)
KeyInv ==
    /\ \A k \in begun : UpTo(k, journal)
    /\ \A k \in KeySet : Journal!Result(k) \in journal.shown \cup mem.shown => UpTo(k, journal)
    /\ \A r \in answered, k \in KeySet : Journal!Result(k) \in r.shown => UpTo(k, journal)
    /\ journal.phase \in {"dispatched", "response"} =>
           \A r \in answered, k \in KeySet : Journal!Result(k) \in r.shown => Behind(k, journal)
    /\ pc = "sent" => \A k \in KeySet : Journal!Result(k) \in mem.shown => Behind(k, journal)

(* Messages: what was given out was told.                                  *)
ToldInv ==
    \A i \in Messages :
        /\ \A r \in answered : Journal!Told(i) \in r.shown => inbox[i] # "absent"
        /\ Resumes =>
             /\ inbox[i] = "consumed" => Journal!Told(i) \in journal.shown
             /\ i \in journal.ids => inbox[i] \in {"staged", "consumed"} /\ Journal!Told(i) \in journal.shown
             /\ Journal!Told(i) \in journal.shown => inbox[i] = "consumed" \/ (inbox[i] = "staged" /\ i \in journal.ids)
        /\ Awake =>
             /\ Journal!Told(i) \in mem.shown => inbox[i] # "absent"
             /\ i \in mem.ids => inbox[i] \in {"staged", "consumed"}
             /\ inbox[i] = "consumed" => Journal!Told(i) \in mem.shown
             /\ inbox[i] = "staged" /\ i \in mem.ids => Journal!Told(i) \in mem.shown
             /\ pc # "inputs" /\ inbox[i] = "staged" => i \in mem.ids
             /\ pc \notin {"inputs", "loop"} /\ Journal!Told(i) \in mem.shown => inbox[i] # "pending"

(* Calls: what was dispatched is told, but for the calls still unpaired.   *)
ResultsInv ==
    /\ Awake => Journal!Results(begun \ Journal!KeysOf(mem)) \subseteq mem.shown
    /\ journal.phase \in {"response", "paired"} =>
           Journal!Results(begun \ Journal!KeysOf(journal)) \subseteq journal.shown

(* A transcript with a message or a dispatched call that no answered       *)
(* request under the contract k told.                                      *)
Novel(S, k, A, K) ==
    \A r \in A : r.contract = k =>
        \E f \in S \cap (Journal!ToldAll(Messages) \cup Journal!Results(K)) : f \notin r.shown
Untold(i, k, A) == \A r \in A : r.contract = k => Journal!Told(i) \notin r.shown

NovelInv ==
    /\ \A r \in answered : r.contract \in Nat /\ r.contract <= journal.contract
    /\ pc \in {"inputs", "loop"} /\ mem.calls = 0 =>
           Novel(mem.shown \cup Journal!ToldAll(Journal!Business), contract, answered, begun)
    /\ pc \in {"reserved", "sent"} => Novel(mem.shown, contract, answered, begun)
    /\ journal.phase = "paired" /\ ~decided => Novel(journal.shown, journal.contract, answered, begun)
    /\ journal.phase = "dispatched" /\ journal.contract = contract /\ Journal!Business # {} =>
           \E i \in Journal!Business : Untold(i, contract, answered)
    /\ pc = "inputs" /\ journal.phase = "dispatched" /\ journal.contract = contract => Journal!Business # {}
    /\ pc \in {"reserved", "sent", "answered", "calls", "final"} =>
           \A i \in Journal!Business : Untold(i, contract, answered)

PaidInv == IsFiniteSet(answered) /\ Cardinality(answered) = replies

JournalInv == JournalTypes /\ PlaceInv /\ KeyInv /\ ToldInv /\ ResultsInv /\ NovelInv /\ PaidInv

-----------------------------------------------------------------------------

-----------------------------------------------------------------------------
(* Inputs and results are told apart by what they are of.                  *)
LEMMA FactsDiffer ==
  /\ \A S, i : Journal!Told(i) \in Journal!ToldAll(S) <=> i \in S
  /\ \A K, k : Journal!Result(k) \in Journal!Results(K) <=> k \in K
  /\ \A K, i : Journal!Told(i) \notin Journal!Results(K)
  /\ \A S, k : Journal!Result(k) \notin Journal!ToldAll(S)
<1>1. \A i, j : Journal!Told(i) = Journal!Told(j) => i = j
  BY DEF Journal!Told
<1>2. \A k, l : Journal!Result(k) = Journal!Result(l) => k = l
  BY DEF Journal!Result
<1>3. \A i, k : Journal!Told(i) # Journal!Result(k)
  <2> SUFFICES ASSUME NEW i, NEW k, Journal!Told(i) = Journal!Result(k)
               PROVE  FALSE
    OBVIOUS
  <2>1. Journal!Told(i).kind = "input" /\ Journal!Result(k).kind = "result"
    BY DEF Journal!Told, Journal!Result
  <2> QED BY <2>1
<1> QED BY <1>1, <1>2, <1>3 DEF Journal!ToldAll, Journal!Results

LEMMA FactSets ==
  /\ \A S \in SUBSET Journal!Inputs : Journal!ToldAll(S) \subseteq Facts
  /\ \A K \in SUBSET KeySet : Journal!Results(K) \subseteq Facts
BY DEF Facts, Journal!ToldAll, Journal!Results

LEMMA KeysOfFields ==
  ASSUME NEW j, j.chain \in Nat, j.seq \in Nat, j.calls \in Nat
  PROVE  /\ Journal!KeysOf(j) \subseteq KeySet
         /\ \A k \in Journal!KeysOf(j) : k[1] = j.chain /\ k[2] = j.seq
         /\ j.calls = 0 => Journal!KeysOf(j) = {}
         /\ j.calls > 0 => <<j.chain, j.seq, 1>> \in Journal!KeysOf(j)
BY DEF Journal!KeysOf, Journal!Key, KeySet

(* The row that a session is saved as, and the session a row continues as. *)
LEMMA SavedFields ==
  ASSUME NEW m \in Memory, NEW phase \in Journal!Rows, NEW j, j = Journal!Saved(phase, m)
  PROVE  /\ j \in JournalRow /\ j.phase = phase
         /\ j.chain = m.chain /\ j.seq = m.seq /\ j.ids = m.ids /\ j.shown = m.shown
         /\ j.calls = m.calls /\ j.contract = m.contract
         /\ Journal!Continued(j) = m
<1>1. j = [phase |-> phase, chain |-> m.chain, seq |-> m.seq, ids |-> m.ids,
           shown |-> m.shown, calls |-> m.calls, contract |-> m.contract]
  BY DEF Journal!Saved
<1>2. m = [chain |-> m.chain, seq |-> m.seq, ids |-> m.ids, shown |-> m.shown,
           calls |-> m.calls, contract |-> m.contract]
  BY DEF Memory
<1>3. j \in JournalRow
  BY <1>1 DEF JournalRow, Memory
<1>4. /\ j.phase = phase
      /\ j.chain = m.chain /\ j.seq = m.seq /\ j.ids = m.ids /\ j.shown = m.shown
      /\ j.calls = m.calls /\ j.contract = m.contract
  BY <1>1
<1> QED BY <1>2, <1>3, <1>4 DEF Journal!Continued

LEMMA ContinuedFields ==
  ASSUME NEW j \in JournalRow, NEW m, m = Journal!Continued(j)
  PROVE  /\ m \in Memory
         /\ m.chain = j.chain /\ m.seq = j.seq /\ m.ids = j.ids /\ m.shown = j.shown
         /\ m.calls = j.calls /\ m.contract = j.contract
BY DEF Journal!Continued, JournalRow, Memory

LEMMA FreshFields ==
  ASSUME Journal!JournalAssumption, JournalTypes, NEW ids \in SUBSET Journal!Inputs, NEW extra \in SUBSET Facts,
         NEW m, m = Journal!Fresh(ids, extra)
  PROVE  /\ m \in Memory
         /\ m.chain = journal.chain + 1 /\ m.seq = journal.seq /\ m.ids = ids /\ m.calls = 0
         /\ m.contract = contract
         /\ m.shown = Journal!Material \cup Journal!Evidence \cup extra
<1>1. Journal!Material \subseteq Facts
  BY FactSets DEF Journal!Material, Journal!In, Journal!Inputs
<1>2. Journal!Evidence \subseteq Facts
  BY FactSets DEF Journal!Evidence, JournalTypes
<1>3. journal.chain \in Nat /\ journal.seq \in Nat /\ contract \in Nat
  BY DEF JournalTypes, JournalRow
<1>4. 0 \in 0 .. MaxCalls
  BY DEF Journal!JournalAssumption
<1> DEFINE shown == Journal!Material \cup Journal!Evidence \cup extra
           chain == 1 + journal.chain
<1>5. m = [chain |-> chain, seq |-> journal.seq, ids |-> ids, calls |-> 0, contract |-> contract,
           shown |-> shown]
  BY DEF Journal!Fresh, Journal!NewChain
<1>6. shown \in SUBSET Facts /\ chain \in Nat
  BY <1>1, <1>2, <1>3
<1>7. chain = journal.chain + 1
  BY <1>3
<1> HIDE DEF shown, chain
<1> QED BY <1>3, <1>4, <1>5, <1>6, <1>7 DEF Memory, shown

LEMMA NovelGrows ==
  ASSUME NEW S, NEW T, NEW k, NEW A, NEW K, NEW L, Novel(S, k, A, K), S \subseteq T, K \subseteq L
  PROVE  Novel(T, k, A, L)
BY DEF Novel, Journal!Results

LEMMA NovelMessage ==
  ASSUME NEW S, NEW k, NEW A, NEW K, NEW i \in Messages, Untold(i, k, A), Journal!Told(i) \in S
  PROVE  Novel(S, k, A, K)
BY FactsDiffer DEF Novel, Untold

LEMMA NovelResult ==
  ASSUME NEW S, NEW k, NEW A, NEW K, NEW l \in K, Journal!Result(l) \in S,
         \A r \in A : Journal!Result(l) \notin r.shown
  PROVE  Novel(S, k, A, K)
BY FactsDiffer DEF Novel

LEMMA JournalStart ==
  ASSUME Journal!JournalAssumption, Journal!Init
  PROVE  JournalInv
<1> USE DEF Journal!Init
<1>1. /\ Journal!NoSession \in Memory
      /\ Journal!NoSession.shown = {} /\ Journal!NoSession.ids = {} /\ Journal!NoSession.calls = 0
      /\ Journal!NoSession.contract = 0
  BY DEF Journal!NoSession, Memory, Journal!JournalAssumption
<1>2. "none" \in Journal!Rows
  BY DEF Journal!Rows
<1>3. /\ journal \in JournalRow /\ journal.phase = "none" /\ journal.ids = {} /\ journal.shown = {}
      /\ journal.calls = 0 /\ journal.contract = 0
  BY <1>1, <1>2, SavedFields DEF Journal!NoJournal
<1>4. JournalTypes
  <2>1. 1 \in 1 .. MaxContracts
    BY DEF Journal!JournalAssumption
  <2>2. inbox \in [Journal!Inputs -> {"absent", "pending", "staged", "consumed"}]
    OBVIOUS
  <2> QED BY <1>1, <1>3, <2>1, <2>2 DEF JournalTypes
<1>5. PlaceInv
  BY <1>1, <1>3, <1>4 DEF PlaceInv, Resumes, Awake, JournalTypes
<1>6. KeyInv /\ ToldInv /\ ResultsInv
  BY <1>1, <1>3 DEF KeyInv, ToldInv, ResultsInv, Resumes, Awake
<1>7. NovelInv
  BY <1>1, <1>3 DEF NovelInv
<1>8. PaidInv
  BY FS_EmptySet DEF PaidInv
<1> QED BY <1>4, <1>5, <1>6, <1>7, <1>8 DEF JournalInv

-----------------------------------------------------------------------------
LEMMA ArriveStep ==
  ASSUME Journal!JournalAssumption, JournalInv, NEW i \in Journal!Inputs, Journal!Arrive(i)
  PROVE  JournalInv'
<1>1. /\ inbox[i] = "absent" /\ inbox' = [inbox EXCEPT ![i] = "pending"]
      /\ UNCHANGED <<journal, requests, begun, contract, decided, answered, replies, pc, mem, faults>>
  BY DEF Journal!Arrive
<1>2. /\ inbox' \in [Journal!Inputs -> {"absent", "pending", "staged", "consumed"}]
      /\ inbox'[i] = "pending" /\ \A j \in Journal!Inputs \ {i} : inbox'[j] = inbox[j]
  BY <1>1 DEF JournalInv, JournalTypes
<1>3. Messages \subseteq Journal!Inputs
  BY DEF Journal!Inputs
<1>4. JournalTypes' /\ PlaceInv' /\ KeyInv' /\ ResultsInv' /\ PaidInv'
  <2>1. JournalTypes'
    BY <1>1, <1>2 DEF JournalInv, JournalTypes
  <2>2. PlaceInv'
    BY <1>1 DEF JournalInv, PlaceInv, Resumes, Awake
  <2>3. KeyInv'
    BY <1>1 DEF JournalInv, KeyInv
  <2>4. ResultsInv' /\ PaidInv'
    BY <1>1 DEF JournalInv, ResultsInv, PaidInv, Awake
  <2> QED BY <2>1, <2>2, <2>3, <2>4
<1>5. ToldInv'
  BY <1>1, <1>2, <1>3 DEF JournalInv, ToldInv, Resumes, Awake
<1>6. /\ Journal!Business \subseteq Journal!Business'
      /\ \A j \in Journal!Business' : j \in Journal!Business \/ (j = i /\ j \in Messages)
  BY <1>1, <1>2 DEF Journal!Business, Journal!In
<1>7. i \in Messages => Untold(i, contract, answered)
  BY <1>1 DEF JournalInv, ToldInv, Untold
<1>8. NovelInv'
  <2>1. Journal!ToldAll(Journal!Business) \subseteq Journal!ToldAll(Journal!Business')
    BY <1>6 DEF Journal!ToldAll
  <2>2. pc \in {"inputs", "loop"} /\ mem.calls = 0 =>
           Novel(mem.shown \cup Journal!ToldAll(Journal!Business'), contract, answered, begun)
    BY <2>1, NovelGrows DEF JournalInv, NovelInv
  <2>3. \A j \in Journal!Business' \ Journal!Business : Untold(j, contract, answered)
    BY <1>6, <1>7
  <2>4. Journal!Business' # {} /\ Journal!Business = {} =>
           \E j \in Journal!Business' : Untold(j, contract, answered)
    BY <2>3
  <2> QED BY <1>1, <1>6, <2>2, <2>3, <2>4 DEF JournalInv, NovelInv
<1> QED BY <1>4, <1>5, <1>8 DEF JournalInv

(* The activation ends; its session is lost.                               *)
LEMMA DownStep ==
  ASSUME Journal!JournalAssumption, JournalInv,
         Journal!ChangeContract \/ Journal!Crash \/ Journal!LoadDecided \/ UNCHANGED Journal!vars
  PROVE  JournalInv'
<1>1. UNCHANGED <<inbox, journal, requests, begun, decided, answered, replies>>
  BY DEF Journal!ChangeContract, Journal!Crash, Journal!LoadDecided, Journal!vars
<1> DEFINE Down == /\ pc' \in {"down", "end"} /\ contract' \in {contract, contract + 1}
                   /\ contract' \in 1 .. MaxContracts
                   /\ mem' = Journal!NoSession \/ mem' = mem
<1>2. Down \/ UNCHANGED <<pc, mem, contract>>
  <2>1. contract \in 1 .. MaxContracts /\ MaxContracts \in Nat
    BY DEF JournalInv, JournalTypes, Journal!JournalAssumption
  <2>2. CASE Journal!ChangeContract
    <3>1. pc' = "down" /\ contract' = contract + 1 /\ contract < MaxContracts /\ mem' = mem
      BY <2>2 DEF Journal!ChangeContract
    <3>2. contract' \in 1 .. MaxContracts
      BY <2>1, <3>1
    <3> QED BY <3>1, <3>2
  <2>3. CASE Journal!Crash
    BY <2>1, <2>3 DEF Journal!Crash
  <2>4. CASE Journal!LoadDecided
    BY <2>1, <2>4 DEF Journal!LoadDecided
  <2> QED BY <2>2, <2>3, <2>4 DEF Journal!vars
<1>3. /\ Journal!NoSession \in Memory /\ Journal!NoSession.shown = {}
  BY DEF Journal!NoSession, Memory, Journal!JournalAssumption
<1>4. journal \in JournalRow /\ contract \in Nat
  BY DEF JournalInv, JournalTypes
<1>5. Journal!Business' = Journal!Business
  BY <1>1 DEF Journal!Business, Journal!In
<1>6. CASE UNCHANGED <<pc, mem, contract>>
  <2>1. JournalTypes' /\ KeyInv'
    BY <1>1, <1>6 DEF JournalInv, JournalTypes, KeyInv
  <2>2. PlaceInv'
    BY <1>1, <1>6 DEF JournalInv, PlaceInv, Resumes, Awake
  <2>3. ToldInv'
    BY <1>1, <1>6 DEF JournalInv, ToldInv, Resumes, Awake
  <2>4. ResultsInv' /\ PaidInv'
    BY <1>1, <1>6 DEF JournalInv, ResultsInv, PaidInv, Awake
  <2>5. NovelInv'
    BY <1>1, <1>5, <1>6 DEF JournalInv, NovelInv
  <2> QED BY <2>1, <2>2, <2>3, <2>4, <2>5 DEF JournalInv
<1>7. CASE Down
  <2>1. JournalTypes'
    BY <1>1, <1>3, <1>7 DEF JournalInv, JournalTypes
  <2>2. PlaceInv'
    BY <1>1, <1>4, <1>7 DEF JournalInv, JournalRow, PlaceInv, Awake
  <2>3. KeyInv'
    BY <1>1, <1>3, <1>7 DEF JournalInv, KeyInv
  <2>4. contract' # contract => journal.contract # contract'
    BY <1>4, <1>7 DEF JournalInv, JournalRow, PlaceInv
  <2>5. ToldInv'
    BY <1>1, <1>7, <2>4 DEF JournalInv, ToldInv, Resumes, Awake
  <2>6. ResultsInv' /\ PaidInv'
    BY <1>1, <1>7 DEF JournalInv, ResultsInv, PaidInv, Awake
  <2>7. NovelInv'
    BY <1>1, <1>5, <1>7, <2>4 DEF JournalInv, NovelInv
  <2> QED BY <2>1, <2>2, <2>3, <2>5, <2>6, <2>7 DEF JournalInv
<1> QED BY <1>2, <1>6, <1>7

-----------------------------------------------------------------------------
(* What the invariant says of the row alone, for the row that a load       *)
(* leaves behind.                                                          *)
RowTells(j) ==
    /\ j \in JournalRow
    /\ j.calls > 0 <=> j.phase = "response"
    /\ j.contract <= contract
    /\ requests = 0 => j.phase = "none"
    /\ j.phase = "none" => answered = {} /\ begun = {}
RowKeys(j) ==
    /\ \A k \in begun : UpTo(k, j)
    /\ \A k \in KeySet : Journal!Result(k) \in j.shown => UpTo(k, j)
    /\ \A r \in answered, k \in KeySet : Journal!Result(k) \in r.shown => UpTo(k, j)
    /\ j.phase \in {"dispatched", "response"} =>
           \A r \in answered, k \in KeySet : Journal!Result(k) \in r.shown => Behind(k, j)
RowInputs(j) ==
    \A i \in Messages :
        /\ \A r \in answered : Journal!Told(i) \in r.shown => inbox[i] # "absent"
        /\ j.phase \in {"response", "paired"} /\ j.contract = contract =>
             /\ inbox[i] = "consumed" => Journal!Told(i) \in j.shown
             /\ i \in j.ids => inbox[i] \in {"staged", "consumed"} /\ Journal!Told(i) \in j.shown
             /\ Journal!Told(i) \in j.shown =>
                    inbox[i] = "consumed" \/ (inbox[i] = "staged" /\ i \in j.ids)
RowResults(j) ==
    j.phase \in {"response", "paired"} =>
        Journal!Results(begun \ Journal!KeysOf(j)) \subseteq j.shown
RowNovel(j) ==
    /\ \A r \in answered : r.contract \in Nat /\ r.contract <= j.contract
    /\ j.phase = "paired" /\ ~decided => Novel(j.shown, j.contract, answered, begun)
    /\ j.phase = "dispatched" /\ j.contract = contract /\ Journal!Business # {} =>
           \E i \in Journal!Business : Untold(i, contract, answered)
RowInv(j) == RowTells(j) /\ RowKeys(j) /\ RowInputs(j) /\ RowResults(j) /\ RowNovel(j)

LEMMA RowNow ==
  ASSUME JournalInv
  PROVE  RowInv(journal)
<1>1. RowTells(journal)
  BY DEF JournalInv, JournalTypes, PlaceInv, RowTells
<1>2. RowKeys(journal)
  BY DEF JournalInv, KeyInv, RowKeys
<1>3. RowInputs(journal)
  BY DEF JournalInv, ToldInv, RowInputs, Resumes
<1>4. RowResults(journal)
  BY DEF JournalInv, ResultsInv, RowResults
<1>5. RowNovel(journal)
  BY DEF JournalInv, NovelInv, RowNovel
<1> QED BY <1>1, <1>2, <1>3, <1>4, <1>5 DEF RowInv

(* A load restores a session that stands by the row, tells what was given  *)
(* out and dispatched, and, if it goes on to a request, something novel.    *)
LEMMA OpenStep ==
  ASSUME Journal!JournalAssumption, JournalInv, RowInv(journal'), pc' = "inputs", mem' \in Memory,
         UNCHANGED <<inbox, requests, begun, contract, decided, answered, replies>>,
         UpTo(Place(journal'), mem'), mem'.contract = contract,
         mem'.calls > 0 => journal'.phase = "response" /\ Journal!Continued(journal') = mem',
         journal'.phase \in {"response", "paired"} /\ journal'.contract = contract => mem'.ids = journal'.ids,
         \A k \in KeySet : Journal!Result(k) \in mem'.shown => UpTo(k, journal'),
         \A i \in Messages : /\ Journal!Told(i) \in mem'.shown => inbox[i] # "absent"
                             /\ i \in mem'.ids => inbox[i] \in {"staged", "consumed"}
                             /\ inbox[i] = "consumed" => Journal!Told(i) \in mem'.shown
                             /\ inbox[i] = "staged" /\ i \in mem'.ids => Journal!Told(i) \in mem'.shown,
         Journal!Results(begun \ Journal!KeysOf(mem')) \subseteq mem'.shown,
         mem'.calls = 0 => Novel(mem'.shown \cup Journal!ToldAll(Journal!Business), contract, answered, begun),
         journal'.phase = "dispatched" /\ journal'.contract = contract => Journal!Business # {}
  PROVE  JournalInv'
<1> USE DEF RowInv
<1>1. JournalTypes'
  BY DEF JournalInv, JournalTypes, RowTells
<1>2. PlaceInv'
  BY DEF RowTells, PlaceInv, Awake, Resumes
<1>3. KeyInv'
  BY DEF RowKeys, KeyInv
<1>4. ToldInv'
  BY DEF RowInputs, ToldInv, Awake, Resumes
<1>5. ResultsInv'
  BY DEF RowResults, ResultsInv
<1>6. NovelInv'
  <2>1. Journal!Business' = Journal!Business
    BY DEF Journal!Business, Journal!In
  <2> QED BY <2>1 DEF RowNovel, NovelInv
<1>7. PaidInv'
  BY DEF JournalInv, PaidInv
<1> QED BY <1>1, <1>2, <1>3, <1>4, <1>5, <1>6, <1>7 DEF JournalInv

LEMMA NovelCore ==
  ASSUME NEW S, NEW T, NEW k, NEW A, NEW K, Novel(S, k, A, K),
         S \cap (Journal!ToldAll(Messages) \cup Journal!Results(K)) \subseteq T
  PROVE  Novel(T, k, A, K)
BY DEF Novel

(* A chain of its own tells every message given out and every call.        *)
LEMMA FreshOpens ==
  ASSUME Journal!JournalAssumption, JournalInv, RowInv(journal'), pc' = "inputs",
         UNCHANGED <<inbox, requests, begun, contract, decided, answered, replies>>,
         journal'.chain = journal.chain,
         NEW ids \in SUBSET Journal!Inputs, NEW K \in SUBSET KeySet,
         mem' = Journal!Fresh(ids, Journal!Results(K)),
         \A k \in K : UpTo(k, journal'),
         \A i \in Messages : i \in ids => inbox[i] \in {"staged", "consumed"},
         journal'.phase \in {"response", "paired"} /\ journal'.contract = contract => ids = journal'.ids,
         Novel(mem'.shown \cup Journal!ToldAll(Journal!Business), contract, answered, begun),
         journal'.phase = "dispatched" /\ journal'.contract = contract => Journal!Business # {}
  PROVE  JournalInv'
<1>1. JournalTypes /\ Journal!Results(K) \subseteq Facts
  BY FactSets DEF JournalInv
<1>2. /\ mem' \in Memory /\ mem'.chain = journal.chain + 1 /\ mem'.ids = ids /\ mem'.calls = 0
      /\ mem'.contract = contract
      /\ mem'.shown = Journal!Material \cup Journal!Evidence \cup Journal!Results(K)
  <2> DEFINE extra == Journal!Results(K)
  <2>1. extra \in SUBSET Facts /\ mem' = Journal!Fresh(ids, extra) /\ JournalTypes
    BY <1>1
  <2> HIDE DEF extra
  <2>2. /\ mem' \in Memory /\ mem'.chain = journal.chain + 1 /\ mem'.ids = ids /\ mem'.calls = 0
        /\ mem'.contract = contract
        /\ mem'.shown = Journal!Material \cup Journal!Evidence \cup extra
    BY ONLY Journal!JournalAssumption, ids \in SUBSET Journal!Inputs, <2>1, FreshFields
  <2> QED BY <2>2 DEF extra
<1>3. journal.chain \in Nat
  BY <1>1 DEF JournalTypes, JournalRow
<1>4. UpTo(Place(journal'), mem')
  BY <1>2, <1>3 DEF UpTo, Place
<1>5. \A k : Journal!Result(k) \in mem'.shown <=> k \in begun \cup K
  BY <1>2, FactsDiffer DEF Journal!Material, Journal!Evidence
<1>6. \A i : Journal!Told(i) \in mem'.shown <=> i \in Journal!In({"staged", "consumed"}) \cap Messages
  BY <1>2, FactsDiffer DEF Journal!Material, Journal!Evidence
<1>7. \A i \in Messages : Journal!Told(i) \in mem'.shown <=> inbox[i] \in {"staged", "consumed"}
  BY <1>6 DEF Journal!In, Journal!Inputs
<1>8. Journal!Results(begun \ Journal!KeysOf(mem')) \subseteq mem'.shown
  BY <1>2 DEF Journal!Evidence, Journal!Results
<1>9. \A k \in KeySet : Journal!Result(k) \in mem'.shown => UpTo(k, journal')
  BY <1>5 DEF RowInv, RowKeys
<1>10. /\ mem'.calls > 0 => journal'.phase = "response" /\ Journal!Continued(journal') = mem'
       /\ journal'.phase \in {"response", "paired"} /\ journal'.contract = contract => mem'.ids = journal'.ids
       /\ mem'.contract = contract
  BY <1>2
<1>11. \A i \in Messages : /\ Journal!Told(i) \in mem'.shown => inbox[i] # "absent"
                           /\ i \in mem'.ids => inbox[i] \in {"staged", "consumed"}
                           /\ inbox[i] = "consumed" => Journal!Told(i) \in mem'.shown
                           /\ inbox[i] = "staged" /\ i \in mem'.ids => Journal!Told(i) \in mem'.shown
  BY <1>2, <1>7
<1> QED BY <1>2, <1>4, <1>8, <1>9, <1>10, <1>11, OpenStep

LEMMA LoadFreshStep ==
  ASSUME Journal!JournalAssumption, JournalInv, Journal!LoadFresh
  PROVE  JournalInv'
<1>1. /\ journal' = journal /\ pc' = "inputs" /\ mem' = Journal!Fresh({}, {})
      /\ UNCHANGED <<inbox, requests, begun, contract, decided, answered, replies>>
      /\ journal.phase = "none"
  BY DEF Journal!LoadFresh, Journal!Restored
<1>2. RowInv(journal')
  BY <1>1, RowNow
<1>3. answered = {}
  BY <1>1 DEF JournalInv, PlaceInv
<1>4. Novel(mem'.shown \cup Journal!ToldAll(Journal!Business), contract, answered, begun)
  BY <1>3 DEF Novel
<1>5. Journal!Results({}) = {}
  BY DEF Journal!Results
<1> QED BY <1>1, <1>2, <1>4, <1>5, FreshOpens

LEMMA LoadLostStep ==
  ASSUME Journal!JournalAssumption, JournalInv, Journal!LoadLost
  PROVE  JournalInv'
<1>1. /\ journal' = journal /\ pc' = "inputs" /\ mem' = Journal!Fresh({}, {})
      /\ UNCHANGED <<inbox, requests, begun, contract, decided, answered, replies>>
      /\ journal.phase = "dispatched" /\ journal.contract = contract /\ Journal!Business # {}
  BY DEF Journal!LoadLost, Journal!Restored
<1>2. RowInv(journal')
  BY <1>1, RowNow
<1>3. PICK i \in Journal!Business : Untold(i, contract, answered)
  BY <1>1 DEF JournalInv, NovelInv
<1>4. i \in Messages /\ Journal!Told(i) \in Journal!ToldAll(Journal!Business)
  BY FactsDiffer DEF Journal!Business
<1>5. Novel(mem'.shown \cup Journal!ToldAll(Journal!Business), contract, answered, begun)
  BY <1>3, <1>4, NovelMessage
<1>6. Journal!Results({}) = {}
  BY DEF Journal!Results
<1> QED BY <1>1, <1>2, <1>5, <1>6, FreshOpens

(* No request was ever answered under the contract of now.                 *)
LEMMA LoadContractChangedStep ==
  ASSUME Journal!JournalAssumption, JournalInv, Journal!LoadContractChanged
  PROVE  JournalInv'
<1>1. /\ journal' = journal /\ pc' = "inputs"
      /\ mem' = Journal!Fresh({}, Journal!Results(Journal!KeysOf(journal)))
      /\ UNCHANGED <<inbox, requests, begun, contract, decided, answered, replies>>
      /\ journal.contract # contract
  BY DEF Journal!LoadContractChanged, Journal!Restored
<1>2. RowInv(journal')
  BY <1>1, RowNow
<1>3. /\ journal.chain \in Nat /\ journal.seq \in Nat /\ journal.calls \in Nat
      /\ journal.contract \in Nat /\ contract \in Nat
  BY DEF JournalInv, JournalTypes, JournalRow, Journal!JournalAssumption
<1>4. /\ Journal!KeysOf(journal) \in SUBSET KeySet
      /\ \A k \in Journal!KeysOf(journal) : UpTo(k, journal)
  <2>1. /\ Journal!KeysOf(journal) \subseteq KeySet
        /\ \A k \in Journal!KeysOf(journal) : k[1] = journal.chain /\ k[2] = journal.seq
    BY <1>3, KeysOfFields
  <2> QED BY <1>3, <2>1 DEF UpTo
<1>5. \A r \in answered : r.contract # contract
  BY <1>1, <1>3 DEF JournalInv, NovelInv, PlaceInv
<1>6. Novel(mem'.shown \cup Journal!ToldAll(Journal!Business), contract, answered, begun)
  BY <1>5 DEF Novel
<1>7. \A k \in Journal!KeysOf(journal) : UpTo(k, journal')
  BY <1>1, <1>4
<1>8. journal'.chain = journal.chain /\ journal'.contract # contract
  BY <1>1
<1>9. {} \in SUBSET Journal!Inputs /\ \A i \in Messages : i \in {} => inbox[i] \in {"staged", "consumed"}
  OBVIOUS
<1> HIDE DEF RowInv
<1> QED BY <1>1, <1>2, <1>4, <1>6, <1>7, <1>8, <1>9, FreshOpens

LEMMA LoadPendingStep ==
  ASSUME Journal!JournalAssumption, JournalInv, Journal!LoadPending
  PROVE  JournalInv'
<1>1. /\ journal' = journal /\ pc' = "inputs" /\ mem' = Journal!Continued(journal)
      /\ UNCHANGED <<inbox, requests, begun, contract, decided, answered, replies>>
      /\ journal.phase \in {"response", "paired"} /\ journal.contract = contract
      /\ Journal!Retained # {}
  BY DEF Journal!LoadPending, Journal!Restored, Journal!Resumable
<1>2. RowInv(journal) /\ journal \in JournalRow
  BY RowNow DEF RowInv, RowTells
<1>3. /\ mem' \in Memory
      /\ mem'.chain = journal.chain /\ mem'.seq = journal.seq /\ mem'.ids = journal.ids
      /\ mem'.shown = journal.shown /\ mem'.calls = journal.calls /\ mem'.contract = journal.contract
  BY <1>1, <1>2, ContinuedFields
<1>4. journal.calls \in Nat /\ journal.chain \in Nat /\ journal.seq \in Nat
  BY <1>2 DEF JournalRow, Journal!JournalAssumption
<1>5. journal.calls > 0 /\ journal.phase = "response"
  <2>1. PICK c \in 1 .. journal.calls : TRUE
    BY <1>1 DEF Journal!Retained
  <2> QED BY <1>2, <1>4, <2>1 DEF RowInv, RowTells
<1>6. UpTo(Place(journal'), mem')
  BY <1>1, <1>3, <1>4 DEF UpTo, Place
<1>7. \A k \in KeySet : Journal!Result(k) \in mem'.shown => UpTo(k, journal')
  BY <1>1, <1>2, <1>3 DEF RowInv, RowKeys
<1>8. \A i \in Messages : /\ Journal!Told(i) \in mem'.shown => inbox[i] # "absent"
                          /\ i \in mem'.ids => inbox[i] \in {"staged", "consumed"}
                          /\ inbox[i] = "consumed" => Journal!Told(i) \in mem'.shown
                          /\ inbox[i] = "staged" /\ i \in mem'.ids => Journal!Told(i) \in mem'.shown
  BY <1>1, <1>2, <1>3 DEF RowInv, RowInputs
<1>9. Journal!Results(begun \ Journal!KeysOf(mem')) \subseteq mem'.shown
  BY <1>1, <1>2, <1>3 DEF RowInv, RowResults, Journal!KeysOf
<1>10. mem'.calls # 0
  BY <1>3, <1>4, <1>5
<1>11. RowInv(journal')
  BY <1>1, <1>2
<1> QED BY <1>1, <1>3, <1>5, <1>6, <1>7, <1>8, <1>9, <1>10, <1>11, OpenStep

(* A session whose calls are paired with their results.                    *)
PairedWith(c, S) ==
    [chain |-> c.chain, seq |-> c.seq, ids |-> c.ids, shown |-> c.shown \cup S,
     calls |-> 0, contract |-> c.contract]

LEMMA PairedIs ==
  ASSUME NEW c \in Memory, NEW S
  PROVE  [c EXCEPT !.calls = 0, !.shown = @ \cup S] = PairedWith(c, S)
<1> SUFFICES ASSUME NEW m, m = [c EXCEPT !.calls = 0, !.shown = @ \cup S]
             PROVE  m = [chain |-> c.chain, seq |-> c.seq, ids |-> c.ids, shown |-> c.shown \cup S,
                         calls |-> 0, contract |-> c.contract]
  BY DEF PairedWith
<1> QED BY DEF Memory

LEMMA PairedFields ==
  ASSUME Journal!JournalAssumption, NEW c \in Memory, NEW S \in SUBSET Facts, NEW m, m = PairedWith(c, S)
  PROVE  /\ m \in Memory
         /\ m.chain = c.chain /\ m.seq = c.seq /\ m.ids = c.ids /\ m.contract = c.contract
         /\ m.shown = c.shown \cup S /\ m.calls = 0
<1>1. 0 \in 0 .. MaxCalls
  BY DEF Journal!JournalAssumption
<1> QED BY <1>1 DEF Memory, PairedWith

(* The row of a stored response whose calls were all dispatched, paired    *)
(* with their results: the first of them is one no answered request told.  *)
LEMMA PairedRow ==
  ASSUME Journal!JournalAssumption, JournalInv, Journal!Resumable, Journal!Retained = {},
         journal.calls > 0, NEW m, NEW j,
         m = PairedWith(Journal!Continued(journal), Journal!Results(Journal!KeysOf(journal))),
         j = Journal!Saved("paired", m)
  PROVE  RowInv(j)
<1>1. journal.phase = "response" /\ journal.contract = contract /\ ~decided
  BY DEF Journal!Resumable, JournalInv, PlaceInv
<1>2. RowInv(journal) /\ journal \in JournalRow
  BY RowNow DEF RowInv, RowTells
<1>3. /\ journal.calls \in Nat /\ journal.chain \in Nat /\ journal.seq \in Nat
      /\ MaxCalls \in Nat
  BY <1>2 DEF JournalRow, Journal!JournalAssumption
<1>4. /\ Journal!KeysOf(journal) \subseteq KeySet
      /\ \A k \in Journal!KeysOf(journal) : k[1] = journal.chain /\ k[2] = journal.seq
      /\ <<journal.chain, journal.seq, 1>> \in Journal!KeysOf(journal)
  BY <1>3, KeysOfFields
<1> DEFINE c == Journal!Continued(journal)
           results == Journal!Results(Journal!KeysOf(journal))
<1>5. /\ c \in Memory /\ c.chain = journal.chain /\ c.seq = journal.seq /\ c.ids = journal.ids
      /\ c.shown = journal.shown /\ c.calls = journal.calls /\ c.contract = journal.contract
  BY <1>2, ContinuedFields
<1>6. results \subseteq Facts
  BY <1>4, FactSets
<1>7. /\ m \in Memory /\ m.chain = journal.chain /\ m.seq = journal.seq /\ m.ids = journal.ids
      /\ m.shown = journal.shown \cup results /\ m.calls = 0 /\ m.contract = journal.contract
  <2> HIDE DEF c, results
  <2>1. m = PairedWith(c, results)
    BY DEF c, results
  <2> QED BY <1>5, <1>6, <2>1, PairedFields
<1> HIDE DEF c, results
<1>8. "paired" \in Journal!Rows
  BY DEF Journal!Rows
<1>9. /\ j \in JournalRow /\ j.phase = "paired" /\ j.chain = journal.chain /\ j.seq = journal.seq
      /\ j.ids = journal.ids /\ j.shown = journal.shown \cup results /\ j.calls = 0
      /\ j.contract = contract
  <2>1. /\ j \in JournalRow /\ j.phase = "paired" /\ j.chain = m.chain /\ j.seq = m.seq
        /\ j.ids = m.ids /\ j.shown = m.shown /\ j.calls = m.calls /\ j.contract = m.contract
    BY <1>7, <1>8, SavedFields
  <2> QED BY <1>1, <1>7, <2>1
<1>10. /\ \A k \in KeySet : Journal!Result(k) \in results <=> k \in Journal!KeysOf(journal)
       /\ \A i : Journal!Told(i) \notin results
  BY FactsDiffer DEF results
<1>11. RowTells(j)
  BY <1>1, <1>2, <1>9 DEF RowInv, RowTells
<1>12. RowKeys(j)
  <2>1. \A k \in KeySet : UpTo(k, j) <=> UpTo(k, journal)
    BY <1>9 DEF UpTo
  <2>2. \A k \in Journal!KeysOf(journal) : UpTo(k, journal)
    BY <1>3, <1>4 DEF UpTo
  <2>3. begun \subseteq KeySet
    BY DEF JournalInv, JournalTypes
  <2> QED BY <1>2, <1>9, <1>10, <2>1, <2>2, <2>3 DEF RowInv, RowKeys
<1>13. RowInputs(j)
  BY <1>1, <1>2, <1>9, <1>10 DEF RowInv, RowInputs
<1>14. RowResults(j)
  <2>1. Journal!Results(begun \ Journal!KeysOf(journal)) \subseteq journal.shown
    BY <1>1, <1>2 DEF RowInv, RowResults
  <2>2. Journal!Results(begun) \subseteq journal.shown \cup results
    BY <2>1 DEF results, Journal!Results
  <2>3. Journal!Results(begun \ Journal!KeysOf(j)) \subseteq Journal!Results(begun)
    BY DEF Journal!Results
  <2> QED BY <1>9, <2>2, <2>3 DEF RowResults
<1>15. RowNovel(j)
  <2> DEFINE first == <<journal.chain, journal.seq, 1>>
  <2>1. first \in begun
    <3>1. 1 \in 1 .. journal.calls
      BY <1>3
    <3>2. \A d \in 1 .. 1 : d = 1
      OBVIOUS
    <3>3. Journal!Key(journal.chain, journal.seq, 1) \in begun
      BY <3>1, <3>2 DEF Journal!Retained
    <3> QED BY <3>3 DEF Journal!Key
  <2>2. first \in KeySet /\ ~Behind(first, journal)
    BY <1>3, <1>4 DEF Behind
  <2> HIDE DEF first
  <2>3. \A r \in answered : Journal!Result(first) \notin r.shown
    BY <1>1, <1>2, <2>2 DEF RowInv, RowKeys
  <2>4. Journal!Result(first) \in j.shown
    BY <1>4, <1>9, <1>10, <2>2 DEF first
  <2>5. Novel(j.shown, j.contract, answered, begun)
    BY <2>1, <2>3, <2>4, NovelResult
  <2> QED BY <1>1, <1>2, <1>9, <2>5 DEF RowInv, RowNovel
<1> QED BY <1>11, <1>12, <1>13, <1>14, <1>15 DEF RowInv

LEMMA LoadPairedStep ==
  ASSUME Journal!JournalAssumption, JournalInv, NEW exact \in BOOLEAN, Journal!LoadPaired(exact)
  PROVE  JournalInv'
<1> DEFINE keys == Journal!KeysOf(journal)
           m == PairedWith(Journal!Continued(journal), Journal!Results(keys))
<1>1. /\ Journal!Resumable /\ Journal!Retained = {}
      /\ journal' = IF journal.calls > 0 THEN Journal!Saved("paired", m) ELSE journal
      /\ pc' = "inputs"
      /\ mem' = IF exact THEN m ELSE Journal!Fresh(journal.ids, Journal!Results(keys))
      /\ UNCHANGED <<inbox, requests, begun, contract, decided, answered, replies>>
  <2>1. journal \in JournalRow
    BY RowNow DEF RowInv, RowTells
  <2>2. Journal!Continued(journal) \in Memory
    BY <2>1, ContinuedFields
  <2>3. m = [Journal!Continued(journal) EXCEPT !.calls = 0, !.shown = @ \cup Journal!Results(keys)]
    BY <2>2, PairedIs
  <2> HIDE DEF m
  <2> QED BY <2>3 DEF Journal!LoadPaired, Journal!Restored
<1>2. /\ journal.phase \in {"response", "paired"} /\ journal.contract = contract /\ ~decided
  BY <1>1 DEF Journal!Resumable
<1>3. RowInv(journal) /\ journal \in JournalRow
  BY RowNow DEF RowInv, RowTells
<1>4. /\ journal.calls \in Nat /\ journal.chain \in Nat /\ journal.seq \in Nat
      /\ journal.ids \in SUBSET Journal!Inputs /\ MaxCalls \in Nat
  BY <1>3 DEF JournalRow, Journal!JournalAssumption
<1>5. /\ keys \subseteq KeySet
      /\ \A k \in keys : k[1] = journal.chain /\ k[2] = journal.seq
      /\ journal.calls = 0 => keys = {}
  BY <1>4, KeysOfFields
<1>6. Journal!Results(keys) \subseteq Facts
  BY <1>5, FactSets
<1>7. /\ m \in Memory /\ m.chain = journal.chain /\ m.seq = journal.seq /\ m.ids = journal.ids
      /\ m.shown = journal.shown \cup Journal!Results(keys) /\ m.calls = 0 /\ m.contract = contract
  <2> DEFINE c == Journal!Continued(journal)
             results == Journal!Results(keys)
  <2>1. /\ c \in Memory /\ c.chain = journal.chain /\ c.seq = journal.seq /\ c.ids = journal.ids
        /\ c.shown = journal.shown /\ c.calls = journal.calls /\ c.contract = journal.contract
    BY <1>3, ContinuedFields
  <2>2. m = PairedWith(c, results)
    OBVIOUS
  <2>3. results \subseteq Facts
    BY <1>6
  <2> HIDE DEF c, results, m
  <2>4. /\ m \in Memory /\ m.chain = c.chain /\ m.seq = c.seq /\ m.ids = c.ids
        /\ m.shown = c.shown \cup results /\ m.calls = 0 /\ m.contract = c.contract
    BY <2>1, <2>2, <2>3, PairedFields
  <2> QED BY <1>2, <2>1, <2>4 DEF results
<1> HIDE DEF m
<1>8. RowInv(journal')
  <2>1. CASE journal.calls > 0
    BY <1>1, <2>1, PairedRow DEF m
  <2>2. CASE ~(journal.calls > 0)
    BY <1>1, <1>3, <2>2
  <2> QED BY <2>1, <2>2
<1>9. /\ journal' \in JournalRow /\ journal'.phase = "paired" /\ journal'.chain = journal.chain
      /\ journal'.seq = journal.seq /\ journal'.ids = journal.ids /\ journal'.shown = m.shown
      /\ journal'.contract = contract
  <2>1. CASE journal.calls > 0
    <3>1. "paired" \in Journal!Rows
      BY DEF Journal!Rows
    <3> QED BY <1>1, <1>7, <2>1, <3>1, SavedFields
  <2>2. CASE ~(journal.calls > 0)
    <3>1. journal' = journal /\ journal.calls = 0
      BY <1>1, <1>4, <2>2
    <3>2. m.shown = journal.shown
      BY <1>5, <1>7, <3>1 DEF Journal!Results
    <3>3. journal.phase = "paired"
      BY <1>2, <1>3, <2>2 DEF RowInv, RowTells
    <3> QED BY <1>2, <1>3, <3>1, <3>2, <3>3
  <2> QED BY <2>1, <2>2
<1>10. /\ Novel(m.shown, contract, answered, begun)
       /\ \A k \in KeySet : Journal!Result(k) \in m.shown => UpTo(k, journal')
  BY <1>2, <1>8, <1>9 DEF RowInv, RowNovel, RowKeys
<1>11. \A i \in Messages :
          /\ inbox[i] = "consumed" => Journal!Told(i) \in m.shown
          /\ i \in journal.ids => inbox[i] \in {"staged", "consumed"} /\ Journal!Told(i) \in m.shown
          /\ Journal!Told(i) \in m.shown => inbox[i] \in {"staged", "consumed"}
  BY <1>8, <1>9 DEF RowInv, RowInputs
<1>12. CASE exact
  <2>1. mem' = m
    BY <1>1, <1>12
  <2>2. UpTo(Place(journal'), mem')
    BY <1>4, <1>7, <1>9, <2>1 DEF UpTo, Place
  <2>3. Novel(mem'.shown \cup Journal!ToldAll(Journal!Business), contract, answered, begun)
    BY <1>10, <2>1, NovelGrows
  <2>4. Journal!Results(begun \ Journal!KeysOf(mem')) \subseteq mem'.shown
    <3>1. Journal!Results(begun \ keys) \subseteq journal.shown
      BY <1>2, <1>3 DEF RowInv, RowResults
    <3>2. Journal!Results(begun) \subseteq m.shown
      BY <1>7, <3>1 DEF Journal!Results
    <3> QED BY <2>1, <3>2 DEF Journal!Results
  <2>5. /\ mem'.contract = contract
        /\ mem'.calls > 0 => journal'.phase = "response" /\ Journal!Continued(journal') = mem'
        /\ mem'.ids = journal'.ids /\ mem' \in Memory
    BY <1>7, <1>9, <2>1
  <2>6. \A k \in KeySet : Journal!Result(k) \in mem'.shown => UpTo(k, journal')
    BY <1>10, <2>1
  <2>7. \A i \in Messages : /\ Journal!Told(i) \in mem'.shown => inbox[i] # "absent"
                            /\ i \in mem'.ids => inbox[i] \in {"staged", "consumed"}
                            /\ inbox[i] = "consumed" => Journal!Told(i) \in mem'.shown
                            /\ inbox[i] = "staged" /\ i \in mem'.ids => Journal!Told(i) \in mem'.shown
    BY <1>7, <1>11, <2>1
  <2>8. journal'.phase # "dispatched"
    BY <1>9
  <2> QED BY <1>1, <1>8, <2>2, <2>3, <2>4, <2>5, <2>6, <2>7, <2>8, OpenStep
<1>13. CASE ~exact
  <2>1. mem' = Journal!Fresh(journal.ids, Journal!Results(keys))
    BY <1>1, <1>13
  <2>2. mem'.shown = Journal!Material \cup Journal!Evidence \cup Journal!Results(keys)
    BY <1>4, <1>6, <2>1, FreshFields DEF JournalInv
  <2>3. m.shown \cap (Journal!ToldAll(Messages) \cup Journal!Results(begun)) \subseteq mem'.shown
    <3>1. \A i \in Messages : Journal!Told(i) \in m.shown => Journal!Told(i) \in Journal!Material
      BY <1>11, FactsDiffer DEF Journal!Material, Journal!In, Journal!Inputs
    <3>2. m.shown \cap Journal!ToldAll(Messages) \subseteq Journal!Material
      BY <3>1 DEF Journal!ToldAll
    <3> QED BY <2>2, <3>2 DEF Journal!Evidence
  <2>4. Novel(mem'.shown \cup Journal!ToldAll(Journal!Business), contract, answered, begun)
    BY <1>10, <2>3, NovelCore, NovelGrows
  <2>5. \A k \in keys : UpTo(k, journal')
    BY <1>4, <1>5, <1>9 DEF UpTo
  <2>6. keys \in SUBSET KeySet /\ journal'.phase # "dispatched" /\ journal'.chain = journal.chain
        /\ journal'.ids = journal.ids
    BY <1>5, <1>9
  <2> HIDE DEF keys
  <2> QED BY <1>1, <1>4, <1>8, <1>11, <2>1, <2>4, <2>5, <2>6, FreshOpens
<1> QED BY <1>12, <1>13

-----------------------------------------------------------------------------
LEMMA RecoverInputsStep ==
  ASSUME Journal!JournalAssumption, JournalInv, Journal!RecoverInputs
  PROVE  JournalInv'
<1>1. /\ pc = "inputs" /\ pc' = IF mem.calls > 0 THEN "tools" ELSE "loop"
      /\ inbox' = [i \in Journal!Inputs |-> IF inbox[i] # "staged" THEN inbox[i]
                                            ELSE IF i \in mem.ids THEN "consumed" ELSE "pending"]
      /\ UNCHANGED <<journal, requests, begun, contract, decided, answered, replies, mem>>
  BY DEF Journal!RecoverInputs
<1>2. /\ inbox \in [Journal!Inputs -> {"absent", "pending", "staged", "consumed"}]
      /\ mem \in Memory /\ journal \in JournalRow /\ Messages \subseteq Journal!Inputs
      /\ mem.calls \in Nat /\ MaxCalls \in Nat
  BY DEF JournalInv, JournalTypes, Memory, Journal!Inputs, Journal!JournalAssumption
<1>3. \A i \in Journal!Inputs :
         /\ inbox[i] # "staged" => inbox'[i] = inbox[i]
         /\ inbox[i] = "staged" /\ i \in mem.ids => inbox'[i] = "consumed"
         /\ inbox[i] = "staged" /\ i \notin mem.ids => inbox'[i] = "pending"
  BY <1>1
<1>4. pc' = "tools" => /\ journal.phase = "response" /\ Journal!Continued(journal) = mem
                       /\ journal.contract = contract /\ journal.shown = mem.shown
  <2>1. Journal!Continued(journal).contract = journal.contract /\ Journal!Continued(journal).shown = journal.shown
    BY <1>2, ContinuedFields
  <2> QED BY <1>1, <2>1 DEF JournalInv, PlaceInv, Awake
<1>5. JournalTypes'
  BY <1>1, <1>2 DEF JournalInv, JournalTypes
<1>6. PlaceInv'
  BY <1>1, <1>2, <1>4 DEF JournalInv, PlaceInv, Awake, Resumes
<1>7. KeyInv'
  BY <1>1 DEF JournalInv, KeyInv
<1>8. Resumes => mem.ids = journal.ids
  BY <1>1 DEF JournalInv, PlaceInv
<1>9. ToldInv'
  <2> SUFFICES ASSUME NEW i \in Messages
               PROVE  /\ \A r \in answered : Journal!Told(i) \in r.shown => inbox'[i] # "absent"
                      /\ Resumes =>
                           /\ inbox'[i] = "consumed" => Journal!Told(i) \in journal.shown
                           /\ i \in journal.ids => inbox'[i] \in {"staged", "consumed"} /\ Journal!Told(i) \in journal.shown
                           /\ Journal!Told(i) \in journal.shown => inbox'[i] = "consumed" \/ (inbox'[i] = "staged" /\ i \in journal.ids)
                      /\ Journal!Told(i) \in mem.shown => inbox'[i] # "absent"
                      /\ i \in mem.ids => inbox'[i] \in {"staged", "consumed"}
                      /\ inbox'[i] = "consumed" => Journal!Told(i) \in mem.shown
                      /\ inbox'[i] # "staged"
                      /\ pc' = "tools" /\ Journal!Told(i) \in mem.shown => inbox'[i] # "pending"
    BY <1>1 DEF ToldInv, Awake, Resumes
  <2>1. i \in Journal!Inputs /\ inbox[i] \in {"absent", "pending", "staged", "consumed"}
    BY <1>2
  <2>2. /\ \A r \in answered : Journal!Told(i) \in r.shown => inbox[i] # "absent"
        /\ Resumes =>
             /\ inbox[i] = "consumed" => Journal!Told(i) \in journal.shown
             /\ i \in journal.ids => inbox[i] \in {"staged", "consumed"} /\ Journal!Told(i) \in journal.shown
             /\ Journal!Told(i) \in journal.shown => inbox[i] = "consumed" \/ (inbox[i] = "staged" /\ i \in journal.ids)
        /\ Journal!Told(i) \in mem.shown => inbox[i] # "absent"
        /\ i \in mem.ids => inbox[i] \in {"staged", "consumed"}
        /\ inbox[i] = "consumed" => Journal!Told(i) \in mem.shown
        /\ inbox[i] = "staged" /\ i \in mem.ids => Journal!Told(i) \in mem.shown
    BY <1>1 DEF JournalInv, ToldInv, Awake
  <2>3. pc' = "tools" => Resumes
    BY <1>4 DEF Resumes
  <2> QED BY <1>3, <1>4, <1>8, <2>1, <2>2, <2>3
<1>10. ResultsInv'
  BY <1>1 DEF JournalInv, ResultsInv, Awake
<1>11. NovelInv'
  <2>1. Journal!Business \subseteq Journal!Business'
    BY <1>1, <1>2, <1>3 DEF Journal!Business, Journal!In
  <2>2. mem.calls = 0 => Novel(mem.shown \cup Journal!ToldAll(Journal!Business'), contract, answered, begun)
    <3>1. Journal!ToldAll(Journal!Business) \subseteq Journal!ToldAll(Journal!Business')
      BY <2>1 DEF Journal!ToldAll
    <3> QED BY <1>1, <3>1, NovelGrows DEF JournalInv, NovelInv
  <2>3. journal.phase = "dispatched" /\ journal.contract = contract =>
           \E i \in Journal!Business' : Untold(i, contract, answered)
    BY <1>1, <2>1 DEF JournalInv, NovelInv
  <2> QED BY <1>1, <2>2, <2>3 DEF JournalInv, NovelInv
<1>12. PaidInv'
  BY <1>1 DEF JournalInv, PaidInv
<1> QED BY <1>5, <1>6, <1>7, <1>9, <1>10, <1>11, <1>12 DEF JournalInv

LEMMA TakeInputsStep ==
  ASSUME Journal!JournalAssumption, JournalInv, Journal!TakeInputs
  PROVE  JournalInv'
<1> DEFINE new == Journal!In({"pending"})
<1>1. /\ pc = "loop" /\ pc' = "loop"
      /\ inbox' = [i \in Journal!Inputs |-> IF inbox[i] = "pending" THEN "staged" ELSE inbox[i]]
      /\ mem' = [mem EXCEPT !.ids = @ \cup new, !.shown = @ \cup Journal!ToldAll(new)]
      /\ UNCHANGED <<journal, requests, begun, contract, decided, answered, replies>>
  BY DEF Journal!TakeInputs
<1>2. /\ inbox \in [Journal!Inputs -> {"absent", "pending", "staged", "consumed"}]
      /\ mem \in Memory /\ journal \in JournalRow /\ Messages \subseteq Journal!Inputs
  BY DEF JournalInv, JournalTypes, Journal!Inputs
<1>3. \A i \in Journal!Inputs : inbox'[i] = IF inbox[i] = "pending" THEN "staged" ELSE inbox[i]
  BY <1>1
<1>4. \A i : i \in new <=> i \in Journal!Inputs /\ inbox[i] = "pending"
  BY DEF Journal!In
<1>5. new \in SUBSET Journal!Inputs /\ Journal!ToldAll(new) \in SUBSET Facts
  BY <1>4, FactSets
<1> HIDE DEF new
<1>6. /\ mem' \in Memory /\ mem'.chain = mem.chain /\ mem'.seq = mem.seq
      /\ mem'.ids = mem.ids \cup new /\ mem'.shown = mem.shown \cup Journal!ToldAll(new)
      /\ mem'.calls = mem.calls /\ mem'.contract = mem.contract
  BY <1>1, <1>2, <1>5 DEF Memory
<1>7. /\ \A k : Journal!Result(k) \in mem'.shown <=> Journal!Result(k) \in mem.shown
      /\ \A i : Journal!Told(i) \in mem'.shown <=> Journal!Told(i) \in mem.shown \/ i \in new
  BY <1>6, FactsDiffer
<1>8. mem.calls = 0
  BY <1>1 DEF JournalInv, PlaceInv
<1>9. JournalTypes'
  BY <1>1, <1>2, <1>6 DEF JournalInv, JournalTypes
<1>10. PlaceInv'
  <2>1. UpTo(Place(journal), mem) => UpTo(Place(journal), mem')
    BY <1>6 DEF UpTo
  <2> QED BY <1>1, <1>6, <1>8, <2>1 DEF JournalInv, PlaceInv, Awake, Resumes
<1>11. KeyInv'
  BY <1>1, <1>7 DEF JournalInv, KeyInv
<1>12. ToldInv'
  <2> SUFFICES ASSUME NEW i \in Messages
               PROVE  /\ \A r \in answered : Journal!Told(i) \in r.shown => inbox'[i] # "absent"
                      /\ Resumes =>
                           /\ inbox'[i] = "consumed" => Journal!Told(i) \in journal.shown
                           /\ i \in journal.ids => inbox'[i] \in {"staged", "consumed"} /\ Journal!Told(i) \in journal.shown
                           /\ Journal!Told(i) \in journal.shown => inbox'[i] = "consumed" \/ (inbox'[i] = "staged" /\ i \in journal.ids)
                      /\ Journal!Told(i) \in mem'.shown => inbox'[i] # "absent"
                      /\ i \in mem'.ids => inbox'[i] \in {"staged", "consumed"}
                      /\ inbox'[i] = "consumed" => Journal!Told(i) \in mem'.shown
                      /\ inbox'[i] = "staged" => i \in mem'.ids /\ Journal!Told(i) \in mem'.shown
    BY <1>1 DEF ToldInv, Awake, Resumes
  <2>1. i \in Journal!Inputs /\ inbox[i] \in {"absent", "pending", "staged", "consumed"}
    BY <1>2
  <2>2. /\ \A r \in answered : Journal!Told(i) \in r.shown => inbox[i] # "absent"
        /\ Resumes =>
             /\ inbox[i] = "consumed" => Journal!Told(i) \in journal.shown
             /\ i \in journal.ids => inbox[i] \in {"staged", "consumed"} /\ Journal!Told(i) \in journal.shown
             /\ Journal!Told(i) \in journal.shown => inbox[i] = "consumed" \/ (inbox[i] = "staged" /\ i \in journal.ids)
        /\ Journal!Told(i) \in mem.shown => inbox[i] # "absent"
        /\ i \in mem.ids => inbox[i] \in {"staged", "consumed"}
        /\ inbox[i] = "consumed" => Journal!Told(i) \in mem.shown
        /\ inbox[i] = "staged" => i \in mem.ids /\ Journal!Told(i) \in mem.shown
    BY <1>1 DEF JournalInv, ToldInv, Awake
  <2> QED BY <1>3, <1>4, <1>6, <1>7, <2>1, <2>2
<1>13. ResultsInv'
  <2>1. Journal!Results(begun \ Journal!KeysOf(mem')) \subseteq mem.shown
    BY <1>1, <1>6 DEF JournalInv, ResultsInv, Awake, Journal!KeysOf
  <2> QED BY <1>1, <1>6, <2>1 DEF JournalInv, ResultsInv
<1>14. NovelInv'
  <2>1. Journal!Business \subseteq new /\ Journal!Business' = {}
    BY <1>1, <1>2, <1>3, <1>4 DEF Journal!Business, Journal!In
  <2>2. mem.shown \cup Journal!ToldAll(Journal!Business) \subseteq mem'.shown
    BY <1>6, <2>1 DEF Journal!ToldAll
  <2>3. Novel(mem.shown \cup Journal!ToldAll(Journal!Business), contract, answered, begun)
    BY <1>1, <1>8 DEF JournalInv, NovelInv
  <2>4. Novel(mem'.shown \cup Journal!ToldAll(Journal!Business'), contract, answered, begun)
    BY <2>2, <2>3, NovelGrows
  <2> QED BY <1>1, <2>1, <2>4 DEF JournalInv, NovelInv
<1>15. PaidInv'
  BY <1>1 DEF JournalInv, PaidInv
<1> QED BY <1>9, <1>10, <1>11, <1>12, <1>13, <1>14, <1>15 DEF JournalInv

LEMMA ReserveRequestStep ==
  ASSUME Journal!JournalAssumption, JournalInv, Journal!ReserveRequest
  PROVE  JournalInv'
<1>1. /\ pc = "loop" /\ pc' = "reserved" /\ Journal!In({"pending"}) = {}
      /\ requests' = requests + 1 /\ mem' = [mem EXCEPT !.seq = @ + 1]
      /\ UNCHANGED <<inbox, journal, begun, contract, decided, answered, replies>>
  BY DEF Journal!ReserveRequest
<1>2. /\ mem \in Memory /\ journal \in JournalRow /\ requests \in Nat /\ Messages \subseteq Journal!Inputs
  BY DEF JournalInv, JournalTypes, Journal!Inputs
<1>3. /\ mem' \in Memory /\ mem'.chain = mem.chain /\ mem'.seq = mem.seq + 1
      /\ mem'.ids = mem.ids /\ mem'.shown = mem.shown
      /\ mem'.calls = mem.calls /\ mem'.contract = mem.contract
  BY <1>1, <1>2 DEF Memory
<1>4. /\ mem.calls = 0 /\ mem.chain \in Nat /\ mem.seq \in Nat
      /\ journal.chain \in Nat /\ journal.seq \in Nat
  BY <1>1, <1>2 DEF JournalInv, PlaceInv, Memory, JournalRow
<1>5. JournalTypes'
  BY <1>1, <1>2, <1>3 DEF JournalInv, JournalTypes
<1>6. PlaceInv'
  <2>1. UpTo(Place(journal), mem) => Behind(Place(journal), mem')
    BY <1>3, <1>4 DEF UpTo, Behind, Place
  <2> QED BY <1>1, <1>2, <1>3, <1>4, <2>1 DEF JournalInv, PlaceInv, Awake, Resumes
<1>7. KeyInv'
  BY <1>1, <1>3 DEF JournalInv, KeyInv
<1>8. ToldInv'
  <2>1. \A i \in Messages : inbox[i] # "pending"
    BY <1>1, <1>2 DEF Journal!In
  <2> QED BY <1>1, <1>3, <2>1 DEF JournalInv, ToldInv, Awake, Resumes
<1>9. ResultsInv'
  <2>1. Journal!KeysOf(mem) = {} /\ Journal!KeysOf(mem') = {}
    <3>1. mem'.chain \in Nat /\ mem'.seq \in Nat /\ mem'.calls \in Nat /\ mem'.calls = 0
      BY <1>3, <1>4
    <3>2. mem.calls \in Nat
      BY <1>4
    <3> QED BY <1>4, <3>1, <3>2, KeysOfFields
  <2> QED BY <1>1, <1>3, <2>1 DEF JournalInv, ResultsInv, Awake
<1>10. NovelInv'
  <2>1. Journal!Business = {} /\ Journal!Business' = {}
    BY <1>1 DEF Journal!Business, Journal!In
  <2>2. Novel(mem.shown \cup Journal!ToldAll({}), contract, answered, begun)
    BY <1>1, <1>4, <2>1 DEF JournalInv, NovelInv
  <2>3. mem.shown \cup Journal!ToldAll({}) = mem.shown
    BY DEF Journal!ToldAll
  <2> QED BY <1>1, <1>3, <2>1, <2>2, <2>3 DEF JournalInv, NovelInv
<1>11. PaidInv'
  BY <1>1 DEF JournalInv, PaidInv
<1> QED BY <1>5, <1>6, <1>7, <1>8, <1>9, <1>10, <1>11 DEF JournalInv

LEMMA SaveDispatchedStep ==
  ASSUME Journal!JournalAssumption, JournalInv, Journal!SaveDispatched
  PROVE  JournalInv'
<1>1. /\ pc = "reserved" /\ pc' = "sent" /\ journal' = Journal!Saved("dispatched", mem)
      /\ UNCHANGED <<inbox, requests, begun, contract, decided, answered, replies, mem>>
  BY DEF Journal!SaveDispatched
<1>2. /\ mem \in Memory /\ journal \in JournalRow /\ begun \subseteq KeySet /\ contract \in Nat
      /\ "dispatched" \in Journal!Rows
  BY DEF JournalInv, JournalTypes, Journal!Rows, Journal!JournalAssumption
<1>3. /\ journal' \in JournalRow /\ journal'.phase = "dispatched"
      /\ journal'.chain = mem.chain /\ journal'.seq = mem.seq /\ journal'.ids = mem.ids
      /\ journal'.shown = mem.shown /\ journal'.calls = mem.calls /\ journal'.contract = mem.contract
  BY <1>1, <1>2, SavedFields
<1>4. /\ mem.calls = 0 /\ mem.contract = contract /\ requests > 0 /\ journal.contract <= contract
      /\ Behind(Place(journal), mem)
  BY <1>1 DEF JournalInv, PlaceInv, Awake
<1>5. /\ mem.chain \in Nat /\ mem.seq \in Nat /\ journal.chain \in Nat /\ journal.seq \in Nat
      /\ journal.contract \in Nat
  BY <1>2 DEF Memory, JournalRow
<1>6. \A k \in KeySet : UpTo(k, journal) => Behind(k, journal') /\ UpTo(k, journal')
  BY <1>3, <1>4, <1>5 DEF KeySet, UpTo, Behind, Place
<1>7. JournalTypes'
  BY <1>1, <1>3 DEF JournalInv, JournalTypes
<1>8. PlaceInv'
  <2>1. requests \in Nat
    BY DEF JournalInv, JournalTypes
  <2>2. Place(journal') = Place(mem')
    BY <1>1, <1>3 DEF Place
  <2> QED BY <1>1, <1>2, <1>3, <1>4, <2>1, <2>2 DEF PlaceInv, Awake, Resumes
<1>9. KeyInv'
  <2>1. \A k \in begun : k \in KeySet
    BY <1>2
  <2> QED BY <1>1, <1>3, <1>6, <2>1 DEF JournalInv, KeyInv
<1>10. ToldInv'
  BY <1>1, <1>3 DEF JournalInv, ToldInv, Awake, Resumes
<1>11. ResultsInv'
  BY <1>1, <1>3 DEF JournalInv, ResultsInv, Awake
<1>12. NovelInv'
  <2>1. Journal!Business' = Journal!Business
    BY <1>1 DEF Journal!Business, Journal!In
  <2>2. \A r \in answered : r.contract \in Nat /\ r.contract <= journal'.contract
    <3>1. \A r \in answered : r.contract \in Nat /\ r.contract <= journal.contract
      BY DEF JournalInv, NovelInv
    <3>2. journal.contract <= journal'.contract
      BY <1>3, <1>4
    <3> QED BY <1>2, <1>3, <1>4, <1>5, <3>1, <3>2
  <2> QED BY <1>1, <1>3, <1>4, <2>1, <2>2 DEF JournalInv, NovelInv
<1>13. PaidInv'
  BY <1>1 DEF JournalInv, PaidInv
<1> QED BY <1>7, <1>8, <1>9, <1>10, <1>11, <1>12, <1>13 DEF JournalInv

-----------------------------------------------------------------------------
(* A session that is saved tells exactly the messages that it took in.     *)
Carries(m) ==
    \A i \in Messages :
        /\ inbox[i] = "consumed" => Journal!Told(i) \in m.shown
        /\ i \in m.ids => inbox[i] \in {"staged", "consumed"} /\ Journal!Told(i) \in m.shown
        /\ Journal!Told(i) \in m.shown =>
               inbox[i] = "consumed" \/ (inbox[i] = "staged" /\ i \in m.ids)

LEMMA SessionCarries ==
  ASSUME JournalInv, pc \in {"sent", "calls", "tools", "closing"}
  PROVE  Carries(mem)
<1> SUFFICES ASSUME NEW i \in Messages
             PROVE  /\ inbox[i] = "consumed" => Journal!Told(i) \in mem.shown
                    /\ i \in mem.ids => inbox[i] \in {"staged", "consumed"} /\ Journal!Told(i) \in mem.shown
                    /\ Journal!Told(i) \in mem.shown =>
                           inbox[i] = "consumed" \/ (inbox[i] = "staged" /\ i \in mem.ids)
  BY DEF Carries
<1>1. /\ Journal!Told(i) \in mem.shown => inbox[i] # "absent"
      /\ i \in mem.ids => inbox[i] \in {"staged", "consumed"}
      /\ inbox[i] = "consumed" => Journal!Told(i) \in mem.shown
      /\ inbox[i] = "staged" /\ i \in mem.ids => Journal!Told(i) \in mem.shown
      /\ inbox[i] = "staged" => i \in mem.ids
      /\ Journal!Told(i) \in mem.shown => inbox[i] # "pending"
  BY DEF JournalInv, ToldInv, Awake
<1>2. inbox[i] \in {"absent", "pending", "staged", "consumed"}
  BY DEF JournalInv, JournalTypes, Journal!Inputs
<1> QED BY <1>1, <1>2

LEMMA RequestFailsStep ==
  ASSUME Journal!JournalAssumption, JournalInv, Journal!RequestFails
  PROVE  JournalInv'
<1>1. /\ pc = "sent" /\ pc' = "down" /\ journal' = Journal!Saved("paired", mem)
      /\ mem' = Journal!NoSession
      /\ UNCHANGED <<inbox, requests, begun, contract, decided, answered, replies>>
  BY DEF Journal!RequestFails
<1>2. /\ mem \in Memory /\ journal \in JournalRow /\ "paired" \in Journal!Rows
  BY DEF JournalInv, JournalTypes, Journal!Rows
<1>3. /\ journal' \in JournalRow /\ journal'.phase = "paired"
      /\ journal'.chain = mem.chain /\ journal'.seq = mem.seq /\ journal'.ids = mem.ids
      /\ journal'.shown = mem.shown /\ journal'.calls = mem.calls /\ journal'.contract = mem.contract
  BY <1>1, <1>2, SavedFields
<1>4. /\ mem' \in Memory /\ mem'.shown = {}
  BY <1>1 DEF Journal!NoSession, Memory, Journal!JournalAssumption
<1>5. /\ mem.calls = 0 /\ mem.contract = contract /\ journal.contract = contract
      /\ journal.phase = "dispatched" /\ mem.chain = journal.chain /\ mem.seq = journal.seq
      /\ requests # 0
  BY <1>1 DEF JournalInv, PlaceInv, Awake, Place
<1>6. JournalTypes'
  BY <1>1, <1>3, <1>4 DEF JournalInv, JournalTypes
<1>7. PlaceInv'
  <2>1. contract \in Nat
    BY DEF JournalInv, JournalTypes, Journal!JournalAssumption
  <2> QED BY <1>1, <1>3, <1>5, <2>1 DEF PlaceInv, Awake
<1>8. KeyInv'
  <2>1. \A k : UpTo(k, journal') <=> UpTo(k, journal)
    BY <1>3, <1>5 DEF UpTo
  <2> QED BY <1>1, <1>3, <1>4, <2>1 DEF JournalInv, KeyInv
<1>9. ToldInv'
  BY <1>1, <1>3, SessionCarries DEF JournalInv, Carries, ToldInv, Awake
<1>10. ResultsInv'
  <2>1. Journal!KeysOf(journal') = Journal!KeysOf(mem)
    BY <1>3 DEF Journal!KeysOf
  <2> QED BY <1>1, <1>3, <2>1 DEF JournalInv, ResultsInv, Awake
<1>11. NovelInv'
  BY <1>1, <1>3, <1>5 DEF JournalInv, NovelInv
<1>12. PaidInv'
  BY <1>1 DEF JournalInv, PaidInv
<1> QED BY <1>6, <1>7, <1>8, <1>9, <1>10, <1>11, <1>12 DEF JournalInv

(* The request told what no answered one under its contract told: it is    *)
(* another record.                                                         *)
LEMMA AnswerStep ==
  ASSUME Journal!JournalAssumption, JournalInv, NEW n \in 0 .. MaxCalls, Journal!Answer(n)
  PROVE  JournalInv'
<1> DEFINE r == [contract |-> mem.contract, shown |-> mem.shown]
<1>1. /\ pc = "sent" /\ pc' = "answered" /\ answered' = answered \cup {r}
      /\ replies' = replies + 1 /\ mem' = [mem EXCEPT !.calls = n]
      /\ UNCHANGED <<inbox, journal, requests, begun, contract, decided>>
  BY DEF Journal!Answer
<1>2. mem \in Memory /\ journal \in JournalRow /\ contract \in Nat
  BY DEF JournalInv, JournalTypes, Journal!JournalAssumption
<1>3. /\ mem' \in Memory /\ mem'.chain = mem.chain /\ mem'.seq = mem.seq
      /\ mem'.ids = mem.ids /\ mem'.shown = mem.shown /\ mem'.contract = mem.contract
  BY <1>1, <1>2 DEF Memory
<1>4. r.contract = mem.contract /\ r.shown = mem.shown
  OBVIOUS
<1> HIDE DEF r
<1>5. /\ mem.calls = 0 /\ mem.contract = contract /\ journal.contract = contract
      /\ journal.phase = "dispatched" /\ Place(journal) = Place(mem) /\ requests # 0
  BY <1>1 DEF JournalInv, PlaceInv, Awake
<1>6. JournalTypes'
  BY <1>1, <1>3 DEF JournalInv, JournalTypes
<1>7. PlaceInv'
  <2>1. Place(journal') = Place(mem')
    BY <1>1, <1>3, <1>5 DEF Place
  <2>2. (journal.calls > 0 <=> journal.phase = "response") /\ journal.contract <= contract
    BY DEF JournalInv, PlaceInv
  <2> QED BY <1>1, <1>3, <1>5, <2>1, <2>2 DEF PlaceInv, Awake, Resumes
<1>8. KeyInv'
  <2>1. \A k \in KeySet : Journal!Result(k) \in r.shown => Behind(k, journal) /\ UpTo(k, journal)
    BY <1>1, <1>4 DEF JournalInv, KeyInv
  <2> QED BY <1>1, <1>3, <2>1 DEF JournalInv, KeyInv
<1>9. \A i \in Messages : Journal!Told(i) \in r.shown => inbox[i] # "absent" /\ inbox[i] # "pending"
  BY <1>1, <1>4 DEF JournalInv, ToldInv, Awake
<1>10. ToldInv'
  <2>1. ~Resumes'
    BY <1>1, <1>5 DEF Resumes
  <2> QED BY <1>1, <1>3, <1>9, <2>1 DEF JournalInv, ToldInv, Awake
<1>11. ResultsInv'
  <2>1. Journal!KeysOf(mem) = {}
    BY <1>5 DEF Journal!KeysOf
  <2>2. Journal!Results(begun) \subseteq mem.shown
    BY <1>1, <2>1 DEF JournalInv, ResultsInv, Awake
  <2> QED BY <1>1, <1>3, <1>5, <2>2 DEF ResultsInv, Journal!Results
<1>12. NovelInv'
  <2>1. Journal!Business' = Journal!Business
    BY <1>1 DEF Journal!Business, Journal!In
  <2>2. \A i \in Journal!Business : Journal!Told(i) \notin r.shown
    BY <1>9 DEF Journal!Business, Journal!In
  <2>3. \A i \in Journal!Business : Untold(i, contract, answered')
    BY <1>1, <2>2 DEF JournalInv, NovelInv, Untold
  <2>4. \A s \in answered' : s.contract \in Nat /\ s.contract <= journal.contract
    BY <1>1, <1>2, <1>4, <1>5 DEF JournalInv, NovelInv
  <2> QED BY <1>1, <1>5, <2>1, <2>3, <2>4 DEF NovelInv
<1>13. PaidInv'
  <2>1. Novel(mem.shown, contract, answered, begun)
    BY <1>1 DEF JournalInv, NovelInv
  <2>2. r \notin answered
    BY <1>4, <1>5, <2>1 DEF Novel
  <2> QED BY <1>1, <2>2, FS_AddElement DEF JournalInv, PaidInv
<1> QED BY <1>6, <1>7, <1>8, <1>10, <1>11, <1>12, <1>13 DEF JournalInv

LEMMA ConfirmInputsStep ==
  ASSUME Journal!JournalAssumption, JournalInv, Journal!ConfirmInputs
  PROVE  JournalInv'
<1>1. /\ pc = "answered" /\ pc' = IF mem.calls > 0 THEN "calls" ELSE "final"
      /\ inbox' = [i \in Journal!Inputs |-> IF inbox[i] = "staged" THEN "consumed" ELSE inbox[i]]
      /\ UNCHANGED <<journal, requests, begun, contract, decided, answered, replies, mem>>
  BY DEF Journal!ConfirmInputs
<1>2. /\ inbox \in [Journal!Inputs -> {"absent", "pending", "staged", "consumed"}]
      /\ mem \in Memory /\ Messages \subseteq Journal!Inputs /\ mem.calls \in Nat
  BY DEF JournalInv, JournalTypes, Memory, Journal!Inputs, Journal!JournalAssumption
<1>3. \A i \in Journal!Inputs : inbox'[i] = IF inbox[i] = "staged" THEN "consumed" ELSE inbox[i]
  BY <1>1
<1>4. JournalTypes'
  BY <1>1, <1>2 DEF JournalInv, JournalTypes
<1>5. journal.phase = "dispatched" /\ journal.contract = contract /\ requests # 0
  BY <1>1 DEF JournalInv, PlaceInv
<1>6. PlaceInv'
  <2>1. Place(journal) = Place(mem) /\ mem.contract = contract /\ (journal.calls > 0 <=> journal.phase = "response")
        /\ journal.contract <= contract
    BY <1>1 DEF JournalInv, PlaceInv, Awake
  <2>2. CASE mem.calls > 0
    BY <1>1, <1>5, <2>1, <2>2 DEF PlaceInv, Awake
  <2>3. CASE ~(mem.calls > 0)
    BY <1>1, <1>2, <1>5, <2>1, <2>3 DEF PlaceInv, Awake
  <2> QED BY <2>2, <2>3
<1>7. KeyInv'
  BY <1>1 DEF JournalInv, KeyInv
<1>8. ToldInv'
  <2>1. ~Resumes'
    BY <1>1, <1>5 DEF Resumes
  <2> SUFFICES ASSUME NEW i \in Messages
               PROVE  /\ \A r \in answered : Journal!Told(i) \in r.shown => inbox'[i] # "absent"
                      /\ Journal!Told(i) \in mem.shown => inbox'[i] # "absent" /\ inbox'[i] # "pending"
                      /\ i \in mem.ids => inbox'[i] = "consumed"
                      /\ inbox'[i] = "consumed" => Journal!Told(i) \in mem.shown
                      /\ inbox'[i] # "staged"
    BY <1>1, <2>1 DEF ToldInv, Awake
  <2>2. /\ \A r \in answered : Journal!Told(i) \in r.shown => inbox[i] # "absent"
        /\ Journal!Told(i) \in mem.shown => inbox[i] # "absent"
        /\ i \in mem.ids => inbox[i] \in {"staged", "consumed"}
        /\ inbox[i] = "consumed" => Journal!Told(i) \in mem.shown
        /\ inbox[i] = "staged" /\ i \in mem.ids => Journal!Told(i) \in mem.shown
        /\ inbox[i] = "staged" => i \in mem.ids
        /\ Journal!Told(i) \in mem.shown => inbox[i] # "pending"
    BY <1>1 DEF JournalInv, ToldInv, Awake
  <2>3. i \in Journal!Inputs
    BY <1>2
  <2> QED BY <1>3, <2>2, <2>3
<1>9. ResultsInv'
  BY <1>1 DEF JournalInv, ResultsInv, Awake
<1>10. NovelInv'
  <2>1. Journal!Business' = Journal!Business
    BY <1>1, <1>3 DEF Journal!Business, Journal!In
  <2> QED BY <1>1, <1>5, <2>1 DEF JournalInv, NovelInv
<1>11. PaidInv'
  BY <1>1 DEF JournalInv, PaidInv
<1> QED BY <1>4, <1>6, <1>7, <1>8, <1>9, <1>10, <1>11 DEF JournalInv

LEMMA SaveResponseStep ==
  ASSUME Journal!JournalAssumption, JournalInv, Journal!SaveResponse
  PROVE  JournalInv'
<1>1. /\ pc = "calls" /\ pc' = "tools" /\ journal' = Journal!Saved("response", mem)
      /\ UNCHANGED <<inbox, requests, begun, contract, decided, answered, replies, mem>>
  BY DEF Journal!SaveResponse
<1>2. mem \in Memory /\ "response" \in Journal!Rows /\ contract \in Nat
  BY DEF JournalInv, JournalTypes, Journal!Rows, Journal!JournalAssumption
<1>3. /\ journal' \in JournalRow /\ journal'.phase = "response"
      /\ journal'.chain = mem.chain /\ journal'.seq = mem.seq /\ journal'.ids = mem.ids
      /\ journal'.shown = mem.shown /\ journal'.calls = mem.calls /\ journal'.contract = mem.contract
      /\ Journal!Continued(journal') = mem
  BY <1>1, <1>2, SavedFields
<1>4. /\ mem.calls > 0 /\ mem.contract = contract /\ journal.contract = contract /\ requests # 0
      /\ journal.phase = "dispatched" /\ mem.chain = journal.chain /\ mem.seq = journal.seq
  BY <1>1 DEF JournalInv, PlaceInv, Awake, Place
<1>5. JournalTypes'
  BY <1>1, <1>3 DEF JournalInv, JournalTypes
<1>6. PlaceInv'
  BY <1>1, <1>2, <1>3, <1>4 DEF PlaceInv, Awake
<1>7. KeyInv'
  <2>1. \A k : (UpTo(k, journal') <=> UpTo(k, journal)) /\ (Behind(k, journal') <=> Behind(k, journal))
    BY <1>3, <1>4 DEF UpTo, Behind
  <2> QED BY <1>1, <1>3, <1>4, <2>1 DEF JournalInv, KeyInv
<1>8. ToldInv'
  BY <1>1, <1>3, SessionCarries DEF JournalInv, Carries, ToldInv, Awake
<1>9. ResultsInv'
  <2>1. Journal!KeysOf(journal') = Journal!KeysOf(mem)
    BY <1>3 DEF Journal!KeysOf
  <2> QED BY <1>1, <1>3, <2>1 DEF JournalInv, ResultsInv, Awake
<1>10. NovelInv'
  BY <1>1, <1>3, <1>4 DEF JournalInv, NovelInv
<1>11. PaidInv'
  BY <1>1 DEF JournalInv, PaidInv
<1> QED BY <1>5, <1>6, <1>7, <1>8, <1>9, <1>10, <1>11 DEF JournalInv

LEMMA InvokeStep ==
  ASSUME Journal!JournalAssumption, JournalInv, NEW c \in 1 .. MaxCalls, Journal!Invoke(c)
  PROVE  JournalInv'
<1> DEFINE k == Journal!Key(mem.chain, mem.seq, c)
<1>1. /\ pc = "tools" /\ c \in 1 .. mem.calls /\ begun' = begun \cup {k}
      /\ UNCHANGED <<inbox, journal, requests, contract, decided, answered, replies, pc, mem>>
  BY DEF Journal!Invoke
<1>2. /\ mem \in Memory /\ journal \in JournalRow
      /\ journal.phase = "response" /\ Journal!Continued(journal) = mem
  BY <1>1 DEF JournalInv, JournalTypes, PlaceInv
<1>3. /\ mem.chain = journal.chain /\ mem.seq = journal.seq /\ mem.calls = journal.calls
      /\ mem.chain \in Nat /\ mem.seq \in Nat
  BY <1>2, ContinuedFields DEF Memory
<1>4. k \in Journal!KeysOf(mem) /\ Journal!KeysOf(mem) = Journal!KeysOf(journal)
  BY <1>1, <1>3 DEF Journal!KeysOf
<1>5. k \in KeySet /\ UpTo(k, journal)
  BY <1>1, <1>3 DEF KeySet, UpTo, Journal!Key
<1> HIDE DEF k
<1>6. JournalTypes'
  BY <1>1, <1>5 DEF JournalInv, JournalTypes
<1>7. PlaceInv'
  BY <1>1, <1>2 DEF JournalInv, PlaceInv, Awake, Resumes
<1>8. KeyInv'
  BY <1>1, <1>5 DEF JournalInv, KeyInv
<1>9. ToldInv'
  BY <1>1 DEF JournalInv, ToldInv, Awake, Resumes
<1>10. ResultsInv'
  <2>1. begun' \ Journal!KeysOf(mem) = begun \ Journal!KeysOf(mem)
    BY <1>1, <1>4
  <2> QED BY <1>1, <1>4, <2>1 DEF JournalInv, ResultsInv, Awake
<1>11. NovelInv'
  <2>1. Journal!Business' = Journal!Business
    BY <1>1 DEF Journal!Business, Journal!In
  <2> QED BY <1>1, <1>2, <2>1 DEF JournalInv, NovelInv
<1>12. PaidInv'
  BY <1>1 DEF JournalInv, PaidInv
<1> QED BY <1>6, <1>7, <1>8, <1>9, <1>10, <1>11, <1>12 DEF JournalInv

(* The first call of the batch is one no answered request told.            *)
LEMMA SavePairedStep ==
  ASSUME Journal!JournalAssumption, JournalInv, Journal!SavePaired
  PROVE  JournalInv'
<1> DEFINE keys == Journal!KeysOf(mem)
           m == PairedWith(mem, Journal!Results(keys))
<1>1. mem \in Memory /\ "paired" \in Journal!Rows /\ contract \in Nat
  BY DEF JournalInv, JournalTypes, Journal!Rows, Journal!JournalAssumption
<1>2. /\ pc = "tools" /\ pc' = "loop" /\ keys \subseteq begun
      /\ mem' = m /\ journal' = Journal!Saved("paired", m)
      /\ UNCHANGED <<inbox, requests, begun, contract, decided, answered, replies>>
  <2>1. m = [mem EXCEPT !.calls = 0, !.shown = @ \cup Journal!Results(keys)]
    BY <1>1, PairedIs
  <2> HIDE DEF m
  <2> QED BY <2>1 DEF Journal!SavePaired
<1>3. /\ journal \in JournalRow /\ journal.phase = "response" /\ Journal!Continued(journal) = mem
      /\ mem.calls > 0 /\ mem.contract = contract /\ journal.contract = contract /\ requests # 0
  BY <1>2 DEF JournalInv, JournalTypes, PlaceInv, Awake
<1>4. /\ mem.chain = journal.chain /\ mem.seq = journal.seq /\ mem.chain \in Nat /\ mem.seq \in Nat
      /\ mem.calls \in Nat
  BY <1>1, <1>3, ContinuedFields DEF Memory, Journal!JournalAssumption
<1>5. /\ keys \subseteq KeySet /\ \A k \in keys : k[1] = mem.chain /\ k[2] = mem.seq
      /\ <<mem.chain, mem.seq, 1>> \in keys
  BY <1>3, <1>4, KeysOfFields
<1>6. Journal!Results(keys) \in SUBSET Facts
  BY <1>5, FactSets
<1>7. /\ m \in Memory
      /\ m.chain = mem.chain /\ m.seq = mem.seq /\ m.ids = mem.ids /\ m.contract = mem.contract
      /\ m.shown = mem.shown \cup Journal!Results(keys) /\ m.calls = 0
  BY <1>1, <1>6, PairedFields
<1> HIDE DEF m
<1>8. /\ journal' \in JournalRow /\ journal'.phase = "paired"
      /\ journal'.chain = m.chain /\ journal'.seq = m.seq /\ journal'.ids = m.ids
      /\ journal'.shown = m.shown /\ journal'.calls = m.calls /\ journal'.contract = m.contract
  BY <1>1, <1>2, <1>7, SavedFields
<1>9. /\ \A k : Journal!Result(k) \in m.shown <=> Journal!Result(k) \in mem.shown \/ k \in keys
      /\ \A i : Journal!Told(i) \in m.shown <=> Journal!Told(i) \in mem.shown
  BY <1>7, FactsDiffer
<1>10. Journal!Results(begun) \subseteq m.shown
  <2>1. Journal!Results(begun \ keys) \subseteq mem.shown
    BY <1>2 DEF JournalInv, ResultsInv, Awake
  <2> QED BY <1>7, <2>1 DEF Journal!Results
<1>11. Novel(m.shown, contract, answered, begun)
  <2> DEFINE first == <<mem.chain, mem.seq, 1>>
  <2>1. first \in begun /\ first \in KeySet /\ Journal!Result(first) \in m.shown
    BY <1>2, <1>5, <1>9
  <2>2. ~Behind(first, journal)
    BY <1>4 DEF Behind
  <2> HIDE DEF first
  <2>3. \A r \in answered : Journal!Result(first) \notin r.shown
    BY <1>3, <2>1, <2>2 DEF JournalInv, KeyInv
  <2> QED BY <2>1, <2>3, NovelResult
<1>12. JournalTypes'
  BY <1>2, <1>7, <1>8 DEF JournalInv, JournalTypes
<1>13. PlaceInv'
  <2>1. UpTo(Place(journal'), mem')
    BY <1>2, <1>4, <1>7, <1>8 DEF UpTo, Place
  <2> QED BY <1>1, <1>2, <1>3, <1>7, <1>8, <2>1 DEF PlaceInv, Awake
<1>14. KeyInv'
  <2>1. \A k : UpTo(k, journal') <=> UpTo(k, journal)
    BY <1>4, <1>7, <1>8 DEF UpTo
  <2>2. \A k \in keys : UpTo(k, journal)
    BY <1>4, <1>5 DEF UpTo
  <2>3. \A k \in KeySet : Journal!Result(k) \in mem.shown => UpTo(k, journal)
    BY DEF JournalInv, KeyInv
  <2> QED BY <1>2, <1>8, <1>9, <2>1, <2>2, <2>3 DEF JournalInv, KeyInv
<1>15. ToldInv'
  <2>1. \A i \in Messages : pc # "inputs" /\ inbox[i] = "staged" => i \in mem.ids
    BY <1>2 DEF JournalInv, ToldInv, Awake
  <2>2. Carries(m)
    BY <1>2, <1>7, <1>9, SessionCarries DEF Carries
  <2>3. \A i \in Messages : \A r \in answered : Journal!Told(i) \in r.shown => inbox[i] # "absent"
    BY DEF JournalInv, ToldInv
  <2> QED BY <1>2, <1>7, <1>8, <2>1, <2>2, <2>3 DEF Carries, ToldInv, Awake
<1>16. ResultsInv'
  <2>1. \A K : Journal!Results(begun \ K) \subseteq m.shown
    BY <1>10 DEF Journal!Results
  <2> QED BY <1>2, <1>8, <2>1 DEF ResultsInv
<1>17. NovelInv'
  <2>1. Novel(m.shown \cup Journal!ToldAll(Journal!Business'), contract, answered, begun)
    BY <1>11, NovelGrows
  <2> QED BY <1>2, <1>3, <1>7, <1>8, <1>11, <2>1 DEF JournalInv, NovelInv
<1>18. PaidInv'
  BY <1>2 DEF JournalInv, PaidInv
<1> QED BY <1>12, <1>13, <1>14, <1>15, <1>16, <1>17, <1>18 DEF JournalInv

LEMMA SettleFinalStep ==
  ASSUME Journal!JournalAssumption, JournalInv, Journal!SettleFinal
  PROVE  JournalInv'
<1>1. /\ pc = "final"
      /\ \/ Journal!Business # {} /\ pc' = "loop" /\ decided' = decided
         \/ pc' = "closing" /\ decided' = TRUE
      /\ UNCHANGED <<inbox, journal, requests, begun, contract, answered, replies, mem>>
  BY DEF Journal!SettleFinal
<1>2. mem \in Memory /\ journal \in JournalRow
  BY DEF JournalInv, JournalTypes
<1>3. /\ mem.calls = 0 /\ mem.contract = contract /\ journal.contract = contract
      /\ journal.phase = "dispatched" /\ Place(journal) = Place(mem) /\ requests # 0
  BY <1>1 DEF JournalInv, PlaceInv, Awake
<1>4. JournalTypes'
  BY <1>1 DEF JournalInv, JournalTypes
<1>5. PlaceInv'
  <2>1. UpTo(Place(journal), mem)
    <3>1. mem.chain = journal.chain /\ mem.seq = journal.seq /\ mem.seq \in Nat
      BY <1>2, <1>3 DEF Place, Memory
    <3> QED BY <3>1 DEF UpTo, Place
  <2>2. /\ journal.contract <= contract /\ (journal.calls > 0 <=> journal.phase = "response")
    BY DEF JournalInv, PlaceInv
  <2> QED BY <1>1, <1>3, <2>1, <2>2 DEF PlaceInv, Awake, Resumes
<1>6. KeyInv'
  BY <1>1 DEF JournalInv, KeyInv
<1>7. ToldInv'
  BY <1>1 DEF JournalInv, ToldInv, Awake, Resumes
<1>8. ResultsInv'
  BY <1>1 DEF JournalInv, ResultsInv, Awake
<1>9. NovelInv'
  <2>1. Journal!Business' = Journal!Business
    BY <1>1 DEF Journal!Business, Journal!In
  <2>2. \A i \in Journal!Business : Untold(i, contract, answered)
    BY <1>1 DEF JournalInv, NovelInv
  <2>3. ASSUME Journal!Business # {}
        PROVE  Novel(mem.shown \cup Journal!ToldAll(Journal!Business), contract, answered, begun)
    <3>1. PICK i \in Journal!Business : TRUE
      BY <2>3
    <3>2. i \in Messages /\ Journal!Told(i) \in Journal!ToldAll(Journal!Business)
      BY FactsDiffer DEF Journal!Business
    <3> QED BY <2>2, <3>1, <3>2, NovelMessage
  <2> QED BY <1>1, <1>3, <2>1, <2>2, <2>3 DEF JournalInv, NovelInv
<1>10. PaidInv'
  BY <1>1 DEF JournalInv, PaidInv
<1> QED BY <1>4, <1>5, <1>6, <1>7, <1>8, <1>9, <1>10 DEF JournalInv

LEMMA SaveFinalStep ==
  ASSUME Journal!JournalAssumption, JournalInv, Journal!SaveFinal
  PROVE  JournalInv'
<1>1. /\ pc = "closing" /\ pc' = "end" /\ journal' = Journal!Saved("paired", mem)
      /\ UNCHANGED <<inbox, requests, begun, contract, decided, answered, replies, mem>>
  BY DEF Journal!SaveFinal
<1>2. mem \in Memory /\ "paired" \in Journal!Rows /\ contract \in Nat
  BY DEF JournalInv, JournalTypes, Journal!Rows, Journal!JournalAssumption
<1>3. /\ journal' \in JournalRow /\ journal'.phase = "paired"
      /\ journal'.chain = mem.chain /\ journal'.seq = mem.seq /\ journal'.ids = mem.ids
      /\ journal'.shown = mem.shown /\ journal'.calls = mem.calls /\ journal'.contract = mem.contract
  BY <1>1, <1>2, SavedFields
<1>4. /\ mem.calls = 0 /\ mem.contract = contract /\ journal.contract = contract /\ requests # 0
      /\ mem.chain = journal.chain /\ mem.seq = journal.seq /\ decided
  BY <1>1 DEF JournalInv, PlaceInv, Awake, Place
<1>5. JournalTypes'
  BY <1>1, <1>3 DEF JournalInv, JournalTypes
<1>6. PlaceInv'
  BY <1>1, <1>2, <1>3, <1>4 DEF PlaceInv, Awake
<1>7. KeyInv'
  <2>1. \A k : UpTo(k, journal') <=> UpTo(k, journal)
    BY <1>3, <1>4 DEF UpTo
  <2> QED BY <1>1, <1>3, <2>1 DEF JournalInv, KeyInv
<1>8. ToldInv'
  BY <1>1, <1>3, SessionCarries DEF JournalInv, Carries, ToldInv, Awake
<1>9. ResultsInv'
  <2>1. Journal!KeysOf(journal') = Journal!KeysOf(mem)
    BY <1>3 DEF Journal!KeysOf
  <2> QED BY <1>1, <1>3, <2>1 DEF JournalInv, ResultsInv, Awake
<1>10. NovelInv'
  BY <1>1, <1>3, <1>4 DEF JournalInv, NovelInv
<1>11. PaidInv'
  BY <1>1 DEF JournalInv, PaidInv
<1> QED BY <1>5, <1>6, <1>7, <1>8, <1>9, <1>10, <1>11 DEF JournalInv

LEMMA JournalSteps ==
  ASSUME Journal!JournalAssumption, JournalInv, [Journal!Next]_(Journal!vars)
  PROVE  JournalInv'
<1>1. CASE \E i \in Journal!Inputs : Journal!Arrive(i)
  BY <1>1, ArriveStep
<1>2. CASE Journal!ChangeContract \/ Journal!Crash \/ UNCHANGED Journal!vars
  BY <1>2, DownStep
<1>3. CASE Journal!Load
  BY <1>3, LoadFreshStep, LoadLostStep, LoadContractChangedStep, LoadPendingStep, LoadPairedStep,
     DownStep DEF Journal!Load
<1>4. CASE Journal!RecoverInputs
  BY <1>4, RecoverInputsStep
<1>5. CASE Journal!Request
  BY <1>5, TakeInputsStep, ReserveRequestStep, SaveDispatchedStep, RequestFailsStep, AnswerStep,
     ConfirmInputsStep, SaveResponseStep, InvokeStep, SavePairedStep, SettleFinalStep, SaveFinalStep
     DEF Journal!Request
<1> QED BY <1>1, <1>2, <1>3, <1>4, <1>5 DEF Journal!Next

(* What the invariant says of the properties.                              *)
LEMMA JournalTells ==
  ASSUME Journal!JournalAssumption, JournalInv
  PROVE  Journal!TypeOK /\ Journal!RequestTellsAll /\ IsFiniteSet(answered) /\ Cardinality(answered) = replies
<1>1. Journal!TypeOK
  BY DEF JournalInv, JournalTypes, JournalRow, Memory, Journal!TypeOK, Journal!Sessions
<1>2. Journal!RequestTellsAll
  <2> SUFFICES ASSUME pc = "sent"
               PROVE  /\ Journal!ToldAll(Journal!In({"staged", "consumed"}) \cap Messages) \subseteq mem.shown
                      /\ Journal!Results(begun) \subseteq mem.shown
    BY DEF Journal!RequestTellsAll
  <2>1. \A i \in Messages : inbox[i] \in {"staged", "consumed"} => Journal!Told(i) \in mem.shown
    BY DEF JournalInv, ToldInv, Awake
  <2>2. Journal!ToldAll(Journal!In({"staged", "consumed"}) \cap Messages) \subseteq mem.shown
    BY <2>1 DEF Journal!ToldAll, Journal!In
  <2>3. Journal!KeysOf(mem) = {}
    BY DEF JournalInv, PlaceInv, Journal!KeysOf
  <2>4. Journal!Results(begun) \subseteq mem.shown
    BY <2>3 DEF JournalInv, ResultsInv, Awake
  <2> QED BY <2>2, <2>4
<1> QED BY <1>1, <1>2 DEF JournalInv, PaidInv

-----------------------------------------------------------------------------
(* WorkWait.                                                               *)

WorkStates == Waits!Over \cup {"absent", "queued", "running", "suspended", "waiting_user",
                               "waiting_external"}
Resolved   == {"delivered", "expired", "invalidated", "cancelled"}
Events     == [kind : {"conversation", "plugin_event"}, plugin : Plugins \cup {"none"},
               eligible : BOOLEAN]

(* What a binding that was registered looks like: conditions of the known  *)
(* kinds, and beside each of them what it was matched by, if anything.     *)
IsCondition(c) ==
    /\ c.kind \in Waits!Kinds
    /\ c.kind = "time_due" => c.arg \in Nat

Row(st, why, x, m) ==
    [status |-> st, why |-> why, work |-> x.work, gen |-> x.gen, mode |-> x.mode,
     conds |-> x.conds, deadline |-> x.deadline, after |-> x.after, matched |-> m]

IsBinding(x) ==
    /\ x = Row(x.status, x.why, x, x.matched)
    /\ x.status \in {"active"} \cup Resolved
    /\ x.work \in Works /\ x.gen \in Nat /\ x.deadline \in Nat /\ x.after \in Nat
    /\ x.matched \in Seq(Waits!Proofs) /\ x.conds \in Seq({x.conds[i] : i \in DOMAIN x.conds})
    /\ Len(x.matched) = Len(x.conds)
    /\ \A i \in DOMAIN x.matched :
         /\ IsCondition(x.conds[i])
         /\ x.matched[i] # Waits!Unmatched => x.matched[i].kind = x.conds[i].kind

WaitTypes ==
    /\ clock \in 0 .. MaxTime /\ generation \in 1 .. MaxBoundaries + 1
    /\ events \in Seq(Events) /\ Len(events) <= MaxEvents
    /\ runs \in [Runs -> Waits!Statuses]
    /\ asked \in [Runs -> {"no", "pending", "consumed"}]
    /\ work \in [Works -> [state : WorkStates, gen : Nat, wait : 0 .. MaxWaits]]
    /\ DOMAIN waits = Waits!Wait
    /\ signal \in [Waits!Wait -> {"none", "pending", "consumed", "cancelled"}]
    /\ DOMAIN matcher = Waits!Event
    /\ \A e \in Waits!Event : matcher[e].pc \in {"idle", "prepared", "done"}
    /\ poller.pc \in {"idle", "prepared"}

(* The bindings used so far come first; each knows a generation and a      *)
(* watermark of the past.  A Work has at most one that is active, and      *)
(* names only one of its own.                                              *)
BindingInv ==
    /\ \E k \in 0 .. MaxWaits : Waits!Used = 1 .. k
    /\ \A b \in Waits!Used : /\ IsBinding(waits[b])
                             /\ waits[b].gen <= generation /\ waits[b].after <= Len(events)
    /\ \A b, c \in Waits!Active : waits[b].work = waits[c].work => b = c
    /\ \A v \in Works : work[v].wait # 0 =>
           work[v].wait \in Waits!Used /\ waits[work[v].wait].work = v

(* A signal is that of a binding that was resolved by one.                 *)
SignalInv ==
    /\ \A b \in Waits!Wait : signal[b] # "none" => waits[b].status \in {"delivered", "expired"}
    /\ Waits!SignalWakes

MatcherInv == \A e \in Waits!Event : matcher[e].pc # "idle" => e \in DOMAIN events

WaitInv ==
    /\ WaitTypes /\ BindingInv /\ SignalInv /\ MatcherInv
    /\ Waits!MatchComplete /\ Waits!SatisfiedIsDelivered /\ Waits!ExpiredIsUnmet

-----------------------------------------------------------------------------

(* Evidence that goes on from what binding b was matched by, adding only   *)
(* what is true.                                                           *)
Evid(b, m) ==
    /\ m \in Seq(Waits!Proofs) /\ Len(m) = Len(waits[b].conds)
    /\ \A i \in DOMAIN waits[b].matched : m[i] # waits[b].matched[i] =>
         /\ waits[b].matched[i] = Waits!Unmatched
         /\ m[i].kind = waits[b].conds[i].kind /\ Waits!Truthful(b, i, m[i])

Unmet(b) ==
    /\ Waits!Expired(b)
    /\ \A i \in DOMAIN waits[b].conds :
         waits[b].mode = "any" /\ waits[b].conds[i].kind = "time_due" => waits[b].conds[i].arg > clock

(* What a step may do with a binding in use and its signal.                *)
Moves(b) ==
    LET x == waits'[b] IN
    /\ x = Row(x.status, x.why, waits[b], x.matched) /\ Evid(b, x.matched)
    /\ waits[b].status # "active" => x = waits[b]
    /\ waits[b].status = "active" =>
         /\ x.status \in {"active"} \cup Resolved
         /\ x.status = "active" => ~Waits!Done(waits[b].mode, x.matched)
         /\ x.status = "expired" => Unmet(b) /\ ~Waits!Done(waits[b].mode, x.matched)
    /\ \/ signal'[b] = signal[b]
       \/ signal[b] = "pending" /\ signal'[b] \in {"consumed", "cancelled"}
       \/ /\ signal'[b] = "pending" /\ waits[b].status = "active"
          /\ x.status \in {"delivered", "expired"}

-----------------------------------------------------------------------------
LEMMA RowFields ==
  ASSUME NEW st, NEW why, NEW x, NEW m, NEW y, y = Row(st, why, x, m)
  PROVE  /\ y.status = st /\ y.why = why /\ y.work = x.work /\ y.gen = x.gen /\ y.mode = x.mode
         /\ y.conds = x.conds /\ y.deadline = x.deadline /\ y.after = x.after /\ y.matched = m
BY DEF Row

LEMMA RowIs ==
  ASSUME NEW x, x = Row(x.status, x.why, x, x.matched), NEW st, NEW why, NEW m
  PROVE  /\ [x EXCEPT !.status = st] = Row(st, x.why, x, x.matched)
         /\ [x EXCEPT !.matched = m] = Row(x.status, x.why, x, m)
         /\ [x EXCEPT !.status = st, !.matched = m, !.why = why] = Row(st, why, x, m)
<1>1. [x EXCEPT !.status = st] = Row(st, x.why, x, x.matched)
  <2> SUFFICES ASSUME NEW y, y = [x EXCEPT !.status = st] PROVE y = Row(st, x.why, x, x.matched)
    OBVIOUS
  <2> QED BY DEF Row
<1>2. [x EXCEPT !.matched = m] = Row(x.status, x.why, x, m)
  <2> SUFFICES ASSUME NEW y, y = [x EXCEPT !.matched = m] PROVE y = Row(x.status, x.why, x, m)
    OBVIOUS
  <2> QED BY DEF Row
<1>3. [x EXCEPT !.status = st, !.matched = m, !.why = why] = Row(st, why, x, m)
  <2> SUFFICES ASSUME NEW y, y = [x EXCEPT !.status = st, !.matched = m, !.why = why]
               PROVE  y = Row(st, why, x, m)
    OBVIOUS
  <2> QED BY DEF Row
<1> QED BY <1>1, <1>2, <1>3

LEMMA MappedSeq ==
  ASSUME NEW n \in Nat, NEW S, NEW f \in [1 .. n -> S]
  PROVE  f \in Seq(S) /\ Len(f) = n /\ DOMAIN f = 1 .. n
<1>1. f \in Seq(S)
  BY SeqDef
<1>2. DOMAIN f = 1 .. n
  OBVIOUS
<1>3. Len(f) = n
  BY <1>1, <1>2, LenProperties
<1> QED BY <1>1, <1>2, <1>3

LEMMA BindingDomains ==
  ASSUME NEW x, IsBinding(x)
  PROVE  /\ Len(x.conds) \in Nat /\ Len(x.matched) = Len(x.conds)
         /\ DOMAIN x.conds = 1 .. Len(x.conds) /\ DOMAIN x.matched = 1 .. Len(x.conds)
<1>1. x.conds \in Seq({x.conds[i] : i \in DOMAIN x.conds}) /\ x.matched \in Seq(Waits!Proofs)
      /\ Len(x.matched) = Len(x.conds)
  BY DEF IsBinding
<1> QED BY <1>1, LenProperties

LEMMA UsedIs ==
  /\ \A b : b \in Waits!Used <=> b \in Waits!Wait /\ waits[b].status # "absent"
  /\ \A b : b \in Waits!Active <=> b \in Waits!Wait /\ waits[b].status = "active"
  /\ Waits!Active \subseteq Waits!Used
  /\ \A b : b \in Waits!Used' <=> b \in Waits!Wait /\ waits'[b].status # "absent"
  /\ \A b : b \in Waits!Active' <=> b \in Waits!Wait /\ waits'[b].status = "active"
BY DEF Waits!Used, Waits!Active, Waits!Wait

(* A binding that moves keeps what it was registered with, and its         *)
(* evidence is only added to.                                              *)
LEMMA MovedBinding ==
  ASSUME WaitInv, NEW b \in Waits!Used, Moves(b), NEW x, x = waits'[b]
  PROVE  /\ IsBinding(x)
         /\ x.work = waits[b].work /\ x.gen = waits[b].gen /\ x.mode = waits[b].mode
         /\ x.conds = waits[b].conds /\ x.deadline = waits[b].deadline /\ x.after = waits[b].after
         /\ \A i \in DOMAIN x.matched :
              x.matched[i] # waits[b].matched[i] => waits[b].matched[i] = Waits!Unmatched
                                                    /\ Waits!Truthful(b, i, x.matched[i])
         /\ DOMAIN x.matched = DOMAIN waits[b].matched
         /\ x.status = "active" => waits[b].status = "active"
<1>1. IsBinding(waits[b])
  BY DEF WaitInv, BindingInv
<1>2. x = Row(x.status, x.why, waits[b], x.matched) /\ Evid(b, x.matched)
  BY DEF Moves
<1>3. /\ x.work = waits[b].work /\ x.gen = waits[b].gen /\ x.mode = waits[b].mode
      /\ x.conds = waits[b].conds /\ x.deadline = waits[b].deadline /\ x.after = waits[b].after
  BY <1>2, RowFields
<1>4. x = Row(x.status, x.why, x, x.matched)
  BY <1>2, <1>3 DEF Row
<1>5. x.status \in {"active"} \cup Resolved
  BY <1>1 DEF Moves, IsBinding
<1>6. /\ x.matched \in Seq(Waits!Proofs) /\ Len(x.matched) = Len(x.conds)
      /\ x.conds \in Seq({x.conds[i] : i \in DOMAIN x.conds})
  BY <1>1, <1>2, <1>3 DEF Evid, IsBinding
<1>7. /\ DOMAIN x.matched = 1 .. Len(x.conds) /\ DOMAIN waits[b].matched = 1 .. Len(x.conds)
  BY <1>1, <1>3, <1>6, LenProperties, BindingDomains
<1>8. \A i \in DOMAIN x.matched :
         /\ IsCondition(x.conds[i])
         /\ x.matched[i] # Waits!Unmatched => x.matched[i].kind = x.conds[i].kind
  BY <1>1, <1>2, <1>3, <1>7 DEF IsBinding, Evid
<1>9. IsBinding(x)
  BY <1>1, <1>3, <1>4, <1>5, <1>6, <1>8 DEF IsBinding
<1> QED BY <1>2, <1>3, <1>7, <1>9 DEF Evid, Moves

(* A binding that is registered: after every event there is, of a          *)
(* generation that lives, and the only active one of its Work.             *)
IsNew(b) ==
    /\ waits[b].status = "absent" /\ IsBinding(waits'[b])
    /\ waits'[b].gen = generation' /\ waits'[b].after = Len(events')
    /\ waits'[b].status \in {"active", "delivered"}
    /\ waits'[b].status = "active" =>
         /\ ~Waits!Done(waits'[b].mode, waits'[b].matched)
         /\ \A c \in Waits!Used : waits[c].work = waits'[b].work => waits'[c].status # "active"
    /\ \A c \in Waits!Wait : waits[c].status = "absent" /\ waits'[c].status # "absent" => c = b

LEMMA BindingsKeep ==
  ASSUME Waits!WaitAssumption, WaitInv, \A b \in Waits!Used : Moves(b),
         \A b \in Waits!Wait \ Waits!Used : waits'[b] = waits[b] \/ IsNew(b),
         \E k \in 0 .. MaxWaits : Waits!Used' = 1 .. k,
         generation' >= generation, generation' \in Nat, Len(events') >= Len(events), Len(events') \in Nat,
         clock' >= clock, clock' \in Nat,
         \A v \in Works : work'[v].wait # 0 =>
             \/ work'[v].wait = work[v].wait
             \/ IsNew(work'[v].wait) /\ work'[v].wait \in Waits!Wait /\ waits'[work'[v].wait].work = v
  PROVE  BindingInv' /\ Waits!SatisfiedIsDelivered' /\ Waits!ExpiredIsUnmet'
<1>1. /\ generation \in Nat /\ Len(events) \in Nat /\ clock \in Nat
  BY DEF WaitInv, WaitTypes, Waits!WaitAssumption
<1>2. \A b \in Waits!Used : IsBinding(waits[b]) /\ waits[b].gen <= generation /\ waits[b].after <= Len(events)
  BY DEF WaitInv, BindingInv
<1>3. ASSUME NEW b \in Waits!Used'
      PROVE  b \in Waits!Wait /\ (b \in Waits!Used \/ IsNew(b))
  BY <1>3, UsedIs
<1>4. ASSUME NEW b \in Waits!Used'
      PROVE  IsBinding(waits'[b]) /\ waits'[b].gen <= generation' /\ waits'[b].after <= Len(events')
  <2>1. CASE b \in Waits!Used
    <3>1. IsBinding(waits'[b]) /\ waits'[b].gen = waits[b].gen /\ waits'[b].after = waits[b].after
      BY <2>1, MovedBinding
    <3>2. /\ waits[b].gen \in Nat /\ waits[b].after \in Nat
          /\ waits[b].gen <= generation /\ waits[b].after <= Len(events)
      BY <1>2, <2>1 DEF IsBinding
    <3>3. waits[b].gen <= generation' /\ waits[b].after <= Len(events')
      BY <1>1, <3>2
    <3> QED BY <3>1, <3>3
  <2>2. CASE IsNew(b)
    BY <1>1, <2>2 DEF IsNew
  <2> QED BY <1>3, <2>1, <2>2
<1>5. ASSUME NEW b \in Waits!Active', NEW c \in Waits!Active', waits'[b].work = waits'[c].work
      PROVE  b = c
  <2>1. /\ b \in Waits!Wait /\ c \in Waits!Wait /\ waits'[b].status = "active" /\ waits'[c].status = "active"
        /\ b \in Waits!Used' /\ c \in Waits!Used'
    BY UsedIs
  <2>2. CASE b \in Waits!Used /\ c \in Waits!Used
    <3>1. waits[b].status = "active" /\ waits[c].status = "active" /\ waits[b].work = waits[c].work
      BY <1>5, <2>1, <2>2, MovedBinding
    <3> QED BY <2>1, <3>1, UsedIs DEF WaitInv, BindingInv
  <2>3. CASE b \in Waits!Used /\ IsNew(c)
    <3>1. waits[b].work = waits'[c].work
      BY <1>5, <2>3, MovedBinding
    <3> QED BY <2>1, <2>3, <3>1 DEF IsNew
  <2>4. CASE c \in Waits!Used /\ IsNew(b)
    <3>1. waits[c].work = waits'[b].work
      BY <1>5, <2>4, MovedBinding
    <3> QED BY <2>1, <2>4, <3>1 DEF IsNew
  <2>5. CASE IsNew(b) /\ IsNew(c)
    <3>1. waits[c].status = "absent" /\ waits'[c].status # "absent"
      BY <2>1, <2>5 DEF IsNew
    <3> QED BY <2>1, <2>5, <3>1 DEF IsNew
  <2> QED BY <1>3, <2>1, <2>2, <2>3, <2>4, <2>5
<1>6. ASSUME NEW v \in Works, work'[v].wait # 0
      PROVE  work'[v].wait \in Waits!Used' /\ waits'[work'[v].wait].work = v
  <2>1. CASE work'[v].wait = work[v].wait
    <3>1. work[v].wait \in Waits!Used /\ waits[work[v].wait].work = v
      BY <1>6, <2>1 DEF WaitInv, BindingInv
    <3>2. waits'[work[v].wait].work = v /\ IsBinding(waits'[work[v].wait])
      BY <3>1, MovedBinding
    <3> QED BY <2>1, <3>1, <3>2, UsedIs DEF IsBinding, Resolved
  <2>2. CASE IsNew(work'[v].wait) /\ work'[v].wait \in Waits!Wait /\ waits'[work'[v].wait].work = v
    BY <2>2, UsedIs DEF IsNew
  <2> QED BY <1>6, <2>1, <2>2
<1>7. BindingInv'
  BY <1>4, <1>5, <1>6 DEF BindingInv
<1>8. Waits!SatisfiedIsDelivered'
  <2> SUFFICES ASSUME NEW b \in Waits!Active'
               PROVE  ~Waits!Done(waits'[b].mode, waits'[b].matched)
    BY DEF Waits!SatisfiedIsDelivered, Waits!Done
  <2>1. b \in Waits!Used' /\ waits'[b].status = "active"
    BY UsedIs
  <2>2. CASE b \in Waits!Used
    <3>1. waits[b].status = "active" /\ waits'[b].mode = waits[b].mode
      BY <2>1, <2>2, MovedBinding
    <3> QED BY <2>1, <2>2, <3>1 DEF Moves
  <2>3. CASE IsNew(b)
    BY <2>1, <2>3 DEF IsNew
  <2> QED BY <1>3, <2>1, <2>2, <2>3
<1>9. Waits!ExpiredIsUnmet'
  <2> SUFFICES ASSUME NEW b \in Waits!Used', waits'[b].status = "expired"
               PROVE  /\ waits'[b].deadline # 0 /\ waits'[b].deadline <= clock'
                      /\ ~Waits!Done(waits'[b].mode, waits'[b].matched)
                      /\ \A i \in DOMAIN waits'[b].conds :
                           waits'[b].mode = "any" /\ waits'[b].conds[i].kind = "time_due"
                             => waits'[b].conds[i].arg > waits'[b].deadline
    BY DEF Waits!ExpiredIsUnmet, Waits!Expired, Waits!Done
  <2>1. b \in Waits!Used
    BY <1>3 DEF IsNew
  <2>2. /\ waits'[b].mode = waits[b].mode /\ waits'[b].conds = waits[b].conds
        /\ waits'[b].deadline = waits[b].deadline /\ IsBinding(waits[b])
    BY <1>2, <2>1, MovedBinding
  <2>3. CASE waits[b].status = "active"
    <3>1. Unmet(b) /\ ~Waits!Done(waits[b].mode, waits'[b].matched)
      BY <2>1, <2>3 DEF Moves
    <3>2. waits[b].deadline # 0 /\ waits[b].deadline <= clock /\ waits[b].deadline \in Nat
      BY <2>2, <3>1 DEF Unmet, Waits!Expired, IsBinding
    <3>3. \A i \in DOMAIN waits[b].conds :
            waits[b].mode = "any" /\ waits[b].conds[i].kind = "time_due" => waits[b].conds[i].arg > waits[b].deadline
      <4> SUFFICES ASSUME NEW i \in DOMAIN waits[b].conds, waits[b].mode = "any",
                          waits[b].conds[i].kind = "time_due"
                   PROVE  waits[b].conds[i].arg > waits[b].deadline
        OBVIOUS
      <4>1. waits[b].conds[i].arg > clock
        BY <3>1 DEF Unmet
      <4>2. i \in DOMAIN waits[b].matched
        BY <2>2, BindingDomains
      <4>3. waits[b].conds[i].arg \in Nat
        BY <2>2, <4>2 DEF IsBinding, IsCondition
      <4> QED BY <1>1, <3>2, <4>1, <4>3
    <3> QED BY <1>1, <2>2, <3>1, <3>2, <3>3
  <2>4. CASE waits[b].status # "active"
    <3>1. waits'[b] = waits[b]
      BY <2>1, <2>4 DEF Moves
    <3>2. /\ waits[b].deadline # 0 /\ waits[b].deadline <= clock
          /\ ~Waits!Done(waits[b].mode, waits[b].matched)
          /\ \A i \in DOMAIN waits[b].conds :
               waits[b].mode = "any" /\ waits[b].conds[i].kind = "time_due"
                 => waits[b].conds[i].arg > waits[b].deadline
      BY <2>1, <3>1 DEF WaitInv, Waits!ExpiredIsUnmet, Waits!Expired
    <3>3. waits[b].deadline \in Nat
      BY <2>2 DEF IsBinding
    <3> QED BY <1>1, <3>1, <3>2, <3>3
  <2> QED BY <2>3, <2>4
<1> QED BY <1>7, <1>8, <1>9

(* Evidence of an event that was handled stays.                            *)
LEMMA MatchesKeep ==
  ASSUME Waits!WaitAssumption, WaitInv, \A b \in Waits!Used : Moves(b),
         \A b \in Waits!Wait \ Waits!Used : waits'[b] = waits[b] \/ IsNew(b),
         generation' >= generation, generation' \in Nat, Len(events') \in Nat,
         DOMAIN events' = 1 .. Len(events'), DOMAIN events \subseteq DOMAIN events',
         \A id \in DOMAIN events : events'[id] = events[id],
         \A id \in DOMAIN events', b \in Waits!Active \cap Waits!Active' :
             \/ id \in DOMAIN events /\ Waits!Handled(id)
             \/ ~(events'[id].kind = "plugin_event" \/ matcher'[id].pc = "done")
             \/ ~events'[id].eligible \/ waits[b].gen # generation' \/ ~(id > waits[b].after)
             \/ \A i \in DOMAIN waits[b].conds :
                  Waits!Fits(waits[b].conds[i], events'[id]) => waits'[b].matched[i].kind = events'[id].kind
  PROVE  Waits!MatchComplete'
<1> SUFFICES ASSUME NEW b \in Waits!Active', NEW id \in DOMAIN events',
                    events'[id].kind = "plugin_event" \/ matcher'[id].pc = "done",
                    events'[id].eligible, id > waits'[b].after, waits'[b].gen = generation',
                    NEW i \in DOMAIN waits'[b].conds, Waits!Fits(waits'[b].conds[i], events'[id])
             PROVE  waits'[b].matched[i].kind = events'[id].kind
  BY DEF Waits!MatchComplete, Waits!Handled, Waits!Fits
<1>1. b \in Waits!Wait /\ waits'[b].status = "active"
  BY UsedIs
<1>2. b \in Waits!Used
  <2>1. ASSUME IsNew(b) PROVE FALSE
    <3>1. waits'[b].after = Len(events')
      BY <2>1 DEF IsNew
    <3> QED BY <3>1
  <2>2. ASSUME b \notin Waits!Used PROVE waits'[b] # waits[b]
    BY <1>1, <2>2, UsedIs
  <2> QED BY <1>1, <2>1, <2>2
<1>3. /\ IsBinding(waits[b]) /\ waits[b].gen <= generation /\ generation \in Nat
      /\ events \in Seq(Events)
  BY <1>2 DEF WaitInv, BindingInv, WaitTypes, Waits!WaitAssumption
<1>4. /\ waits'[b].conds = waits[b].conds /\ waits'[b].after = waits[b].after
      /\ waits'[b].gen = waits[b].gen /\ waits[b].status = "active" /\ b \in Waits!Active
  BY <1>1, <1>2, MovedBinding, UsedIs
<1>5. CASE id \in DOMAIN events /\ Waits!Handled(id)
  <2>1. generation' = generation /\ waits[b].gen = generation
    <3>1. waits[b].gen \in Nat
      BY <1>3 DEF IsBinding
    <3> QED BY <1>3, <1>4, <3>1
  <2>2. waits[b].matched[i].kind = events[id].kind
    BY <1>4, <1>5, <2>1 DEF WaitInv, Waits!MatchComplete
  <2>3. events[id].kind # "none"
    <3>1. events[id] \in Events
      BY <1>3, <1>5, ElementOfSeq, LenProperties
    <3> QED BY <3>1 DEF Events
  <2>4. waits[b].matched[i] # Waits!Unmatched
    BY <2>2, <2>3 DEF Waits!Unmatched, Waits!Proof
  <2>5. i \in DOMAIN waits[b].matched
    BY <1>3, <1>4, BindingDomains
  <2>6. waits'[b].matched[i] = waits[b].matched[i]
    BY <1>2, <2>4, <2>5 DEF Moves, Evid
  <2> QED BY <1>5, <2>2, <2>6
<1>6. CASE ~(id \in DOMAIN events /\ Waits!Handled(id))
  BY <1>4, <1>6
<1> QED BY <1>5, <1>6

(* Steps that leave the bindings alone.                                    *)
LEMMA StillMoves ==
  ASSUME WaitInv, waits' = waits, NEW b \in Waits!Used,
         \/ signal'[b] = signal[b]
         \/ signal[b] = "pending" /\ signal'[b] \in {"consumed", "cancelled"}
  PROVE  Moves(b)
<1>1. IsBinding(waits[b])
  BY DEF WaitInv, BindingInv
<1>2. Evid(b, waits[b].matched)
  BY <1>1 DEF Evid, IsBinding
<1>3. waits[b].status = "active" => ~Waits!Done(waits[b].mode, waits[b].matched)
  BY UsedIs DEF WaitInv, Waits!SatisfiedIsDelivered
<1> QED BY <1>1, <1>2, <1>3 DEF Moves, IsBinding

(* A Work lets go of its active binding.                                   *)
LEMMA CancelledMoves ==
  ASSUME WaitInv, NEW b \in Waits!Used, signal'[b] = signal[b],
         waits'[b] = waits[b] \/ (waits[b].status = "active" /\ waits'[b] = [waits[b] EXCEPT !.status = "cancelled"])
  PROVE  Moves(b)
<1>1. IsBinding(waits[b])
  BY DEF WaitInv, BindingInv
<1>2. waits[b] = Row(waits[b].status, waits[b].why, waits[b], waits[b].matched)
  BY <1>1 DEF IsBinding
<1>3. [waits[b] EXCEPT !.status = "cancelled"] = Row("cancelled", waits[b].why, waits[b], waits[b].matched)
  BY <1>2, RowIs
<1>4. Evid(b, waits[b].matched)
  BY <1>1 DEF Evid, IsBinding
<1>5. waits[b].status = "active" => ~Waits!Done(waits[b].mode, waits[b].matched)
  BY UsedIs DEF WaitInv, Waits!SatisfiedIsDelivered
<1>6. CASE waits'[b] = waits[b]
  BY <1>2, <1>4, <1>5, <1>6, <1>1 DEF Moves, IsBinding
<1>7. CASE waits[b].status = "active" /\ waits'[b] = [waits[b] EXCEPT !.status = "cancelled"]
  <2>1. /\ waits'[b].status = "cancelled" /\ waits'[b].why = waits[b].why /\ waits'[b].matched = waits[b].matched
    BY <1>3, <1>7, RowFields
  <2>2. waits'[b] = Row(waits'[b].status, waits'[b].why, waits[b], waits'[b].matched)
    BY <1>3, <1>7, <2>1
  <2> QED BY <1>4, <1>7, <2>1, <2>2 DEF Moves, Resolved
<1> QED BY <1>6, <1>7

(* A verdict that a writer may reach on an active binding.                 *)
Good(b, v) ==
    \/ v.reason \in {"keep", "invalidated"}
    \/ v.reason \in {"signal", "requires_action"} /\ Evid(b, v.matched)
    \/ v.reason = "partial" /\ Evid(b, v.matched) /\ ~Waits!Done(waits[b].mode, v.matched)
    \/ v.reason = "deadline" /\ Evid(b, v.matched) /\ ~Waits!Done(waits[b].mode, v.matched) /\ Unmet(b)

LEMMA AppliedMoves ==
  ASSUME WaitInv, NEW out, DOMAIN out \subseteq Waits!Active, Waits!Apply(out),
         \A b \in DOMAIN out : Good(b, out[b])
  PROVE  /\ \A b \in Waits!Used : Moves(b)
         /\ \A b \in Waits!Wait \ Waits!Used : waits'[b] = waits[b]
         /\ \A b \in DOMAIN out : out[b].reason = "partial" => waits'[b].matched = out[b].matched
         /\ \A b \in DOMAIN out : out[b].reason \notin {"keep", "partial"} => waits'[b].status # "active"
         /\ DOMAIN waits' = Waits!Wait
<1> USE DEF Waits!Apply
<1>1. /\ \A b \in Waits!Wait : waits'[b] = IF b \in DOMAIN out THEN Waits!Written(waits[b], out[b]) ELSE waits[b]
      /\ \A b \in Waits!Wait : signal'[b] = IF b \in DOMAIN out /\ Waits!Delivers(out[b]) THEN "pending" ELSE signal[b]
      /\ DOMAIN waits' = Waits!Wait
  OBVIOUS
<1> USE DEF Waits!Delivers
<1>2. ASSUME NEW b \in DOMAIN out
      PROVE  /\ Moves(b)
             /\ out[b].reason = "partial" => waits'[b].matched = out[b].matched
             /\ out[b].reason \notin {"keep", "partial"} => waits'[b].status # "active"
  <2> DEFINE v == out[b]
             x == waits'[b]
  <2>1. b \in Waits!Used /\ b \in Waits!Wait /\ waits[b].status = "active"
    BY UsedIs
  <2>2. IsBinding(waits[b]) /\ waits[b] = Row(waits[b].status, waits[b].why, waits[b], waits[b].matched)
    BY <2>1 DEF WaitInv, BindingInv, IsBinding
  <2>3. x = Waits!Written(waits[b], v)
    BY <1>1, <2>1
  <2>4. signal'[b] = IF Waits!Delivers(v) THEN "pending" ELSE signal[b]
    BY <1>1, <2>1
  <2>5. Evid(b, waits[b].matched) /\ ~Waits!Done(waits[b].mode, waits[b].matched)
    BY <2>1, <2>2, UsedIs DEF Evid, IsBinding, WaitInv, Waits!SatisfiedIsDelivered
  <2>6. Good(b, v)
    OBVIOUS
  <2> HIDE DEF v
  <2>7. CASE v.reason = "keep"
    <3>1. x = waits[b]
      BY <2>3, <2>7 DEF Waits!Written
    <3> QED BY <2>1, <2>2, <2>4, <2>5, <2>7, <3>1 DEF Moves, v
  <2>8. CASE v.reason = "invalidated"
    <3>1. x = [waits[b] EXCEPT !.status = "invalidated"]
      BY <2>3, <2>8 DEF Waits!Written
    <3>2. x = Row("invalidated", waits[b].why, waits[b], waits[b].matched)
      BY <2>2, <3>1, RowIs
    <3>3. x.status = "invalidated" /\ x.why = waits[b].why /\ x.matched = waits[b].matched
      BY <3>2, RowFields
    <3> QED BY <2>1, <2>4, <2>5, <2>8, <3>2, <3>3 DEF Moves, Resolved, v
  <2>9. CASE v.reason = "partial"
    <3>1. x = [waits[b] EXCEPT !.matched = v.matched]
      BY <2>3, <2>9 DEF Waits!Written
    <3>2. x = Row("active", waits[b].why, waits[b], v.matched)
      <4>1. \A m : [waits[b] EXCEPT !.matched = m] = Row(waits[b].status, waits[b].why, waits[b], m)
        BY ONLY <2>2, RowIs
      <4> QED BY ONLY <2>1, <3>1, <4>1
    <3>3. x.status = "active" /\ x.why = waits[b].why /\ x.matched = v.matched
      BY <3>2, RowFields
    <3> QED BY <2>1, <2>4, <2>6, <2>9, <3>2, <3>3 DEF Moves, Good, v
  <2>10. CASE v.reason \in {"signal", "requires_action", "deadline"}
    <3> DEFINE st == IF v.reason = "deadline" THEN "expired" ELSE "delivered"
    <3>1. x = [waits[b] EXCEPT !.status = st, !.matched = v.matched, !.why = v.reason]
      BY <2>3, <2>10 DEF Waits!Written
    <3> HIDE DEF st
    <3>2. x = Row(st, v.reason, waits[b], v.matched)
      <4> DEFINE y == waits[b]
                 r == v.reason
                 m == v.matched
                 z == x
      <4>1. y = Row(y.status, y.why, y, y.matched)
        BY <2>2
      <4>2. z = [y EXCEPT !.status = st, !.matched = m, !.why = r]
        BY <3>1
      <4> HIDE DEF y, r, m, z
      <4>3. z = Row(st, r, y, m)
        BY ONLY <4>1, <4>2 DEF Row
      <4> QED BY <4>3 DEF y, r, m, z
    <3>3. x.status = st /\ x.why = v.reason /\ x.matched = v.matched
      BY <3>2, RowFields
    <3>4. st \in {"expired", "delivered"} /\ (st = "expired" => v.reason = "deadline")
      BY DEF st
    <3> QED BY <2>1, <2>4, <2>6, <2>10, <3>2, <3>3, <3>4 DEF Moves, Good, Resolved, v
  <2> QED BY <2>6, <2>7, <2>8, <2>9, <2>10 DEF Good, v
<1>3. ASSUME NEW b \in Waits!Used, b \notin DOMAIN out
      PROVE  Moves(b)
  <2>1. b \in Waits!Wait
    BY UsedIs
  <2>2. waits'[b] = waits[b] /\ signal'[b] = signal[b]
    BY <1>1, <1>3, <2>1
  <2> QED BY <2>2, CancelledMoves
<1>4. \A b \in Waits!Wait \ Waits!Used : waits'[b] = waits[b]
  BY <1>1, UsedIs
<1> QED BY <1>1, <1>2, <1>3, <1>4

(* The ledger only grows, and time and generations only pass.              *)
Passes ==
    /\ generation' >= generation /\ clock' >= clock
    /\ Len(events') >= Len(events) /\ \A id \in DOMAIN events : events'[id] = events[id]

(* An event is handled by a step only if every condition that it fits has  *)
(* been matched by then.                                                   *)
Handles ==
    \A id \in DOMAIN events', b \in Waits!Active \cap Waits!Active' :
        \/ id \in DOMAIN events /\ Waits!Handled(id)
        \/ ~(events'[id].kind = "plugin_event" \/ matcher'[id].pc = "done")
        \/ ~events'[id].eligible \/ waits[b].gen # generation' \/ ~(id > waits[b].after)
        \/ \A i \in DOMAIN waits[b].conds :
             Waits!Fits(waits[b].conds[i], events'[id]) => waits'[b].matched[i].kind = events'[id].kind

LEMMA StepKeeps ==
  ASSUME Waits!WaitAssumption, WaitInv, WaitTypes', SignalInv', MatcherInv', Passes, Handles,
         \A b \in Waits!Used : Moves(b),
         \A b \in Waits!Wait \ Waits!Used : waits'[b] = waits[b] \/ IsNew(b),
         \E k \in 0 .. MaxWaits : Waits!Used' = 1 .. k,
         \A v \in Works : work'[v].wait # 0 =>
             \/ work'[v].wait = work[v].wait
             \/ IsNew(work'[v].wait) /\ work'[v].wait \in Waits!Wait /\ waits'[work'[v].wait].work = v
  PROVE  WaitInv'
<1>1. /\ generation \in Nat /\ generation' \in Nat /\ clock \in Nat /\ clock' \in Nat
      /\ events \in Seq(Events) /\ events' \in Seq(Events)
  <2>1. /\ generation \in 1 .. MaxBoundaries + 1 /\ clock \in 0 .. MaxTime /\ events \in Seq(Events)
        /\ generation' \in 1 .. MaxBoundaries + 1 /\ clock' \in 0 .. MaxTime /\ events' \in Seq(Events)
    BY DEF WaitInv, WaitTypes
  <2> QED BY <2>1 DEF Waits!WaitAssumption
<1>2. /\ Len(events) \in Nat /\ Len(events') \in Nat /\ DOMAIN events = 1 .. Len(events)
      /\ DOMAIN events' = 1 .. Len(events')
  BY <1>1, LenProperties
<1>3. DOMAIN events \subseteq DOMAIN events'
  BY <1>2 DEF Passes
<1>4. BindingInv' /\ Waits!SatisfiedIsDelivered' /\ Waits!ExpiredIsUnmet'
  BY <1>1, <1>2, BindingsKeep DEF Passes
<1>5. Waits!MatchComplete'
  BY <1>1, <1>2, <1>3, MatchesKeep DEF Passes, Handles
<1> QED BY <1>4, <1>5 DEF WaitInv

(* Without a registration the same bindings are in use.                    *)
LEMMA SameUsed ==
  ASSUME WaitInv, \A b \in Waits!Used : Moves(b),
         \A b \in Waits!Wait \ Waits!Used : waits'[b] = waits[b]
  PROVE  Waits!Used' = Waits!Used /\ \E k \in 0 .. MaxWaits : Waits!Used' = 1 .. k
<1>1. ASSUME NEW b \in Waits!Used PROVE b \in Waits!Used'
  <2>1. IsBinding(waits'[b])
    BY MovedBinding
  <2> QED BY <2>1, UsedIs DEF IsBinding, Resolved
<1>2. ASSUME NEW b \in Waits!Used' PROVE b \in Waits!Used
  BY UsedIs
<1>3. Waits!Used' = Waits!Used
  BY <1>1, <1>2
<1> QED BY <1>3 DEF WaitInv, BindingInv

(* Steps that leave the bindings alone.                                    *)
LEMMA QuietStep ==
  ASSUME Waits!WaitAssumption, WaitInv, waits' = waits, WaitTypes', SignalInv', MatcherInv', Passes,
         \A b \in Waits!Used : \/ signal'[b] = signal[b]
                               \/ signal[b] = "pending" /\ signal'[b] \in {"consumed", "cancelled"},
         \A v \in Works : work'[v].wait \in {0, work[v].wait},
         \A id \in DOMAIN events' :
             \/ id \in DOMAIN events /\ Waits!Handled(id)
             \/ ~(events'[id].kind = "plugin_event" \/ matcher'[id].pc = "done")
             \/ \A b \in Waits!Active : id > waits[b].after => \A i \in DOMAIN waits[b].conds :
                    Waits!Fits(waits[b].conds[i], events'[id])
                      => waits[b].matched[i].kind = events'[id].kind
  PROVE  WaitInv' /\ \A b \in Waits!Used : Moves(b)
<1>1. \A b \in Waits!Used : Moves(b)
  BY StillMoves
<1>2. Handles
  BY DEF Handles
<1>3. \E k \in 0 .. MaxWaits : Waits!Used' = 1 .. k
  BY <1>1, SameUsed
<1> QED BY <1>1, <1>2, <1>3, StepKeeps

(* What is seen of the tables' types.                                      *)
LEMMA WaitFacts ==
  ASSUME Waits!WaitAssumption, WaitInv
  PROVE  /\ clock \in Nat /\ generation \in Nat /\ Len(events) \in Nat /\ DOMAIN events = 1 .. Len(events)
         /\ \A v \in Works : /\ work[v] \in [state : WorkStates, gen : Nat, wait : 0 .. MaxWaits]
                             /\ work[v].wait # 0 => work[v].wait \in Waits!Used
                                                    /\ waits[work[v].wait].work = v
         /\ \A b \in Waits!Used : IsBinding(waits[b])
         /\ \A b \in Waits!Active : b \in Waits!Wait /\ b \in Waits!Used /\ waits[b].status = "active"
                                    /\ signal[b] = "none"
         /\ \A id \in DOMAIN events : events[id] \in Events
<1>1. WaitTypes /\ BindingInv /\ SignalInv
  BY DEF WaitInv
<1>2. /\ Len(events) \in Nat /\ DOMAIN events = 1 .. Len(events)
      /\ \A id \in DOMAIN events : events[id] \in Events
  BY <1>1, LenProperties, ElementOfSeq DEF WaitTypes
<1>3. clock \in Nat /\ generation \in Nat
  <2>1. clock \in 0 .. MaxTime /\ generation \in 1 .. MaxBoundaries + 1
    BY <1>1 DEF WaitTypes
  <2> QED BY <2>1 DEF Waits!WaitAssumption
<1>4. \A b \in Waits!Active : b \in Waits!Wait /\ b \in Waits!Used /\ waits[b].status = "active"
                              /\ signal[b] = "none"
  BY <1>1, UsedIs DEF SignalInv
<1> QED BY <1>1, <1>2, <1>3, <1>4 DEF WaitTypes, BindingInv

LEMMA Entered ==
  ASSUME WaitTypes, NEW v \in Works, NEW s \in WorkStates, NEW n \in 0 .. MaxWaits, Waits!Enters(v, s, n)
  PROVE  /\ work' \in [Works -> [state : WorkStates, gen : Nat, wait : 0 .. MaxWaits]]
         /\ work'[v].state = s /\ work'[v].wait = n
         /\ \A u \in Works \ {v} : work'[u] = work[u]
BY DEF WaitTypes, Waits!Enters

-----------------------------------------------------------------------------
(* Steps of the owners that leave the bindings alone.                      *)
LEMMA WorkStep ==
  ASSUME Waits!WaitAssumption, WaitInv, waits' = waits, events' = events, clock' = clock,
         runs' = runs, matcher' = matcher, poller' = poller, generation' = generation,
         asked' \in [Runs -> {"no", "pending", "consumed"}],
         signal' \in [Waits!Wait -> {"none", "pending", "consumed", "cancelled"}],
         work' \in [Works -> [state : WorkStates, gen : Nat, wait : 0 .. MaxWaits]],
         \A b \in Waits!Wait : \/ signal'[b] = signal[b]
                               \/ signal[b] = "pending" /\ signal'[b] \in {"consumed", "cancelled"},
         \A v \in Works : work'[v].wait \in {0, work[v].wait},
         \A v \in Works : work'[v].wait # 0 /\ work'[v].state = "waiting_external" =>
             work[v].state = "waiting_external" \/ waits[work[v].wait].status = "active"
  PROVE  WaitInv' /\ \A b \in Waits!Used : Moves(b)
<1>1. WaitTypes' /\ MatcherInv' /\ Passes
  <2>1. WaitTypes' /\ MatcherInv'
    BY DEF WaitInv, WaitTypes, MatcherInv
  <2> QED BY <2>1, WaitFacts DEF Passes
<1>2. SignalInv'
  <2>1. ASSUME NEW b \in Waits!Wait, signal'[b] # "none" PROVE waits'[b].status \in {"delivered", "expired"}
    <3>1. signal[b] # "none"
      BY <2>1
    <3> QED BY <3>1 DEF WaitInv, SignalInv
  <2>2. ASSUME NEW v \in Works, work'[v].wait # 0, work'[v].state = "waiting_external"
        PROVE  signal'[work'[v].wait] # "pending"
    <3>1. work'[v].wait = work[v].wait /\ work[v].wait \in Waits!Used /\ work[v].wait \in Waits!Wait
      BY <2>2, WaitFacts, UsedIs
    <3>2. signal[work[v].wait] # "pending"
      <4>1. CASE work[v].state = "waiting_external"
        BY <2>2, <3>1, <4>1 DEF WaitInv, SignalInv, Waits!SignalWakes
      <4>2. CASE waits[work[v].wait].status = "active"
        BY <3>1, <4>2, WaitFacts, UsedIs
      <4> QED BY <2>2, <4>1, <4>2
    <3>3. signal'[work[v].wait] = signal[work[v].wait] \/ signal'[work[v].wait] \in {"consumed", "cancelled"}
      BY <3>1
    <3> QED BY <3>1, <3>2, <3>3
  <2> QED BY <2>1, <2>2 DEF SignalInv, Waits!SignalWakes
<1>3. \A b \in Waits!Used : b \in Waits!Wait
  BY UsedIs
<1>4. \A id \in DOMAIN events' :
             \/ id \in DOMAIN events /\ Waits!Handled(id)
             \/ ~(events'[id].kind = "plugin_event" \/ matcher'[id].pc = "done")
  BY DEF Waits!Handled
<1> QED BY <1>1, <1>2, <1>3, <1>4, QuietStep

LEMMA StepOpen ==
  ASSUME Waits!WaitAssumption, WaitInv, NEW v \in Works, Waits!Open(v)
  PROVE  WaitInv' /\ \A b \in Waits!Used : Moves(b)
<1> USE DEF Waits!Open
<1>1. WaitTypes /\ generation \in Nat
  BY WaitFacts DEF WaitInv
<1>2. /\ work' \in [Works -> [state : WorkStates, gen : Nat, wait : 0 .. MaxWaits]]
      /\ work'[v] = [state |-> "running", gen |-> generation, wait |-> 0]
      /\ \A u \in Works \ {v} : work'[u] = work[u]
  BY <1>1 DEF WaitTypes, WorkStates, Waits!WaitAssumption
<1>3. /\ asked' \in [Runs -> {"no", "pending", "consumed"}]
      /\ signal' \in [Waits!Wait -> {"none", "pending", "consumed", "cancelled"}]
  BY <1>1 DEF WaitTypes
<1>4. /\ \A u \in Works : work'[u].wait \in {0, work[u].wait}
      /\ \A u \in Works : work'[u].wait # 0 /\ work'[u].state = "waiting_external" =>
             work[u].state = "waiting_external" \/ waits[work[u].wait].status = "active"
  BY <1>2
<1> QED BY <1>2, <1>3, <1>4, WorkStep

(* One Work enters another state, and names the wait it had or none.       *)
LEMMA EnterStep ==
  ASSUME Waits!WaitAssumption, WaitInv, waits' = waits, events' = events, clock' = clock,
         runs' = runs, matcher' = matcher, poller' = poller, generation' = generation,
         asked' \in [Runs -> {"no", "pending", "consumed"}],
         signal' \in [Waits!Wait -> {"none", "pending", "consumed", "cancelled"}],
         \A b \in Waits!Wait : \/ signal'[b] = signal[b]
                               \/ signal[b] = "pending" /\ signal'[b] \in {"consumed", "cancelled"},
         NEW v \in Works, NEW s \in WorkStates, NEW n \in {0, work[v].wait}, Waits!Enters(v, s, n),
         s = "waiting_external" /\ n # 0 => waits[n].status = "active"
  PROVE  WaitInv' /\ \A b \in Waits!Used : Moves(b)
<1>1. WaitTypes
  BY DEF WaitInv
<1>2. n \in 0 .. MaxWaits
  BY <1>1 DEF WaitTypes, Waits!WaitAssumption
<1>3. /\ work' \in [Works -> [state : WorkStates, gen : Nat, wait : 0 .. MaxWaits]]
      /\ work'[v].state = s /\ work'[v].wait = n
      /\ \A u \in Works \ {v} : work'[u] = work[u]
  BY <1>1, <1>2, Entered
<1>4. /\ \A u \in Works : work'[u].wait \in {0, work[u].wait}
      /\ \A u \in Works : work'[u].wait # 0 /\ work'[u].state = "waiting_external" =>
             work[u].state = "waiting_external" \/ waits[work[u].wait].status = "active"
  BY <1>3
<1> QED BY <1>3, <1>4, WorkStep

LEMMA StepEnters ==
  ASSUME Waits!WaitAssumption, WaitInv, NEW v \in Works,
         \/ Waits!Activate(v) \/ Waits!Settle(v)
         \/ \E s \in {"waiting_user", "suspended"} : Waits!Rest(v, s)
  PROVE  WaitInv' /\ \A b \in Waits!Used : Moves(b)
<1>1. /\ asked \in [Runs -> {"no", "pending", "consumed"}]
      /\ signal \in [Waits!Wait -> {"none", "pending", "consumed", "cancelled"}]
  BY DEF WaitInv, WaitTypes
<1>2. /\ waits' = waits /\ events' = events /\ clock' = clock /\ runs' = runs /\ asked' = asked
      /\ matcher' = matcher /\ poller' = poller /\ generation' = generation /\ signal' = signal
  BY DEF Waits!Activate, Waits!Settle, Waits!Rest
<1>3. \E s \in WorkStates, n \in {0, work[v].wait} :
          Waits!Enters(v, s, n) /\ (s = "waiting_external" /\ n # 0 => waits[n].status = "active")
  <2>1. CASE Waits!Activate(v)
    BY <2>1 DEF Waits!Activate, WorkStates
  <2>2. CASE Waits!Settle(v)
    BY <2>2 DEF Waits!Settle, WorkStates
  <2>3. CASE \E s \in {"waiting_user", "suspended"} : Waits!Rest(v, s)
    BY <2>3 DEF Waits!Rest, WorkStates
  <2> QED BY <2>1, <2>2, <2>3
<1> QED BY <1>1, <1>2, <1>3, EnterStep

LEMMA StepDrain ==
  ASSUME Waits!WaitAssumption, WaitInv, NEW v \in Works, Waits!Drain(v)
  PROVE  WaitInv' /\ \A b \in Waits!Used : Moves(b)
<1> DEFINE mine == {b \in Waits!Used : waits[b].work = v /\ signal[b] = "pending"}
           questions == {r \in Runs : Owner[r] = v /\ asked[r] = "pending"}
<1>1. /\ signal' = [b \in Waits!Wait |-> IF b \in mine THEN "consumed" ELSE signal[b]]
      /\ asked' = [r \in Runs |-> IF r \in questions THEN "consumed" ELSE asked[r]]
      /\ Waits!Enters(v, "running", 0)
      /\ waits' = waits /\ events' = events /\ clock' = clock /\ runs' = runs
      /\ matcher' = matcher /\ poller' = poller /\ generation' = generation
  BY DEF Waits!Drain
<1>2. /\ asked \in [Runs -> {"no", "pending", "consumed"}]
      /\ signal \in [Waits!Wait -> {"none", "pending", "consumed", "cancelled"}]
  BY DEF WaitInv, WaitTypes
<1>3. /\ asked' \in [Runs -> {"no", "pending", "consumed"}]
      /\ signal' \in [Waits!Wait -> {"none", "pending", "consumed", "cancelled"}]
      /\ \A b \in Waits!Wait : \/ signal'[b] = signal[b]
                               \/ signal[b] = "pending" /\ signal'[b] \in {"consumed", "cancelled"}
  BY <1>1, <1>2
<1>4. "running" \in WorkStates
  BY DEF WorkStates
<1> QED BY <1>1, <1>3, <1>4, EnterStep

-----------------------------------------------------------------------------
(* Steps of the world and of the readers, which move no Work.              *)
LEMMA ReaderStep ==
  ASSUME Waits!WaitAssumption, WaitInv, waits' = waits, work' = work, signal' = signal,
         WaitTypes', MatcherInv', Passes,
         \A id \in DOMAIN events' :
             \/ id \in DOMAIN events /\ Waits!Handled(id)
             \/ ~(events'[id].kind = "plugin_event" \/ matcher'[id].pc = "done")
             \/ \A b \in Waits!Active : id > waits[b].after => \A i \in DOMAIN waits[b].conds :
                    Waits!Fits(waits[b].conds[i], events'[id])
                      => waits[b].matched[i].kind = events'[id].kind
  PROVE  WaitInv' /\ \A b \in Waits!Used : Moves(b)
<1>1. SignalInv'
  BY DEF WaitInv, SignalInv, Waits!SignalWakes
<1>2. \A v \in Works : work'[v].wait \in {0, work[v].wait}
  OBVIOUS
<1> QED BY <1>1, <1>2, QuietStep

LEMMA StepHardBoundary ==
  ASSUME Waits!WaitAssumption, WaitInv, Waits!HardBoundary
  PROVE  WaitInv' /\ \A b \in Waits!Used : Moves(b)
<1>10. generation <= MaxBoundaries /\ generation' = generation + 1
  BY DEF Waits!HardBoundary
<1>11. /\ clock' = clock /\ events' = events /\ runs' = runs /\ waits' = waits
       /\ matcher' = matcher /\ poller' = poller
  BY DEF Waits!HardBoundary
<1>1. /\ work' = [v \in Works |-> IF work[v].state \in Waits!Over \cup {"absent"} THEN work[v]
                                  ELSE [work[v] EXCEPT !.state = "cancelled", !.wait = 0]]
      /\ signal' = [b \in Waits!Wait |-> IF signal[b] = "pending" THEN "cancelled" ELSE signal[b]]
      /\ asked' = [r \in Runs |-> IF asked[r] = "pending" THEN "consumed" ELSE asked[r]]
      /\ clock' = clock /\ events' = events /\ runs' = runs /\ waits' = waits
      /\ matcher' = matcher /\ poller' = poller
  BY DEF Waits!HardBoundary
<1>2. WaitTypes /\ MatcherInv /\ SignalInv
  BY DEF WaitInv
<1>3. WaitTypes'
  <2>1. generation' \in 1 .. MaxBoundaries + 1
    <3>1. generation \in Nat /\ MaxBoundaries \in Nat
      <4>1. generation \in Nat
        BY WaitFacts
      <4> QED BY <4>1 DEF Waits!WaitAssumption
    <3> QED BY ONLY <1>10, <3>1
  <2>2. asked' \in [Runs -> {"no", "pending", "consumed"}]
    BY <1>1, <1>2 DEF WaitTypes
  <2>3. work' \in [Works -> [state : WorkStates, gen : Nat, wait : 0 .. MaxWaits]]
    <3>1. ASSUME NEW v \in Works PROVE work'[v] \in [state : WorkStates, gen : Nat, wait : 0 .. MaxWaits]
      <4>1. work[v] \in [state : WorkStates, gen : Nat, wait : 0 .. MaxWaits]
        BY <1>2 DEF WaitTypes
      <4>2. "cancelled" \in WorkStates /\ 0 \in 0 .. MaxWaits
        BY DEF WorkStates, Waits!Over, Waits!WaitAssumption
      <4>3. work'[v] = work[v] \/ work'[v] = [work[v] EXCEPT !.state = "cancelled", !.wait = 0]
        BY <1>1
      <4> QED BY <4>1, <4>2, <4>3
    <3>2. \E f : work' = [v \in Works |-> f[v]]
      <4>1. work' = [v \in Works |-> work'[v]]
        BY <1>1
      <4> QED BY <4>1
    <3> QED BY <3>1, <3>2
  <2>4. signal' \in [Waits!Wait -> {"none", "pending", "consumed", "cancelled"}]
    BY <1>1, <1>2 DEF WaitTypes
  <2> QED BY <1>1, <1>2, <2>1, <2>2, <2>3, <2>4 DEF WaitTypes
<1>4. \A v \in Works : work'[v].wait \in {0, work[v].wait}
  <2> SUFFICES ASSUME NEW v \in Works PROVE work'[v].wait \in {0, work[v].wait}
    OBVIOUS
  <2>1. work[v] \in [state : WorkStates, gen : Nat, wait : 0 .. MaxWaits]
    BY <1>2 DEF WaitTypes
  <2> QED BY <1>1, <2>1
<1>5. \A b \in Waits!Wait : \/ signal'[b] = signal[b]
                            \/ signal[b] = "pending" /\ signal'[b] \in {"consumed", "cancelled"}
  BY <1>1
<1>6. SignalInv'
  <2>1. ASSUME NEW b \in Waits!Wait, signal'[b] # "none" PROVE waits'[b].status \in {"delivered", "expired"}
    <3>1. signal[b] # "none"
      BY <1>5, <2>1
    <3> QED BY <1>1, <1>2, <3>1 DEF SignalInv
  <2>2. ASSUME NEW v \in Works, work'[v].wait # 0 PROVE signal'[work'[v].wait] # "pending"
    <3>1. work'[v].wait \in Waits!Wait
      BY <1>4, <2>2, WaitFacts, UsedIs
    <3> QED BY <1>1, <3>1
  <2> QED BY <2>1, <2>2 DEF SignalInv, Waits!SignalWakes
<1>7. MatcherInv' /\ Passes
  <2>1. MatcherInv'
    BY <1>1, <1>2 DEF MatcherInv
  <2>2. generation \in Nat /\ clock \in Nat /\ Len(events) \in Nat
    BY WaitFacts
  <2>3. Passes
    BY ONLY <1>10, <1>11, <2>2 DEF Passes
  <2> QED BY <2>1, <2>3
<1>8. \A id \in DOMAIN events' :
             \/ id \in DOMAIN events /\ Waits!Handled(id)
             \/ ~(events'[id].kind = "plugin_event" \/ matcher'[id].pc = "done")
  BY <1>1 DEF Waits!Handled
<1>9. \A b \in Waits!Used : b \in Waits!Wait
  BY UsedIs
<1> QED BY <1>1, <1>3, <1>4, <1>5, <1>6, <1>7, <1>8, <1>9, QuietStep

LEMMA StepWorld ==
  ASSUME Waits!WaitAssumption, WaitInv,
         Waits!Tick \/ \E r \in Runs, s \in Waits!Reported : Waits!RunMoves(r, s)
  PROVE  WaitInv' /\ \A b \in Waits!Used : Moves(b)
<1>1. /\ waits' = waits /\ work' = work /\ signal' = signal /\ events' = events
      /\ matcher' = matcher /\ poller' = poller /\ generation' = generation /\ asked' = asked
  BY DEF Waits!Tick, Waits!RunMoves
<1>2. WaitTypes /\ MatcherInv
  BY DEF WaitInv
<1>3. clock' \in 0 .. MaxTime /\ clock' >= clock
  <2>1. clock' = clock \/ (clock < MaxTime /\ clock' = clock + 1)
    BY DEF Waits!Tick, Waits!RunMoves
  <2> QED BY <2>1, <1>2, WaitFacts DEF WaitTypes, Waits!WaitAssumption
<1>4. runs' \in [Runs -> Waits!Statuses]
  BY <1>2 DEF WaitTypes, Waits!Tick, Waits!RunMoves, Waits!Reported, Waits!Statuses
<1>5. WaitTypes' /\ MatcherInv' /\ Passes
  <2>1. WaitTypes' /\ MatcherInv'
    BY <1>1, <1>2, <1>3, <1>4 DEF WaitTypes, MatcherInv
  <2> QED BY <1>1, <1>3, <2>1, WaitFacts DEF Passes
<1>6. \A id \in DOMAIN events' :
             \/ id \in DOMAIN events /\ Waits!Handled(id)
             \/ ~(events'[id].kind = "plugin_event" \/ matcher'[id].pc = "done")
  BY <1>1 DEF Waits!Handled
<1> QED BY <1>1, <1>5, <1>6, ReaderStep

(* One event is appended.                                                  *)
LEMMA Appended ==
  ASSUME Waits!WaitAssumption, WaitInv, Waits!Room, NEW e \in Events, events' = Append(events, e)
  PROVE  /\ events' \in Seq(Events) /\ Len(events') <= MaxEvents /\ Len(events') = Len(events) + 1
         /\ DOMAIN events' = 1 .. Len(events) + 1 /\ events'[Len(events) + 1] = e
         /\ \A id \in DOMAIN events : events'[id] = events[id]
         /\ Len(events) + 1 \in Waits!Event
<1>1. events \in Seq(Events)
  BY DEF WaitInv, WaitTypes
<1>2. /\ events' \in Seq(Events) /\ Len(events') = Len(events) + 1
      /\ events'[Len(events) + 1] = e /\ \A id \in 1 .. Len(events) : events'[id] = events[id]
  BY <1>1, AppendProperties
<1>3. DOMAIN events' = 1 .. Len(events') /\ DOMAIN events = 1 .. Len(events) /\ Len(events) \in Nat
  BY <1>1, <1>2, LenProperties
<1>4. Len(events) + 1 <= MaxEvents
  BY <1>3 DEF Waits!Room, Waits!WaitAssumption
<1> QED BY <1>2, <1>3, <1>4 DEF Waits!Event, Waits!WaitAssumption

LEMMA StepMessage ==
  ASSUME Waits!WaitAssumption, WaitInv, NEW ok \in BOOLEAN, Waits!Message(ok)
  PROVE  WaitInv' /\ \A b \in Waits!Used : Moves(b)
<1> DEFINE e == [kind |-> "conversation", plugin |-> "none", eligible |-> ok]
<1>1. e \in Events
  BY DEF Events
<1>2. /\ Waits!Room /\ events' = Append(events, e) /\ waits' = waits /\ work' = work /\ signal' = signal
      /\ matcher' = matcher /\ poller' = poller /\ generation' = generation /\ asked' = asked
      /\ clock' = clock /\ runs' = runs
  BY DEF Waits!Message
<1>3. e.kind = "conversation"
  OBVIOUS
<1> HIDE DEF e
<1>4. /\ events' \in Seq(Events) /\ Len(events') <= MaxEvents /\ Len(events') = Len(events) + 1
      /\ DOMAIN events' = 1 .. Len(events) + 1 /\ events'[Len(events) + 1] = e
      /\ \A id \in DOMAIN events : events'[id] = events[id]
      /\ Len(events) + 1 \in Waits!Event
  BY <1>1, <1>2, Appended
<1>5. WaitTypes /\ MatcherInv
  BY DEF WaitInv
<1>6. WaitTypes'
  BY <1>2, <1>4, <1>5 DEF WaitTypes
<1>7. DOMAIN events = 1 .. Len(events) /\ Len(events) \in Nat /\ clock \in Nat /\ generation \in Nat
  BY WaitFacts
<1>8. MatcherInv'
  <2>1. \A id \in DOMAIN events : id \in DOMAIN events'
    BY <1>4, <1>7
  <2> QED BY <1>2, <1>5, <2>1 DEF MatcherInv
<1>9. Passes
  BY <1>2, <1>4, <1>7 DEF Passes
<1>10. \A id \in DOMAIN events' :
             \/ id \in DOMAIN events /\ Waits!Handled(id)
             \/ ~(events'[id].kind = "plugin_event" \/ matcher'[id].pc = "done")
  <2> SUFFICES ASSUME NEW id \in DOMAIN events'
               PROVE  \/ id \in DOMAIN events /\ Waits!Handled(id)
                      \/ ~(events'[id].kind = "plugin_event" \/ matcher'[id].pc = "done")
    OBVIOUS
  <2>1. CASE id \in DOMAIN events
    BY <1>2, <1>4, <2>1 DEF Waits!Handled
  <2>2. CASE id = Len(events) + 1
    <3>1. id \notin DOMAIN events /\ id \in Waits!Event
      BY <1>4, <1>7, <2>2
    <3>2. matcher[id].pc = "idle"
      BY <1>5, <3>1 DEF MatcherInv
    <3> QED BY <1>2, <1>3, <1>4, <2>2, <3>2
  <2> QED BY <1>4, <1>7, <2>1, <2>2
<1> QED BY <1>2, <1>6, <1>8, <1>9, <1>10, ReaderStep

(* The matcher and the poller only read.                                   *)
LEMMA StepMatchRead ==
  ASSUME Waits!WaitAssumption, WaitInv, NEW n \in Waits!Event, Waits!MatchRead(n)
  PROVE  WaitInv' /\ \A b \in Waits!Used : Moves(b)
<1>1. /\ n \in DOMAIN events /\ events[n].kind = "conversation" /\ matcher[n].pc = "idle"
      /\ matcher' = [matcher EXCEPT ![n] = IF Waits!Interesting(n)
                                             THEN [pc |-> "prepared", rows |-> Waits!Rows(Waits!Active)]
                                             ELSE [pc |-> "done", rows |-> <<>>]]
      /\ clock' = clock /\ generation' = generation /\ events' = events /\ runs' = runs
      /\ asked' = asked /\ work' = work /\ waits' = waits /\ signal' = signal /\ poller' = poller
  BY DEF Waits!MatchRead
<1>2. WaitTypes /\ MatcherInv
  BY DEF WaitInv
<1>3. /\ DOMAIN matcher' = Waits!Event /\ \A e \in Waits!Event \ {n} : matcher'[e] = matcher[e]
      /\ matcher'[n].pc = IF Waits!Interesting(n) THEN "prepared" ELSE "done"
  BY <1>1, <1>2 DEF WaitTypes
<1>4. WaitTypes'
  BY <1>1, <1>2, <1>3 DEF WaitTypes
<1>5. MatcherInv' /\ Passes
  <2>1. MatcherInv'
    BY <1>1, <1>2, <1>3 DEF MatcherInv
  <2> QED BY <1>1, <2>1, WaitFacts DEF Passes
<1>6. ASSUME NEW id \in DOMAIN events'
      PROVE  \/ id \in DOMAIN events /\ Waits!Handled(id)
             \/ ~(events'[id].kind = "plugin_event" \/ matcher'[id].pc = "done")
             \/ \A b \in Waits!Active : id > waits[b].after => \A i \in DOMAIN waits[b].conds :
                    Waits!Fits(waits[b].conds[i], events'[id])
                      => waits[b].matched[i].kind = events'[id].kind
  <2>1. id \in Waits!Event
    BY <1>1, <1>2, <1>6, WaitFacts DEF WaitTypes, Waits!Event, Waits!WaitAssumption
  <2>2. CASE id # n
    BY <1>1, <1>3, <1>6, <2>1, <2>2 DEF Waits!Handled
  <2>3. CASE id = n /\ Waits!Interesting(n)
    BY <1>1, <1>3, <2>3
  <2>4. CASE id = n /\ ~Waits!Interesting(n)
    <3>1. ASSUME NEW b \in Waits!Active, id > waits[b].after, NEW i \in DOMAIN waits[b].conds,
                 Waits!Fits(waits[b].conds[i], events'[id])
          PROVE  waits[b].matched[i].kind = events'[id].kind
      <4>1. waits[b].conds[i].kind = "conversation"
        BY <1>1, <2>4, <3>1 DEF Waits!Fits
      <4>2. waits[b].matched[i] # Waits!Unmatched
        BY <2>4, <3>1, <4>1 DEF Waits!Interesting
      <4>3. IsBinding(waits[b])
        BY WaitFacts
      <4>4. i \in DOMAIN waits[b].matched
        BY <4>3, BindingDomains
      <4> QED BY <1>1, <2>4, <4>1, <4>2, <4>3, <4>4 DEF IsBinding
    <3> QED BY <3>1
  <2> QED BY <2>2, <2>3, <2>4
<1> QED BY <1>1, <1>4, <1>5, <1>6, ReaderStep

(* A read that another writer has overtaken is thrown away.                *)
LEMMA StepReaders ==
  ASSUME Waits!WaitAssumption, WaitInv, waits' = waits, work' = work, signal' = signal,
         clock' = clock, generation' = generation, events' = events, runs' = runs, asked' = asked,
         \/ matcher' = matcher /\ poller'.pc \in {"idle", "prepared"}
         \/ \E n \in Waits!Event : matcher' = [matcher EXCEPT ![n] = [pc |-> "idle", rows |-> <<>>]]
            /\ poller' = poller
  PROVE  WaitInv' /\ \A b \in Waits!Used : Moves(b)
<1>1. WaitTypes /\ MatcherInv
  BY DEF WaitInv
<1>2. DOMAIN matcher' = Waits!Event
      /\ \A e \in Waits!Event : matcher'[e] = matcher[e] \/ matcher'[e].pc = "idle"
  BY <1>1 DEF WaitTypes
<1>3. WaitTypes'
  BY <1>1, <1>2 DEF WaitTypes
<1>4. MatcherInv' /\ Passes
  <2>1. MatcherInv'
    BY <1>1, <1>2 DEF MatcherInv
  <2> QED BY <2>1, WaitFacts DEF Passes
<1>5. ASSUME NEW id \in DOMAIN events'
      PROVE  \/ id \in DOMAIN events /\ Waits!Handled(id)
             \/ ~(events'[id].kind = "plugin_event" \/ matcher'[id].pc = "done")
  <2>1. id \in Waits!Event
    BY <1>1, <1>5, WaitFacts DEF WaitTypes, Waits!Event, Waits!WaitAssumption
  <2> QED BY <1>2, <1>5, <2>1 DEF Waits!Handled
<1> QED BY <1>3, <1>4, <1>5, ReaderStep

(* The Work lets go of its active bindings: it waits again, it is over, or *)
(* the operator resumes it.                                                *)
LEMMA SupersededMoves ==
  ASSUME WaitInv, NEW v \in Works, waits' = Waits!Superseded(v), signal' = signal
  PROVE  /\ \A b \in Waits!Used : Moves(b)
         /\ \A b \in Waits!Wait \ Waits!Used : waits'[b] = waits[b]
         /\ \A b \in Waits!Wait : waits'[b].status = "active" => waits[b].work # v
         /\ \A b \in Waits!Wait : waits'[b].status = "active" => waits'[b] = waits[b]
         /\ DOMAIN waits' = Waits!Wait
<1>1. /\ \A b \in Waits!Wait : waits'[b] = IF b \in Waits!ActiveOf(v)
                                             THEN [waits[b] EXCEPT !.status = "cancelled"] ELSE waits[b]
      /\ DOMAIN waits' = Waits!Wait
  BY DEF Waits!Superseded
<1>2. ASSUME NEW b \in Waits!Used PROVE Moves(b)
  <2>1. waits'[b] = waits[b] \/ (waits[b].status = "active" /\ waits'[b] = [waits[b] EXCEPT !.status = "cancelled"])
    BY <1>1, UsedIs DEF Waits!ActiveOf
  <2> QED BY <2>1, CancelledMoves
<1>3. \A b \in Waits!Wait \ Waits!Used : waits'[b] = waits[b]
  BY <1>1, UsedIs DEF Waits!ActiveOf
<1>4. ASSUME NEW b \in Waits!Wait, waits'[b].status = "active"
      PROVE  waits[b].work # v /\ waits'[b] = waits[b]
  <2>1. CASE b \in Waits!ActiveOf(v)
    <3>1. b \in Waits!Used /\ IsBinding(waits[b])
      BY <2>1, UsedIs DEF Waits!ActiveOf, WaitInv, BindingInv
    <3>2. waits[b] = Row(waits[b].status, waits[b].why, waits[b], waits[b].matched)
      BY <3>1 DEF IsBinding
    <3>3. [waits[b] EXCEPT !.status = "cancelled"] = Row("cancelled", waits[b].why, waits[b], waits[b].matched)
      BY <3>2, RowIs
    <3>4. waits'[b].status = "cancelled"
      BY <1>1, <2>1, <3>3, RowFields
    <3> QED BY <1>4, <3>4
  <2>2. CASE b \notin Waits!ActiveOf(v)
    <3>1. waits'[b] = waits[b]
      BY <1>1, <2>2
    <3>2. b \in Waits!Active
      BY <1>4, <3>1, UsedIs
    <3> QED BY <2>2, <3>1, <3>2 DEF Waits!ActiveOf
  <2> QED BY <2>1, <2>2
<1> QED BY <1>1, <1>2, <1>3, <1>4

(* Its signals stay those of bindings that one resolved.                   *)
LEMMA StepLetsGo ==
  ASSUME Waits!WaitAssumption, WaitInv, NEW v \in Works,
         Waits!Cancel(v) \/ Waits!Finish(v) \/ Waits!Resume(v)
  PROVE  WaitInv' /\ \A b \in Waits!Used : Moves(b)
<1>1. /\ waits' = Waits!Superseded(v) /\ signal' = signal /\ clock' = clock /\ generation' = generation
      /\ events' = events /\ runs' = runs /\ asked' = asked /\ matcher' = matcher /\ poller' = poller
  BY DEF Waits!Cancel, Waits!Finish, Waits!Resume
<1>2. WaitTypes /\ MatcherInv /\ SignalInv
  BY DEF WaitInv
<1>3. /\ work' \in [Works -> [state : WorkStates, gen : Nat, wait : 0 .. MaxWaits]]
      /\ \A u \in Works : work'[u] = work[u] \/ work'[u].wait = 0
  <2>1. CASE Waits!Cancel(v)
    BY <1>2, <2>1 DEF Waits!Cancel, WaitTypes
  <2>2. CASE Waits!Finish(v)
    <3>1. Waits!Enters(v, "completed", 0) /\ "completed" \in WorkStates /\ 0 \in 0 .. MaxWaits
      BY <2>2 DEF Waits!Finish, WorkStates, Waits!Over, Waits!WaitAssumption
    <3> QED BY <1>2, <3>1, Entered
  <2>3. CASE Waits!Resume(v)
    <3>1. Waits!Enters(v, "queued", 0) /\ "queued" \in WorkStates /\ 0 \in 0 .. MaxWaits
      BY <2>3 DEF Waits!Resume, WorkStates, Waits!WaitAssumption
    <3> QED BY <1>2, <3>1, Entered
  <2> QED BY <2>1, <2>2, <2>3
<1>4. /\ \A b \in Waits!Used : Moves(b)
      /\ \A b \in Waits!Wait \ Waits!Used : waits'[b] = waits[b]
      /\ \A b \in Waits!Wait : waits'[b].status = "active" => waits'[b] = waits[b]
      /\ DOMAIN waits' = Waits!Wait
  BY <1>1, SupersededMoves
<1>5. WaitTypes'
  BY <1>1, <1>2, <1>3, <1>4 DEF WaitTypes
<1>6. SignalInv'
  <2>1. ASSUME NEW b \in Waits!Wait, signal'[b] # "none" PROVE waits'[b].status \in {"delivered", "expired"}
    <3>1. waits[b].status \in {"delivered", "expired"}
      BY <1>1, <1>2, <2>1 DEF SignalInv
    <3>2. waits'[b] = waits[b]
      BY <1>4, <3>1 DEF Moves
    <3> QED BY <3>1, <3>2
  <2>2. Waits!SignalWakes'
    BY <1>1, <1>2, <1>3 DEF SignalInv, Waits!SignalWakes
  <2> QED BY <2>1, <2>2 DEF SignalInv
<1>7. MatcherInv' /\ Passes
  <2>1. MatcherInv'
    BY <1>1, <1>2 DEF MatcherInv
  <2> QED BY <1>1, <2>1, WaitFacts DEF Passes
<1>8. Handles
  BY <1>1 DEF Handles, Waits!Handled
<1>9. \E k \in 0 .. MaxWaits : Waits!Used' = 1 .. k
  BY <1>4, SameUsed
<1>10. \A u \in Works : work'[u].wait # 0 => work'[u].wait = work[u].wait
  BY <1>3
<1> QED BY <1>4, <1>5, <1>6, <1>7, <1>8, <1>9, <1>10, StepKeeps

-----------------------------------------------------------------------------
(* Verdicts.  Evidence that stands already is good evidence.               *)
LEMMA StandingEvidence ==
  ASSUME Waits!WaitAssumption, WaitInv, NEW b \in Waits!Active
  PROVE  /\ Evid(b, waits[b].matched) /\ waits[b].matched \in Seq(Waits!Proofs)
         /\ DOMAIN waits[b].matched = 1 .. Len(waits[b].conds) /\ Len(waits[b].conds) \in Nat
         /\ DOMAIN waits[b].conds = 1 .. Len(waits[b].conds)
         /\ \A i \in DOMAIN waits[b].matched :
              /\ waits[b].matched[i] \in Waits!Proofs /\ IsCondition(waits[b].conds[i])
              /\ waits[b].matched[i] # Waits!Unmatched => waits[b].matched[i].kind = waits[b].conds[i].kind
<1>1. IsBinding(waits[b])
  BY WaitFacts
<1>2. /\ waits[b].matched \in Seq(Waits!Proofs) /\ Len(waits[b].matched) = Len(waits[b].conds)
      /\ \A i \in DOMAIN waits[b].matched :
           /\ IsCondition(waits[b].conds[i])
           /\ waits[b].matched[i] # Waits!Unmatched => waits[b].matched[i].kind = waits[b].conds[i].kind
  BY <1>1 DEF IsBinding
<1>3. \A i \in DOMAIN waits[b].matched : waits[b].matched[i] \in Waits!Proofs
  BY <1>2, ElementOfSeq, LenProperties
<1> QED BY <1>1, <1>2, <1>3, BindingDomains DEF Evid

LEMMA CheckedGood ==
  ASSUME NEW b, NEW v, Good(b, v), NEW c, c = Waits!Checked(b, v)
  PROVE  Good(b, c) /\ (c = v \/ c.reason = "invalidated")
<1>1. CASE c = v
  BY <1>1
<1>2. CASE c = Waits!Verdict("invalidated", v.matched)
  <2>1. c.reason = "invalidated"
    BY <1>2 DEF Waits!Verdict
  <2> QED BY <2>1 DEF Good
<1> QED BY <1>1, <1>2 DEF Waits!Checked

LEMMA EventGood ==
  ASSUME Waits!WaitAssumption, WaitInv, NEW b \in Waits!Active, NEW e \in Events,
         NEW id \in Waits!Event, id \in DOMAIN events', events'[id] = e,
         NEW v, v = Waits!EventVerdict(b, waits[b].matched, id, e)
  PROVE  /\ Good(b, v)
         /\ (e.eligible /\ waits[b].gen = generation /\ id > waits[b].after) =>
              /\ v.reason = "keep" => \A i \in DOMAIN waits[b].conds :
                   Waits!Fits(waits[b].conds[i], e) => waits[b].matched[i].kind = e.kind
              /\ v.reason = "partial" => \A i \in DOMAIN waits[b].conds :
                   Waits!Fits(waits[b].conds[i], e) => v.matched[i].kind = e.kind
<1> DEFINE m == waits[b].matched
           n == Len(waits[b].conds)
           new == Waits!Matched(b, m, id, e)
<1>1. /\ Evid(b, m) /\ m \in Seq(Waits!Proofs) /\ DOMAIN m = 1 .. n /\ n \in Nat
      /\ DOMAIN waits[b].conds = 1 .. n
      /\ \A i \in DOMAIN m : m[i] \in Waits!Proofs /\ (m[i] # Waits!Unmatched => m[i].kind = waits[b].conds[i].kind)
  BY StandingEvidence
<1>2. e.kind \in {"conversation", "plugin_event"}
  BY DEF Events
<1>3. /\ Waits!Proof(e.kind, id, "none") \in Waits!Proofs /\ Waits!Proof(e.kind, id, "none").kind = e.kind
      /\ Waits!Proof(e.kind, id, "none").event = id
  BY <1>2 DEF Waits!Proof, Waits!Proofs, Waits!Kinds, Waits!Event, Waits!WaitAssumption
<1>4. new = [i \in 1 .. n |-> IF m[i] = Waits!Unmatched /\ Waits!Fits(waits[b].conds[i], e) /\ id > waits[b].after
                                THEN Waits!Proof(e.kind, id, "none") ELSE m[i]]
  BY <1>1 DEF Waits!Matched
<1> HIDE DEF m, new
<1>5. new \in [1 .. n -> Waits!Proofs]
  BY <1>1, <1>3, <1>4
<1>6. new \in Seq(Waits!Proofs) /\ Len(new) = n /\ DOMAIN new = 1 .. n
  BY <1>1, <1>5, MappedSeq
<1>7. ASSUME e.eligible PROVE Evid(b, new)
  <2>1. ASSUME NEW i \in DOMAIN m, new[i] # m[i]
        PROVE  m[i] = Waits!Unmatched /\ new[i].kind = waits[b].conds[i].kind /\ Waits!Truthful(b, i, new[i])
    <3>1. /\ m[i] = Waits!Unmatched /\ Waits!Fits(waits[b].conds[i], e) /\ id > waits[b].after
          /\ new[i] = Waits!Proof(e.kind, id, "none")
      BY <1>1, <1>4, <2>1
    <3>2. new[i].kind = e.kind /\ new[i].event = id
      BY <1>3, <3>1
    <3>3. waits[b].conds[i].kind = e.kind
      BY <3>1 DEF Waits!Fits
    <3>4. Waits!Truthful(b, i, new[i])
      BY <1>2, <1>7, <3>1, <3>2 DEF Waits!Truthful
    <3> QED BY <3>1, <3>2, <3>3, <3>4
  <2> QED BY <1>6, <2>1 DEF Evid, m
<1>8. ASSUME id > waits[b].after, NEW i \in DOMAIN waits[b].conds, Waits!Fits(waits[b].conds[i], e)
      PROVE  new[i].kind = e.kind
  <2>1. i \in 1 .. n /\ waits[b].conds[i].kind = e.kind
    BY <1>1, <1>8 DEF Waits!Fits
  <2>2. CASE m[i] = Waits!Unmatched
    <3>1. new[i] = Waits!Proof(e.kind, id, "none")
      BY <1>4, <1>8, <2>1, <2>2
    <3> QED BY <1>3, <3>1
  <2>3. CASE m[i] # Waits!Unmatched
    <3>1. new[i] = m[i]
      BY <1>4, <2>1, <2>3
    <3> QED BY <1>1, <2>1, <2>3, <3>1
  <2> QED BY <2>2, <2>3
<1>9. v = IF ~e.eligible \/ new = m \/ waits[b].gen # generation THEN Waits!Keep
          ELSE IF Waits!Done(waits[b].mode, new) THEN Waits!Checked(b, Waits!Verdict("signal", new))
          ELSE Waits!Verdict("partial", new)
  BY DEF Waits!EventVerdict, new, m
<1>10. CASE ~e.eligible \/ new = m \/ waits[b].gen # generation
  <2>1. v.reason = "keep"
    BY <1>9, <1>10 DEF Waits!Keep
  <2> QED BY <1>8, <1>10, <2>1 DEF Good, m
<1>11. CASE ~(~e.eligible \/ new = m \/ waits[b].gen # generation) /\ Waits!Done(waits[b].mode, new)
  <2>1. Waits!Verdict("signal", new).reason = "signal" /\ Waits!Verdict("signal", new).matched = new
    BY DEF Waits!Verdict
  <2>2. Good(b, Waits!Verdict("signal", new))
    BY <1>7, <1>11, <2>1 DEF Good
  <2>3. v = Waits!Checked(b, Waits!Verdict("signal", new))
    BY <1>9, <1>11
  <2>4. Good(b, v) /\ v.reason \in {"signal", "invalidated"}
    BY <2>1, <2>2, <2>3, CheckedGood
  <2> QED BY <2>4
<1>12. CASE ~(~e.eligible \/ new = m \/ waits[b].gen # generation) /\ ~Waits!Done(waits[b].mode, new)
  <2>1. v.reason = "partial" /\ v.matched = new
    BY <1>9, <1>12 DEF Waits!Verdict
  <2> QED BY <1>7, <1>8, <1>12, <2>1 DEF Good
<1> QED BY <1>10, <1>11, <1>12

LEMMA DueGood ==
  ASSUME Waits!WaitAssumption, WaitInv, NEW b \in Waits!Active, NEW status,
         \A r \in DOMAIN status : status[r] = runs[r],
         NEW v, v = Waits!ObserveDue(b, waits[b].matched, status)
  PROVE  Good(b, v)
<1> DEFINE m == waits[b].matched
           n == Len(waits[b].conds)
           new == Waits!Observed(b, m, status)
<1>1. /\ Evid(b, m) /\ m \in Seq(Waits!Proofs) /\ DOMAIN m = 1 .. n /\ n \in Nat
      /\ DOMAIN waits[b].conds = 1 .. n
      /\ \A i \in DOMAIN m : m[i] \in Waits!Proofs
  BY StandingEvidence
<1>2. new = [i \in 1 .. n |->
               IF m[i] # Waits!Unmatched THEN m[i]
               ELSE IF waits[b].conds[i].kind = "time_due" /\ waits[b].conds[i].arg <= clock
                      THEN Waits!Proof("time_due", 0, "none")
               ELSE IF waits[b].conds[i].kind = "owned_run" /\ waits[b].conds[i].arg \in DOMAIN status
                       /\ status[waits[b].conds[i].arg] \in Waits!Reported
                      THEN Waits!Proof("owned_run", 0, status[waits[b].conds[i].arg])
               ELSE m[i]]
  BY <1>1 DEF Waits!Observed
<1> HIDE DEF m, new
<1>3. /\ Waits!Proof("time_due", 0, "none") \in Waits!Proofs
      /\ \A s \in Waits!Reported : Waits!Proof("owned_run", 0, s) \in Waits!Proofs
  BY DEF Waits!Proof, Waits!Proofs, Waits!Kinds, Waits!Reported, Waits!Statuses, Waits!WaitAssumption
<1>4. new \in [1 .. n -> Waits!Proofs]
  BY <1>1, <1>2, <1>3
<1>5. new \in Seq(Waits!Proofs) /\ Len(new) = n /\ DOMAIN new = 1 .. n
  BY <1>1, <1>4, MappedSeq
<1>6. Evid(b, new)
  <2>1. ASSUME NEW i \in DOMAIN m, new[i] # m[i]
        PROVE  m[i] = Waits!Unmatched /\ new[i].kind = waits[b].conds[i].kind /\ Waits!Truthful(b, i, new[i])
    <3>1. CASE /\ m[i] = Waits!Unmatched /\ waits[b].conds[i].kind = "time_due" /\ waits[b].conds[i].arg <= clock
               /\ new[i] = Waits!Proof("time_due", 0, "none")
      <4>1. new[i].kind = "time_due"
        BY <3>1 DEF Waits!Proof
      <4> QED BY <3>1, <4>1 DEF Waits!Truthful
    <3>2. CASE /\ m[i] = Waits!Unmatched /\ waits[b].conds[i].kind = "owned_run"
               /\ waits[b].conds[i].arg \in DOMAIN status
               /\ new[i] = Waits!Proof("owned_run", 0, status[waits[b].conds[i].arg])
      <4>1. new[i].kind = "owned_run" /\ new[i].status = status[waits[b].conds[i].arg]
        BY <3>2 DEF Waits!Proof
      <4>2. Waits!Truthful(b, i, new[i])
        BY <3>2, <4>1 DEF Waits!Truthful
      <4> QED BY <3>2, <4>1, <4>2
    <3> QED BY <1>1, <1>2, <2>1, <3>1, <3>2
  <2> QED BY <1>5, <2>1 DEF Evid, m
<1>7. v = IF Waits!Gone(b) THEN Waits!Verdict("invalidated", m)
          ELSE IF Waits!Done(waits[b].mode, new) THEN Waits!Verdict("signal", new)
          ELSE IF Waits!Expired(b) THEN Waits!Verdict("deadline", new)
          ELSE IF new # m THEN Waits!Verdict("partial", new)
          ELSE Waits!Keep
  BY DEF Waits!ObserveDue, new, m
<1>8. ASSUME NEW x, NEW y PROVE Waits!Verdict(x, y).reason = x /\ Waits!Verdict(x, y).matched = y
  BY DEF Waits!Verdict
<1>9. Waits!Keep.reason = "keep"
  BY DEF Waits!Keep
<1>10. CASE Waits!Gone(b)
  BY <1>7, <1>8, <1>10 DEF Good
<1>11. CASE ~Waits!Gone(b) /\ Waits!Done(waits[b].mode, new)
  BY <1>6, <1>7, <1>8, <1>11 DEF Good
<1>12. CASE ~Waits!Gone(b) /\ ~Waits!Done(waits[b].mode, new) /\ Waits!Expired(b)
  <2>1. Unmet(b)
    <3>1. ASSUME NEW i \in DOMAIN waits[b].conds, waits[b].mode = "any", waits[b].conds[i].kind = "time_due",
                 ~(waits[b].conds[i].arg > clock)
          PROVE  FALSE
      <4>1. i \in 1 .. n /\ waits[b].conds[i].arg \in Nat /\ clock \in Nat
        BY <1>1, <3>1, StandingEvidence, WaitFacts DEF IsCondition, m
      <4>2. waits[b].conds[i].arg <= clock
        BY <3>1, <4>1
      <4>3. Waits!Proof("time_due", 0, "none") # Waits!Unmatched
        BY DEF Waits!Proof, Waits!Unmatched
      <4>4. new[i] # Waits!Unmatched
        BY <1>2, <3>1, <4>1, <4>2, <4>3
      <4> QED BY <1>5, <1>12, <3>1, <4>1, <4>4 DEF Waits!Done
    <3> QED BY <1>12, <3>1 DEF Unmet
  <2> QED BY <1>6, <1>7, <1>8, <1>12, <2>1 DEF Good
<1>13. CASE ~Waits!Gone(b) /\ ~Waits!Done(waits[b].mode, new) /\ ~Waits!Expired(b) /\ new # m
  BY <1>6, <1>7, <1>8, <1>13 DEF Good
<1>14. CASE ~Waits!Gone(b) /\ ~Waits!Done(waits[b].mode, new) /\ ~Waits!Expired(b) /\ new = m
  BY <1>7, <1>9, <1>14 DEF Good
<1> QED BY <1>10, <1>11, <1>12, <1>13, <1>14

-----------------------------------------------------------------------------
(* A writer's verdicts on active bindings, each of them a good one.        *)
LEMMA ApplyStep ==
  ASSUME Waits!WaitAssumption, WaitInv, NEW out, DOMAIN out \subseteq Waits!Active, Waits!Apply(out),
         \A b \in DOMAIN out : Good(b, out[b]),
         clock' = clock, generation' = generation, runs' = runs,
         events' \in Seq(Events), Len(events') <= MaxEvents, Len(events') >= Len(events),
         \A id \in DOMAIN events : id \in DOMAIN events' /\ events'[id] = events[id],
         asked' \in [Runs -> {"no", "pending", "consumed"}],
         DOMAIN matcher' = Waits!Event, poller'.pc \in {"idle", "prepared"},
         \A e \in Waits!Event : matcher'[e] = matcher[e] \/ (matcher'[e].pc = "done" /\ e \in DOMAIN events),
         Handles
  PROVE  WaitInv' /\ \A b \in Waits!Used : Moves(b)
<1>1. /\ \A b \in Waits!Used : Moves(b)
      /\ \A b \in Waits!Wait \ Waits!Used : waits'[b] = waits[b]
      /\ DOMAIN waits' = Waits!Wait
  BY AppliedMoves
<1>2. WaitTypes /\ SignalInv /\ MatcherInv
  BY DEF WaitInv
<1>3. /\ signal' = [b \in Waits!Wait |-> IF b \in DOMAIN out /\ Waits!Delivers(out[b])
                                          THEN "pending" ELSE signal[b]]
      /\ work' = [v \in Works |-> IF Waits!Waking(v, out) THEN [work[v] EXCEPT !.state = "queued"] ELSE work[v]]
  BY DEF Waits!Apply
<1>4. /\ work' \in [Works -> [state : WorkStates, gen : Nat, wait : 0 .. MaxWaits]]
      /\ \A v \in Works : /\ work'[v].wait = work[v].wait
                          /\ Waits!Waking(v, out) => work'[v].state = "queued"
                          /\ ~Waits!Waking(v, out) => work'[v] = work[v]
  <2>1. work \in [Works -> [state : WorkStates, gen : Nat, wait : 0 .. MaxWaits]] /\ "queued" \in WorkStates
    BY <1>2 DEF WaitTypes, WorkStates
  <2> QED BY ONLY <2>1, <1>3
<1>5. signal' \in [Waits!Wait -> {"none", "pending", "consumed", "cancelled"}]
  BY <1>2, <1>3 DEF WaitTypes
<1>6. WaitTypes'
  BY <1>1, <1>2, <1>4, <1>5 DEF WaitTypes
<1>7. SignalInv'
  <2>1. ASSUME NEW b \in Waits!Wait, signal'[b] # "none" PROVE waits'[b].status \in {"delivered", "expired"}
    <3>1. CASE b \in Waits!Used
      <4>1. Moves(b)
        BY <1>1, <3>1
      <4>2. CASE signal[b] # "none"
        <5>1. waits[b].status \in {"delivered", "expired"}
          BY <1>2, <4>2 DEF SignalInv
        <5> QED BY <4>1, <5>1 DEF Moves
      <4>3. CASE signal[b] = "none"
        BY <2>1, <4>1, <4>3 DEF Moves
      <4> QED BY <4>2, <4>3
    <3>2. CASE b \notin Waits!Used
      <4>1. b \notin DOMAIN out /\ waits'[b] = waits[b]
        BY <1>1, <3>2, UsedIs
      <4>2. signal'[b] = signal[b]
        BY <1>3, <4>1
      <4> QED BY <1>2, <2>1, <4>1, <4>2 DEF SignalInv
    <3> QED BY <3>1, <3>2
  <2>2. ASSUME NEW v \in Works, work'[v].wait # 0, work'[v].state = "waiting_external"
        PROVE  signal'[work'[v].wait] # "pending"
    <3>1. ~Waits!Waking(v, out) /\ work'[v] = work[v]
      BY <1>4, <2>2
    <3> DEFINE b == work[v].wait
    <3>2. b \in Waits!Used /\ waits[b].work = v /\ b \in Waits!Wait
      BY <2>2, <3>1, WaitFacts, UsedIs
    <3>3. ~(b \in DOMAIN out /\ Waits!Delivers(out[b]))
      BY <2>2, <3>1, <3>2 DEF Waits!Waking
    <3>4. signal'[b] = signal[b]
      BY <1>3, <3>2, <3>3
    <3>5. signal[b] # "pending"
      BY <1>2, <2>2, <3>1 DEF SignalInv, Waits!SignalWakes
    <3> QED BY <3>1, <3>4, <3>5
  <2> QED BY <2>1, <2>2 DEF SignalInv, Waits!SignalWakes
<1>8. MatcherInv'
  BY <1>2 DEF MatcherInv
<1>9. Passes
  BY WaitFacts DEF Passes
<1>10. \E k \in 0 .. MaxWaits : Waits!Used' = 1 .. k
  BY <1>1, SameUsed
<1> QED BY <1>1, <1>4, <1>6, <1>7, <1>8, <1>9, <1>10, StepKeeps

(* What the writer of an event leaves active has been matched by it.       *)
LEMMA EventHandled ==
  ASSUME Waits!WaitAssumption, WaitInv, generation' = generation, NEW n \in Waits!Event,
         n \in DOMAIN events', events'[n] \in Events,
         NEW out, out = [b \in Waits!Active |-> Waits!EventVerdict(b, waits[b].matched, n, events'[n])],
         Waits!Apply(out)
  PROVE  /\ DOMAIN out = Waits!Active /\ \A b \in DOMAIN out : Good(b, out[b])
         /\ \A b \in Waits!Active \cap Waits!Active' :
              (events'[n].eligible /\ waits[b].gen = generation' /\ n > waits[b].after)
                => \A i \in DOMAIN waits[b].conds :
                     Waits!Fits(waits[b].conds[i], events'[n]) => waits'[b].matched[i].kind = events'[n].kind
<1>1. DOMAIN out = Waits!Active
      /\ \A b \in Waits!Active : out[b] = Waits!EventVerdict(b, waits[b].matched, n, events'[n])
  OBVIOUS
<1>2. \A b \in DOMAIN out : Good(b, out[b])
  BY <1>1, EventGood
<1>3. ASSUME NEW b \in Waits!Active \cap Waits!Active', events'[n].eligible, waits[b].gen = generation',
             n > waits[b].after, NEW i \in DOMAIN waits[b].conds, Waits!Fits(waits[b].conds[i], events'[n])
      PROVE  waits'[b].matched[i].kind = events'[n].kind
  <2>1. /\ out[b].reason = "partial" => waits'[b].matched = out[b].matched
        /\ out[b].reason \notin {"keep", "partial"} => waits'[b].status # "active"
    BY <1>1, <1>2, AppliedMoves
  <2>2. out[b].reason \in {"keep", "partial"}
    BY <2>1, UsedIs
  <2>3. /\ out[b].reason = "keep" => waits[b].matched[i].kind = events'[n].kind
        /\ out[b].reason = "partial" => out[b].matched[i].kind = events'[n].kind
    BY <1>1, <1>3, EventGood
  <2>4. CASE out[b].reason = "keep"
    <3>1. waits'[b] = Waits!Written(waits[b], out[b])
      BY <1>1, UsedIs DEF Waits!Apply
    <3>2. waits'[b] = waits[b]
      BY <2>4, <3>1 DEF Waits!Written
    <3> QED BY <2>3, <2>4, <3>2
  <2>5. CASE out[b].reason = "partial"
    BY <2>1, <2>3, <2>5
  <2> QED BY <2>2, <2>4, <2>5
<1> QED BY <1>1, <1>2, <1>3

LEMMA StepPublish ==
  ASSUME Waits!WaitAssumption, WaitInv, NEW p \in Plugins, NEW ok \in BOOLEAN, Waits!Publish(p, ok)
  PROVE  WaitInv' /\ \A b \in Waits!Used : Moves(b)
<1> DEFINE e == [kind |-> "plugin_event", plugin |-> p, eligible |-> ok]
           n == Len(events) + 1
           out == [b \in Waits!Active |-> Waits!EventVerdict(b, waits[b].matched, n, e)]
<1>1. e \in Events
  BY DEF Events
<1>2. /\ Waits!Room /\ events' = Append(events, e) /\ Waits!Apply(out)
      /\ matcher' = matcher /\ poller' = poller /\ generation' = generation /\ asked' = asked
      /\ clock' = clock /\ runs' = runs
  BY DEF Waits!Publish
<1> HIDE DEF e
<1>3. /\ events' \in Seq(Events) /\ Len(events') <= MaxEvents /\ Len(events') = n
      /\ DOMAIN events' = 1 .. n /\ events'[n] = e
      /\ \A id \in DOMAIN events : events'[id] = events[id]
      /\ n \in Waits!Event
  BY <1>1, <1>2, Appended
<1>4. DOMAIN events = 1 .. Len(events) /\ Len(events) \in Nat
  BY WaitFacts
<1>5. n \in DOMAIN events'
  BY <1>3, <1>4
<1>6. /\ DOMAIN out = Waits!Active /\ \A b \in DOMAIN out : Good(b, out[b])
      /\ \A b \in Waits!Active \cap Waits!Active' :
           (events'[n].eligible /\ waits[b].gen = generation' /\ n > waits[b].after)
             => \A i \in DOMAIN waits[b].conds :
                  Waits!Fits(waits[b].conds[i], events'[n]) => waits'[b].matched[i].kind = events'[n].kind
  <2>1. out = [b \in Waits!Active |-> Waits!EventVerdict(b, waits[b].matched, n, events'[n])]
    BY <1>3
  <2> HIDE DEF out, n
  <2> QED BY <1>1, <1>2, <1>3, <1>5, <2>1, EventHandled
<1>7. Handles
  <2> SUFFICES ASSUME NEW id \in DOMAIN events', NEW b \in Waits!Active \cap Waits!Active'
               PROVE  \/ id \in DOMAIN events /\ Waits!Handled(id)
                      \/ ~(events'[id].kind = "plugin_event" \/ matcher'[id].pc = "done")
                      \/ ~events'[id].eligible \/ waits[b].gen # generation' \/ ~(id > waits[b].after)
                      \/ \A i \in DOMAIN waits[b].conds :
                           Waits!Fits(waits[b].conds[i], events'[id])
                             => waits'[b].matched[i].kind = events'[id].kind
    BY DEF Handles
  <2>1. CASE id \in DOMAIN events
    BY <1>2, <1>3, <2>1 DEF Waits!Handled
  <2>2. CASE id = n
    BY <1>6, <2>2
  <2> QED BY <1>3, <1>4, <2>1, <2>2
<1>8. /\ asked' \in [Runs -> {"no", "pending", "consumed"}]
      /\ DOMAIN matcher' = Waits!Event /\ poller'.pc \in {"idle", "prepared"}
  BY <1>2 DEF WaitInv, WaitTypes
<1>9. /\ events' \in Seq(Events) /\ Len(events') <= MaxEvents /\ Len(events') >= Len(events)
      /\ \A id \in DOMAIN events : id \in DOMAIN events' /\ events'[id] = events[id]
  BY <1>3, <1>4
<1>10. \A c \in Waits!Event : matcher'[c] = matcher[c]
  BY <1>2
<1> HIDE DEF out, n
<1>11. DOMAIN out \subseteq Waits!Active /\ \A b \in DOMAIN out : Good(b, out[b])
  BY <1>6
<1> QED BY <1>2, <1>7, <1>8, <1>9, <1>10, <1>11, ApplyStep

LEMMA StepMatchWrite ==
  ASSUME Waits!WaitAssumption, WaitInv, NEW n \in Waits!Event, Waits!MatchWrite(n)
  PROVE  WaitInv' /\ \A b \in Waits!Used : Moves(b)
<1>1. /\ matcher[n].pc = "prepared" /\ clock' = clock /\ generation' = generation /\ events' = events
      /\ runs' = runs /\ asked' = asked /\ poller' = poller
  BY DEF Waits!MatchWrite
<1>2. n \in DOMAIN events
  BY <1>1 DEF WaitInv, MatcherInv
<1>3. WaitTypes
  BY DEF WaitInv
<1>4. CASE /\ ~Waits!Current(n) /\ matcher' = [matcher EXCEPT ![n] = [pc |-> "idle", rows |-> <<>>]]
           /\ work' = work /\ waits' = waits /\ signal' = signal
  BY <1>1, <1>4, StepReaders
<1>5. CASE /\ Waits!Current(n)
           /\ Waits!Apply([b \in Waits!Active |->
                              Waits!EventVerdict(b, matcher[n].rows[b].matched, n, events[n])])
           /\ matcher' = [matcher EXCEPT ![n] = [pc |-> "done", rows |-> <<>>]]
  <2> DEFINE out == [b \in Waits!Active |-> Waits!EventVerdict(b, waits[b].matched, n, events'[n])]
  <2>1. \A b \in Waits!Active : matcher[n].rows[b].matched = waits[b].matched
    BY <1>5 DEF Waits!Current, Waits!Rows, Waits!Row
  <2>2. Waits!Apply(out)
    <3>1. out = [b \in Waits!Active |-> Waits!EventVerdict(b, matcher[n].rows[b].matched, n, events[n])]
      BY <1>1, <2>1
    <3> QED BY <1>5, <3>1
  <2>3. events'[n] \in Events /\ n \in DOMAIN events'
    BY <1>1, <1>2, WaitFacts
  <2>4. /\ DOMAIN out = Waits!Active /\ \A b \in DOMAIN out : Good(b, out[b])
        /\ \A b \in Waits!Active \cap Waits!Active' :
             (events'[n].eligible /\ waits[b].gen = generation' /\ n > waits[b].after)
               => \A i \in DOMAIN waits[b].conds :
                    Waits!Fits(waits[b].conds[i], events'[n]) => waits'[b].matched[i].kind = events'[n].kind
    BY <1>1, <2>2, <2>3, EventHandled
  <2>5. /\ DOMAIN matcher' = Waits!Event
        /\ \A e \in Waits!Event : matcher'[e] = matcher[e] \/ (matcher'[e].pc = "done" /\ e \in DOMAIN events)
        /\ \A e \in Waits!Event \ {n} : matcher'[e] = matcher[e]
    <3>1. DOMAIN matcher = Waits!Event /\ matcher' = [matcher EXCEPT ![n] = [pc |-> "done", rows |-> <<>>]]
      BY <1>3, <1>5 DEF WaitTypes
    <3>2. matcher'[n].pc = "done" /\ DOMAIN matcher' = Waits!Event
          /\ \A e \in Waits!Event \ {n} : matcher'[e] = matcher[e]
      BY ONLY <3>1, n \in Waits!Event
    <3> QED BY <1>2, <3>2
  <2>6. Handles
    <3> SUFFICES ASSUME NEW id \in DOMAIN events', NEW b \in Waits!Active \cap Waits!Active'
                 PROVE  \/ id \in DOMAIN events /\ Waits!Handled(id)
                        \/ ~(events'[id].kind = "plugin_event" \/ matcher'[id].pc = "done")
                        \/ ~events'[id].eligible \/ waits[b].gen # generation' \/ ~(id > waits[b].after)
                        \/ \A i \in DOMAIN waits[b].conds :
                             Waits!Fits(waits[b].conds[i], events'[id])
                               => waits'[b].matched[i].kind = events'[id].kind
      BY DEF Handles
    <3>1. id \in Waits!Event
      BY <1>1, <1>3, WaitFacts DEF WaitTypes, Waits!Event, Waits!WaitAssumption
    <3>2. CASE id = n
      BY <2>4, <3>2
    <3>3. CASE id # n
      BY <1>1, <2>5, <3>1, <3>3 DEF Waits!Handled
    <3> QED BY <3>2, <3>3
  <2>7. /\ asked' \in [Runs -> {"no", "pending", "consumed"}] /\ poller'.pc \in {"idle", "prepared"}
        /\ events' \in Seq(Events) /\ Len(events') <= MaxEvents /\ Len(events') >= Len(events)
        /\ \A id \in DOMAIN events : id \in DOMAIN events' /\ events'[id] = events[id]
    BY <1>1, <1>3, WaitFacts DEF WaitTypes
  <2> HIDE DEF out
  <2> QED BY <1>1, <2>2, <2>4, <2>5, <2>6, <2>7, ApplyStep
<1> QED BY <1>4, <1>5 DEF Waits!MatchWrite

LEMMA StepPollRead ==
  ASSUME Waits!WaitAssumption, WaitInv, Waits!PollRead
  PROVE  WaitInv' /\ \A b \in Waits!Used : Moves(b)
<1>1. poller'.pc = "prepared"
  BY DEF Waits!PollRead
<1> QED BY <1>1, StepReaders DEF Waits!PollRead

LEMMA StepPollWrite ==
  ASSUME Waits!WaitAssumption, WaitInv, Waits!PollWrite
  PROVE  WaitInv' /\ \A b \in Waits!Used : Moves(b)
<1>1. /\ clock' = clock /\ generation' = generation /\ events' = events
      /\ runs' = runs /\ asked' = asked /\ matcher' = matcher /\ poller' = Waits!IdlePoll
  BY DEF Waits!PollWrite
<1>2. poller'.pc \in {"idle", "prepared"}
  BY <1>1 DEF Waits!IdlePoll
<1>3. CASE work' = work /\ waits' = waits /\ signal' = signal
  BY <1>1, <1>2, <1>3, StepReaders
<1>4. CASE Waits!RunsCurrent /\ Waits!Polled(Waits!Unmoved)
  <2> DEFINE out == [b \in Waits!Unmoved |->
                       Waits!Checked(b, Waits!ObserveDue(b, poller.rows[b], poller.runs))]
  <2>1. Waits!Apply(out) /\ DOMAIN out = Waits!Unmoved
    BY <1>4 DEF Waits!Polled
  <2>2. \A b \in Waits!Unmoved : b \in Waits!Active /\ waits[b].matched = poller.rows[b]
    BY DEF Waits!Unmoved
  <2>3. ASSUME NEW b \in DOMAIN out PROVE Good(b, out[b])
    <3>1. b \in Waits!Active /\ waits[b].matched = poller.rows[b]
      BY <2>1, <2>2
    <3>2. \A r \in DOMAIN poller.runs : poller.runs[r] = runs[r]
      BY <1>4 DEF Waits!RunsCurrent
    <3>3. Good(b, Waits!ObserveDue(b, poller.rows[b], poller.runs))
      BY <3>1, <3>2, DueGood
    <3>4. out[b] = Waits!Checked(b, Waits!ObserveDue(b, poller.rows[b], poller.runs))
      BY <2>1
    <3> QED BY <3>3, <3>4, CheckedGood
  <2>4. Handles
    BY <1>1 DEF Handles, Waits!Handled
  <2>5. /\ asked' \in [Runs -> {"no", "pending", "consumed"}] /\ DOMAIN matcher' = Waits!Event
        /\ events' \in Seq(Events) /\ Len(events') <= MaxEvents /\ Len(events') >= Len(events)
        /\ \A id \in DOMAIN events : id \in DOMAIN events' /\ events'[id] = events[id]
        /\ \A e \in Waits!Event : matcher'[e] = matcher[e]
    BY <1>1, WaitFacts DEF WaitInv, WaitTypes
  <2>6. DOMAIN out \subseteq Waits!Active
    BY <2>1, <2>2
  <2> HIDE DEF out
  <2> QED BY <1>1, <1>2, <2>1, <2>3, <2>4, <2>5, <2>6, ApplyStep
<1> QED BY <1>3, <1>4 DEF Waits!PollWrite

LEMMA StepAsks ==
  ASSUME Waits!WaitAssumption, WaitInv, NEW r \in Runs, Waits!Asks(r)
  PROVE  WaitInv' /\ \A b \in Waits!Used : Moves(b)
<1> DEFINE v == Owner[r]
<1>1. /\ asked' = [asked EXCEPT ![r] = "pending"] /\ Waits!SignalExternalAction(v, r)
      /\ clock' = clock /\ generation' = generation /\ events' = events
      /\ runs' = runs /\ matcher' = matcher /\ poller' = poller
  BY DEF Waits!Asks
<1>2. v \in Works
  BY DEF Waits!WaitAssumption
<1>3. WaitTypes
  BY DEF WaitInv
<1>4. /\ asked' \in [Runs -> {"no", "pending", "consumed"}]
      /\ signal \in [Waits!Wait -> {"none", "pending", "consumed", "cancelled"}]
      /\ work \in [Works -> [state : WorkStates, gen : Nat, wait : 0 .. MaxWaits]]
  BY <1>1, <1>3 DEF WaitTypes
<1> HIDE DEF v
<1>5. CASE /\ waits' = waits /\ signal' = signal
           /\ work' = work \/ work' = [work EXCEPT ![v].state = "queued"]
  <2>1. "queued" \in WorkStates
    BY DEF WorkStates
  <2>2. /\ work' \in [Works -> [state : WorkStates, gen : Nat, wait : 0 .. MaxWaits]]
        /\ \A u \in Works : work'[u].wait = work[u].wait
                            /\ work'[u].state \in {"queued", work[u].state}
    BY <1>2, <1>4, <1>5, <2>1
  <2> QED BY <1>1, <1>4, <1>5, <2>2, WorkStep
<1>6. CASE Waits!Apply([b \in {x \in Waits!ActiveOf(v) : Waits!NamesRun(waits[x], r)} |->
                           Waits!Checked(b, Waits!Verdict("requires_action", waits[b].matched))])
  <2> DEFINE S == {x \in Waits!ActiveOf(v) : Waits!NamesRun(waits[x], r)}
             out == [b \in S |-> Waits!Checked(b, Waits!Verdict("requires_action", waits[b].matched))]
  <2>1. Waits!Apply(out) /\ DOMAIN out = S
    BY <1>6
  <2>2. S \subseteq Waits!Active
    BY DEF Waits!ActiveOf
  <2>3. ASSUME NEW b \in DOMAIN out PROVE Good(b, out[b])
    <3>1. b \in Waits!Active
      BY <2>1, <2>2
    <3>2. /\ Waits!Verdict("requires_action", waits[b].matched).reason = "requires_action"
          /\ Waits!Verdict("requires_action", waits[b].matched).matched = waits[b].matched
      BY DEF Waits!Verdict
    <3>3. Good(b, Waits!Verdict("requires_action", waits[b].matched))
      BY <3>1, <3>2, StandingEvidence DEF Good
    <3>4. out[b] = Waits!Checked(b, Waits!Verdict("requires_action", waits[b].matched))
      BY <2>1
    <3> QED BY <3>3, <3>4, CheckedGood
  <2>4. Handles
    BY <1>1 DEF Handles, Waits!Handled
  <2>5. /\ DOMAIN matcher' = Waits!Event /\ poller'.pc \in {"idle", "prepared"}
        /\ events' \in Seq(Events) /\ Len(events') <= MaxEvents /\ Len(events') >= Len(events)
        /\ \A id \in DOMAIN events : id \in DOMAIN events' /\ events'[id] = events[id]
        /\ \A e \in Waits!Event : matcher'[e] = matcher[e]
    BY <1>1, <1>3, WaitFacts DEF WaitTypes
  <2>6. DOMAIN out \subseteq Waits!Active
    BY <2>1, <2>2
  <2> HIDE DEF out
  <2> QED BY <1>1, <1>4, <2>1, <2>3, <2>4, <2>5, <2>6, ApplyStep
<1> QED BY <1>1, <1>5, <1>6 DEF Waits!SignalExternalAction

-----------------------------------------------------------------------------
(* Registration.  The identifiers are handed out in order.                 *)
LEMMA WaitSize ==
  ASSUME NEW S PROVE Waits!Cardinality(S) = Cardinality(S)
BY DEF Waits!Cardinality, Cardinality

LEMMA NextWait ==
  ASSUME NEW k \in 0 .. MaxWaits, MaxWaits \in Nat, Waits!Used = 1 .. k
  PROVE  Waits!Cardinality(Waits!Used) + 1 = k + 1
<1>1. Cardinality(1 .. k) = IF 1 > k THEN 0 ELSE k - 1 + 1
  BY FS_Interval
<1>2. Waits!Cardinality(Waits!Used) = Cardinality(1 .. k)
  BY WaitSize
<1> QED BY <1>1, <1>2

LEMMA NewBinding ==
  ASSUME Waits!WaitAssumption, WaitInv, NEW v \in Works, NEW q \in Requests, NEW x, x = Waits!Binding(v, q)
  PROVE  /\ IsBinding(x) /\ x = Row("active", "none", x, x.matched)
         /\ x.work = v /\ x.gen = generation /\ x.after = Len(events)
         /\ ~Waits!Done(x.mode, x.matched)
<1> DEFINE n == Len(q.conds)
           cs == [i \in DOMAIN q.conds |-> Waits!Normalized(q.conds[i])]
           ms == [i \in DOMAIN q.conds |-> Waits!Unmatched]
<1>1. /\ q.mode \in {"any", "all"} /\ q.deadline \in Nat
      /\ q.conds \in Seq({q.conds[i] : i \in DOMAIN q.conds}) /\ q.conds # <<>>
      /\ \A i \in DOMAIN q.conds :
           /\ q.conds[i] = [kind |-> q.conds[i].kind, arg |-> q.conds[i].arg]
           /\ q.conds[i].kind \in Waits!Kinds
           /\ q.conds[i].kind = "time_due" => q.conds[i].arg \in Nat
  BY DEF Waits!WaitAssumption, Waits!Acceptable
<1>2. DOMAIN q.conds = 1 .. n /\ n \in Nat /\ n # 0
  BY <1>1, LenProperties, EmptySeq
<1>3. /\ x.status = "active" /\ x.why = "none" /\ x.work = v /\ x.gen = generation /\ x.mode = q.mode
      /\ x.conds = cs /\ x.deadline = q.deadline /\ x.after = Len(events) /\ x.matched = ms
      /\ x = [status |-> "active", why |-> "none", work |-> v, gen |-> generation, mode |-> q.mode,
              conds |-> cs, deadline |-> q.deadline, after |-> Len(events), matched |-> ms]
  BY DEF Waits!Binding
<1>4. \A i \in 1 .. n : IsCondition(cs[i])
  <2> SUFFICES ASSUME NEW i \in 1 .. n PROVE IsCondition(cs[i])
    OBVIOUS
  <2> DEFINE c == q.conds[i]
  <2>1. /\ c = [kind |-> c.kind, arg |-> c.arg] /\ c.kind \in Waits!Kinds
        /\ c.kind = "time_due" => c.arg \in Nat
    BY <1>1, <1>2
  <2>2. cs[i] = IF c.kind = "time_due" THEN [c EXCEPT !.arg = clock + c.arg] ELSE c
    BY <1>2 DEF Waits!Normalized
  <2>3. clock \in Nat
    BY WaitFacts
  <2> HIDE DEF c, cs
  <2>4. CASE c.kind = "time_due"
    <3>1. cs[i] = [c EXCEPT !.arg = clock + c.arg]
      BY <2>2, <2>4
    <3>2. cs[i].kind = c.kind /\ cs[i].arg = clock + c.arg
      BY <2>1, <3>1
    <3> QED BY <2>1, <2>3, <2>4, <3>2 DEF IsCondition
  <2>5. CASE c.kind # "time_due"
    BY <2>1, <2>2, <2>5 DEF IsCondition
  <2> QED BY <2>4, <2>5
<1>5. DOMAIN cs = 1 .. n /\ DOMAIN ms = 1 .. n /\ \A i \in 1 .. n : ms[i] = Waits!Unmatched
  BY <1>2
<1>6. cs \in Seq({cs[i] : i \in DOMAIN cs}) /\ Len(cs) = n
  <2>1. cs \in [1 .. n -> {cs[i] : i \in DOMAIN cs}]
    BY <1>2, <1>5
  <2> QED BY <1>2, <2>1, MappedSeq
<1>7. ms \in Seq(Waits!Proofs) /\ Len(ms) = n
  <2>1. Waits!Unmatched \in Waits!Proofs
    BY DEF Waits!Unmatched, Waits!Proof, Waits!Proofs, Waits!WaitAssumption
  <2>2. ms \in [1 .. n -> Waits!Proofs]
    BY <1>2, <2>1
  <2> QED BY <1>2, <2>2, MappedSeq
<1> HIDE DEF cs, ms, n
<1>8. x = Row("active", "none", x, x.matched)
  BY <1>3 DEF Row
<1>9. generation \in Nat /\ Len(events) \in Nat
  BY WaitFacts
<1>10. IsBinding(x)
  BY <1>1, <1>3, <1>4, <1>5, <1>6, <1>7, <1>8, <1>9 DEF IsBinding
<1>11. ~Waits!Done(x.mode, x.matched)
  <2>1. 1 \in 1 .. n
    BY <1>2
  <2> QED BY <1>1, <1>3, <1>5, <2>1 DEF Waits!Done
<1> QED BY <1>3, <1>8, <1>10, <1>11

LEMMA InterruptedBinding ==
  ASSUME NEW y, IsBinding(y), NEW z, z = [y EXCEPT !.status = "delivered", !.why = "requires_action"]
  PROVE  /\ IsBinding(z) /\ z.status = "delivered" /\ z.work = y.work /\ z.gen = y.gen /\ z.after = y.after
<1>1. y = Row(y.status, y.why, y, y.matched)
  BY DEF IsBinding
<1>2. z = Row("delivered", "requires_action", y, y.matched)
  BY ONLY <1>1, z = [y EXCEPT !.status = "delivered", !.why = "requires_action"] DEF Row
<1>3. /\ z.status = "delivered" /\ z.why = "requires_action" /\ z.work = y.work /\ z.gen = y.gen
      /\ z.mode = y.mode /\ z.conds = y.conds /\ z.deadline = y.deadline /\ z.after = y.after
      /\ z.matched = y.matched
  BY <1>2, RowFields
<1>4. z = Row(z.status, z.why, z, z.matched)
  BY <1>2, <1>3 DEF Row
<1>5. IsBinding(z)
  BY ONLY IsBinding(y), <1>3, <1>4 DEF IsBinding, Resolved
<1> QED BY <1>3, <1>5

LEMMA StepRegister ==
  ASSUME Waits!WaitAssumption, WaitInv, NEW v \in Works, NEW q \in Requests, Waits!Register(v, q)
  PROVE  WaitInv' /\ \A b \in Waits!Used : Moves(b)
<1> DEFINE n == Waits!Cardinality(Waits!Used) + 1
           y == Waits!Binding(v, q)
           hit == \E r \in Runs : asked[r] = "pending" /\ Owner[r] = v /\ Waits!NamesRun(y, r)
           z == IF hit THEN [y EXCEPT !.status = "delivered", !.why = "requires_action"] ELSE y
<1>1. /\ Waits!Holds(v) /\ n \in Waits!Wait
      /\ signal' = [signal EXCEPT ![n] = IF hit THEN "pending" ELSE "none"]
      /\ work' = [work EXCEPT ![v].wait = n]
      /\ clock' = clock /\ generation' = generation /\ events' = events /\ runs' = runs
      /\ asked' = asked /\ matcher' = matcher /\ poller' = poller
  BY DEF Waits!Register
<1>2. waits' = [Waits!Superseded(v) EXCEPT ![n] = z]
  BY DEF Waits!Register
<1>3. PICK k \in 0 .. MaxWaits : Waits!Used = 1 .. k
  BY DEF WaitInv, BindingInv
<1>4. MaxWaits \in Nat
  BY DEF Waits!WaitAssumption
<1>5. n = k + 1
  BY <1>3, <1>4, NextWait
<1>6. n \notin Waits!Used /\ waits[n].status = "absent" /\ k + 1 \in 0 .. MaxWaits
  BY <1>1, <1>3, <1>4, <1>5, UsedIs DEF Waits!Wait
<1>7. /\ IsBinding(y) /\ y.work = v /\ y.gen = generation /\ y.after = Len(events)
      /\ ~Waits!Done(y.mode, y.matched) /\ y.status = "active"
  <2>1. /\ IsBinding(y) /\ y = Row("active", "none", y, y.matched)
        /\ y.work = v /\ y.gen = generation /\ y.after = Len(events) /\ ~Waits!Done(y.mode, y.matched)
    BY NewBinding
  <2>2. y.status = "active"
    BY DEF Waits!Binding
  <2> QED BY <2>1, <2>2
<1> HIDE DEF y, n
<1>8. /\ IsBinding(z) /\ z.work = v /\ z.gen = generation /\ z.after = Len(events)
      /\ z.status \in {"active", "delivered"} /\ (z.status = "active" => z = y /\ ~hit)
      /\ hit => z.status = "delivered"
  <2>1. CASE hit
    <3>1. z = [y EXCEPT !.status = "delivered", !.why = "requires_action"]
      BY <2>1
    <3> HIDE DEF z, hit
    <3> QED BY <1>7, <2>1, <3>1, InterruptedBinding
  <2>2. CASE ~hit
    BY <1>7, <2>2
  <2> QED BY <2>1, <2>2
<1> HIDE DEF z, hit
<1>9. /\ waits'[n] = z /\ DOMAIN waits' = Waits!Wait
      /\ \A b \in Waits!Wait \ {n} :
           waits'[b] = IF b \in Waits!ActiveOf(v) THEN [waits[b] EXCEPT !.status = "cancelled"] ELSE waits[b]
  BY <1>1, <1>2 DEF Waits!Superseded
<1>10. WaitTypes /\ SignalInv /\ MatcherInv
  BY DEF WaitInv
<1>11. /\ signal'[n] = IF hit THEN "pending" ELSE "none"
       /\ \A b \in Waits!Wait \ {n} : signal'[b] = signal[b]
       /\ signal' \in [Waits!Wait -> {"none", "pending", "consumed", "cancelled"}]
  BY <1>1, <1>10 DEF WaitTypes
<1>12. ASSUME NEW b \in Waits!Used PROVE Moves(b) /\ b # n /\ b \in Waits!Wait
  <2>1. b # n /\ b \in Waits!Wait
    BY <1>6, UsedIs
  <2>2. waits'[b] = waits[b] \/ (waits[b].status = "active" /\ waits'[b] = [waits[b] EXCEPT !.status = "cancelled"])
    BY <1>9, <2>1, UsedIs DEF Waits!ActiveOf
  <2> QED BY <1>11, <2>1, <2>2, CancelledMoves
<1>13. ASSUME NEW b \in Waits!Wait \ Waits!Used, b # n PROVE waits'[b] = waits[b]
  BY <1>9, <1>13, UsedIs DEF Waits!ActiveOf
<1>14. ASSUME NEW c \in Waits!Used, waits[c].work = v PROVE waits'[c].status # "active"
  <2>1. CASE waits[c].status = "active"
    <3>1. c \in Waits!ActiveOf(v)
      BY <1>14, <2>1, UsedIs DEF Waits!ActiveOf
    <3>2. waits'[c] = [waits[c] EXCEPT !.status = "cancelled"]
      BY <1>9, <1>12, <3>1
    <3>3. waits[c] = Row(waits[c].status, waits[c].why, waits[c], waits[c].matched)
      BY WaitFacts DEF IsBinding
    <3>4. [waits[c] EXCEPT !.status = "cancelled"] = Row("cancelled", waits[c].why, waits[c], waits[c].matched)
      BY <3>3, RowIs
    <3>5. waits'[c].status = "cancelled"
      BY <3>2, <3>4, RowFields
    <3> QED BY <3>5
  <2>2. CASE waits[c].status # "active"
    BY <1>12, <2>2 DEF Moves
  <2> QED BY <2>1, <2>2
<1>15. IsNew(n)
  <2>1. \A c \in Waits!Wait : waits[c].status = "absent" /\ waits'[c].status # "absent" => c = n
    BY <1>13, UsedIs
  <2> QED BY <1>1, <1>6, <1>7, <1>8, <1>9, <1>14, <2>1 DEF IsNew
<1>16. /\ work' \in [Works -> [state : WorkStates, gen : Nat, wait : 0 .. MaxWaits]]
       /\ work'[v].wait = n /\ work'[v].state = work[v].state
       /\ \A u \in Works \ {v} : work'[u] = work[u]
  <2>1. n \in 0 .. MaxWaits
    BY <1>5, <1>6
  <2>2. work \in [Works -> [state : WorkStates, gen : Nat, wait : 0 .. MaxWaits]]
    BY <1>10 DEF WaitTypes
  <2> QED BY ONLY v \in Works, <1>1, <2>1, <2>2
<1>17. WaitTypes'
  BY <1>1, <1>9, <1>10, <1>11, <1>16 DEF WaitTypes
<1>18. SignalInv'
  <2>1. ASSUME NEW b \in Waits!Wait, signal'[b] # "none" PROVE waits'[b].status \in {"delivered", "expired"}
    <3>1. CASE b = n
      BY <1>8, <1>9, <1>11, <2>1, <3>1
    <3>2. CASE b # n
      <4>1. waits[b].status \in {"delivered", "expired"}
        BY <1>10, <1>11, <2>1, <3>2 DEF SignalInv
      <4>2. b \in Waits!Used
        BY <4>1, UsedIs
      <4>3. waits'[b] = waits[b]
        BY <1>12, <4>1, <4>2 DEF Moves
      <4> QED BY <4>1, <4>3
    <3> QED BY <3>1, <3>2
  <2>2. ASSUME NEW u \in Works, work'[u].wait # 0, work'[u].state = "waiting_external"
        PROVE  signal'[work'[u].wait] # "pending"
    <3>1. u # v
      BY <1>1, <1>16, <2>2 DEF Waits!Holds
    <3>2. work'[u] = work[u] /\ work[u].wait \in Waits!Used
      BY <1>16, <2>2, <3>1, WaitFacts
    <3>3. signal'[work[u].wait] = signal[work[u].wait]
      BY <1>11, <1>12, <3>2
    <3> QED BY <1>10, <2>2, <3>2, <3>3 DEF SignalInv, Waits!SignalWakes
  <2> QED BY <2>1, <2>2 DEF SignalInv, Waits!SignalWakes
<1>19. MatcherInv' /\ Passes /\ Handles
  <2>1. MatcherInv'
    BY <1>1, <1>10 DEF MatcherInv
  <2>2. Passes
    BY <1>1, WaitFacts DEF Passes
  <2>3. Handles
    BY <1>1 DEF Handles, Waits!Handled
  <2> QED BY <2>1, <2>2, <2>3
<1>20. Waits!Used' = 1 .. k + 1
  <2>1. ASSUME NEW b \in Waits!Used PROVE b \in Waits!Used'
    <3>1. IsBinding(waits'[b])
      BY <1>12, MovedBinding
    <3> QED BY <1>12, <3>1, UsedIs DEF IsBinding, Resolved
  <2>2. n \in Waits!Used'
    BY <1>1, <1>8, <1>9, UsedIs
  <2>3. ASSUME NEW b \in Waits!Used' PROVE b \in Waits!Used \/ b = n
    BY <1>13, UsedIs
  <2>4. Waits!Used' = (1 .. k) \cup {k + 1}
    BY <1>3, <1>5, <2>1, <2>2, <2>3
  <2> QED BY <2>4
<1>21. \A u \in Works : work'[u].wait # 0 =>
             \/ work'[u].wait = work[u].wait
             \/ IsNew(work'[u].wait) /\ work'[u].wait \in Waits!Wait /\ waits'[work'[u].wait].work = u
  BY <1>1, <1>8, <1>9, <1>15, <1>16
<1>22. \A b \in Waits!Wait \ Waits!Used : waits'[b] = waits[b] \/ IsNew(b)
  BY <1>13, <1>15
<1>23. \E j \in 0 .. MaxWaits : Waits!Used' = 1 .. j
  BY <1>6, <1>20
<1> QED BY <1>12, <1>17, <1>18, <1>19, <1>21, <1>22, <1>23, StepKeeps

-----------------------------------------------------------------------------
LEMMA WaitStart ==
  ASSUME Waits!WaitAssumption, Waits!Init
  PROVE  WaitInv
<1> USE DEF Waits!Init
<1>1. /\ \A b \in Waits!Wait : waits[b] = Waits!NoWait /\ signal[b] = "none"
      /\ \A v \in Works : work[v] = [state |-> "absent", gen |-> 0, wait |-> 0]
      /\ \A e \in Waits!Event : matcher[e].pc = "idle"
      /\ poller.pc = "idle" /\ events = <<>> /\ clock = 0 /\ generation = 1
  BY DEF Waits!IdlePoll
<1>2. \A b \in Waits!Wait : waits[b].status = "absent"
  BY <1>1 DEF Waits!NoWait
<1>3. Waits!Used = {} /\ Waits!Active = {}
  BY <1>2, UsedIs
<1>4. WaitTypes
  <2>1. clock \in 0 .. MaxTime /\ generation \in 1 .. MaxBoundaries + 1 /\ Len(events) <= MaxEvents
        /\ events \in Seq(Events)
    BY <1>1 DEF Waits!WaitAssumption
  <2>2. runs \in [Runs -> Waits!Statuses] /\ asked \in [Runs -> {"no", "pending", "consumed"}]
    BY DEF Waits!Statuses
  <2>3. work \in [Works -> [state : WorkStates, gen : Nat, wait : 0 .. MaxWaits]]
    BY DEF WorkStates, Waits!WaitAssumption
  <2>4. DOMAIN waits = Waits!Wait /\ DOMAIN matcher = Waits!Event
        /\ signal \in [Waits!Wait -> {"none", "pending", "consumed", "cancelled"}]
    OBVIOUS
  <2> QED BY <1>1, <2>1, <2>2, <2>3, <2>4 DEF WaitTypes
<1>5. BindingInv
  <2>1. Waits!Used = 1 .. 0 /\ 0 \in 0 .. MaxWaits
    BY <1>3 DEF Waits!WaitAssumption
  <2> QED BY <1>1, <1>3, <2>1 DEF BindingInv
<1>6. SignalInv /\ MatcherInv
  BY <1>1 DEF SignalInv, MatcherInv, Waits!SignalWakes
<1>7. Waits!MatchComplete /\ Waits!SatisfiedIsDelivered /\ Waits!ExpiredIsUnmet
  BY <1>3 DEF Waits!MatchComplete, Waits!SatisfiedIsDelivered, Waits!ExpiredIsUnmet
<1> QED BY <1>4, <1>5, <1>6, <1>7 DEF WaitInv

LEMMA WaitSteps ==
  ASSUME Waits!WaitAssumption, WaitInv, [Waits!Next]_(Waits!vars)
  PROVE  WaitInv' /\ \A b \in Waits!Used : Moves(b)
<1>1. CASE Waits!Next
  <2>1. CASE Waits!Owners
    BY <2>1, StepOpen, StepEnters, StepDrain, StepLetsGo, StepRegister DEF Waits!Owners
  <2>2. CASE Waits!World
    <3>1. Eligible \subseteq BOOLEAN
      BY DEF Waits!WaitAssumption
    <3> QED BY <2>2, <3>1, StepMessage, StepPublish, StepAsks, StepWorld, StepHardBoundary DEF Waits!World
  <2>3. CASE Waits!Matchers
    BY <2>3, StepMatchRead, StepMatchWrite DEF Waits!Matchers
  <2>4. CASE Waits!Poller
    BY <2>4, StepPollRead, StepPollWrite DEF Waits!Poller
  <2> QED BY <1>1, <2>1, <2>2, <2>3, <2>4 DEF Waits!Next
<1>2. CASE UNCHANGED Waits!vars
  <2>1. /\ waits' = waits /\ work' = work /\ signal' = signal /\ clock' = clock /\ generation' = generation
        /\ events' = events /\ runs' = runs /\ asked' = asked /\ matcher' = matcher /\ poller' = poller
    BY <1>2 DEF Waits!vars
  <2>2. poller'.pc \in {"idle", "prepared"}
    BY <2>1 DEF WaitInv, WaitTypes
  <2> QED BY <2>1, <2>2, StepReaders
<1> QED BY <1>1, <1>2

(* What the invariant and the steps say of the properties.                 *)
LEMMA WaitTells ==
  ASSUME Waits!WaitAssumption, WaitInv
  PROVE  /\ Waits!TypeOK /\ Waits!MatchComplete /\ Waits!SatisfiedIsDelivered
         /\ Waits!SignalWakes /\ Waits!ExpiredIsUnmet
<1>1. WaitTypes /\ BindingInv /\ SignalInv
  BY DEF WaitInv
<1>2. ASSUME NEW v \in Works
      PROVE  /\ work[v].state \in Waits!Over \cup {"absent", "queued", "running", "suspended",
                                                   "waiting_user", "waiting_external"}
             /\ work[v].wait \in 0 .. MaxWaits /\ Waits!Cardinality(Waits!ActiveOf(v)) <= 1
  <2>1. work[v] \in [state : WorkStates, gen : Nat, wait : 0 .. MaxWaits]
    BY <1>1 DEF WaitTypes
  <2>2. \A b, c \in Waits!ActiveOf(v) : b = c
    BY <1>1 DEF BindingInv, Waits!ActiveOf
  <2>3. Cardinality(Waits!ActiveOf(v)) <= 1
    <3>1. CASE Waits!ActiveOf(v) = {}
      BY <3>1, FS_EmptySet
    <3>2. CASE Waits!ActiveOf(v) # {}
      <4>1. PICK b : b \in Waits!ActiveOf(v)
        BY <3>2
      <4>2. Waits!ActiveOf(v) = {b}
        BY <2>2, <4>1
      <4> QED BY <4>2, FS_Singleton
    <3> QED BY <3>1, <3>2
  <2> QED BY <2>1, <2>3, WaitSize DEF WorkStates
<1>3. ASSUME NEW b \in Waits!Used
      PROVE  /\ waits[b].status \in {"active", "delivered", "expired", "invalidated", "cancelled"}
             /\ waits[b].work \in Works /\ Len(waits[b].matched) = Len(waits[b].conds)
             /\ \A i \in DOMAIN waits[b].matched : waits[b].matched[i] \in Waits!Proofs
  <2>1. IsBinding(waits[b])
    BY <1>1 DEF BindingInv
  <2>2. waits[b].matched \in Seq(Waits!Proofs)
    BY <2>1 DEF IsBinding
  <2> QED BY <2>1, <2>2, ElementOfSeq, LenProperties DEF IsBinding, Resolved
<1>4. Waits!TypeOK
  BY <1>1, <1>2, <1>3 DEF Waits!TypeOK, WaitTypes
<1> QED BY <1>1, <1>4 DEF WaitInv, SignalInv

LEMMA WaitMovesTell ==
  ASSUME WaitInv, \A b \in Waits!Used : Moves(b)
  PROVE  Waits!Evidence /\ Waits!Resolution
<1>1. Waits!Evidence
  BY DEF Waits!Evidence, Moves, Evid
<1>2. Waits!Resolution
  BY DEF Waits!Resolution, Moves
<1> QED BY <1>1, <1>2

-----------------------------------------------------------------------------
(* The sum: a behaviour of it is a behaviour of every component.           *)

LEMMA StartAll ==
  ASSUME InitAll
  PROVE  Init /\ Waits!Init /\ Journal!Init
BY DEF InitAll

LEMMA StepAll ==
  ASSUME [NextAll]_all
  PROVE  [Next]_vars /\ [Waits!Next]_(Waits!vars) /\ [Journal!Next]_(Journal!vars)
<1>1. /\ UNCHANGED waiting => UNCHANGED Waits!vars
      /\ UNCHANGED journaling => UNCHANGED Journal!vars
  BY DEF waiting, journaling, Waits!vars, Journal!vars
<1>2. UNCHANGED all => UNCHANGED <<vars, waiting, journaling>>
  BY DEF all
<1> QED BY <1>1, <1>2 DEF NextAll

LEMMA StoreAssumptions ==
  Assumptions /\ Waits!WaitAssumption /\ Journal!JournalAssumption
BY StoreAssumption DEF Assumptions

(* The single writer of the sum tells the truth and is the only one: the   *)
(* theorems about DatabaseWriter hold of it (DatabaseWriter!WriterTellsTruth, *)
(* SingleWriter).                                                          *)
THEOREM WriterInSum == SpecAll => [](WriterTellsTruth /\ SingleWriter)
<1>1. SpecAll => Spec
  <2>1. InitAll => Init
    BY StartAll
  <2>2. [NextAll]_all => [Next]_vars
    BY StepAll
  <2> QED BY <2>1, <2>2, PTL DEF SpecAll, Spec
<1>2. Spec => []WriterTellsTruth /\ []SingleWriter
  BY StoreAssumptions, TellsTruth, OneWriterOwned
<1> QED BY <1>1, <1>2, PTL

(* Whatever dies, is lost or is sent again, a request tells every message  *)
(* that was given out and every call that was dispatched, and under one    *)
(* contract no provider is paid twice for requests that tell it the same   *)
(* (WorkSession, MCStore!JournalTellsAll).                                 *)
THEOREM JournalsTellAll == SpecAll => []JournalTellsAll
<1>1. InitAll => JournalInv
  BY StartAll, JournalStart, StoreAssumptions
<1>2. JournalInv /\ [NextAll]_all => JournalInv'
  BY StepAll, JournalSteps, StoreAssumptions
<1>3. JournalInv => JournalTellsAll
  <2> SUFFICES ASSUME JournalInv PROVE Journal!TypeOK /\ Journal!RequestTellsAll /\ Journal!PaidOnce
    BY DEF JournalTellsAll
  <2>1. /\ Journal!TypeOK /\ Journal!RequestTellsAll
        /\ IsFiniteSet(answered) /\ Cardinality(answered) = replies
    BY JournalTells, StoreAssumptions
  <2>2. Journal!Cardinality(answered) = Cardinality(answered)
    BY DEF Journal!Cardinality, Cardinality
  <2> QED BY <2>1, <2>2 DEF Journal!PaidOnce
<1> QED BY <1>1, <1>2, <1>3, PTL DEF SpecAll

(* No event is lost between the three writers of a binding: what is        *)
(* satisfied is delivered, its signal wakes the Work that rests on it, and *)
(* a wait expires only past its deadline and unmet                         *)
(* (apply_event, deliver_due, MCStore!WaitsMatch).                         *)
THEOREM WaitsAreMatched == SpecAll => []WaitsMatch
<1>1. InitAll => WaitInv
  BY StartAll, WaitStart, StoreAssumptions
<1>2. WaitInv /\ [NextAll]_all => WaitInv'
  BY StepAll, WaitSteps, StoreAssumptions
<1>3. WaitInv => WaitsMatch
  BY WaitTells, StoreAssumptions DEF WaitsMatch
<1> QED BY <1>1, <1>2, <1>3, PTL DEF SpecAll

(* Evidence is true when it is written and is never taken back, and a      *)
(* binding is resolved once, with one signal                               *)
(* (_deliver, MCStore!WaitsResolveOnce).                                   *)
THEOREM WaitsAreResolvedOnce == SpecAll => WaitsResolveOnce
<1>1. InitAll => WaitInv
  BY StartAll, WaitStart, StoreAssumptions
<1>2. WaitInv /\ [NextAll]_all => WaitInv'
  BY StepAll, WaitSteps, StoreAssumptions
<1>3. WaitInv /\ [NextAll]_all
        => [(instance \in {"events", "suppressed", "deadlines"}) => Waits!Evidence /\ Waits!Resolution]_all
  BY StepAll, WaitSteps, WaitMovesTell, StoreAssumptions
<1> QED BY <1>1, <1>2, <1>3, PTL DEF SpecAll, WaitsResolveOnce
=============================================================================
