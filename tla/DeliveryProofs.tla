------------------------- MODULE DeliveryProofs -------------------------
(***************************************************************************)
(* Proofs about ExternalAgents for any number of controls, milestones,     *)
(* queries and faults, for a daemon and for a child of the connector:      *)
(* types, SentOnce, ExecutedOnce, ToldOnce, ReceiptIsTrue, AnswerKept and  *)
(* the action property OrderIsKept; and about the sum MCDelivery, where    *)
(* the theorems of SocialSendProofs are taken for its three instances.     *)
(*                                                                         *)
(* Fresh says that before P has a row nothing of it exists anywhere, so    *)
(* that no reply and no event meets a server without the operation;        *)
(* RunInv ties the receipt of P to its run and to the continuation of the  *)
(* Work; SendInv and ExecInv say how far the command of an operation got;  *)
(* Evidence, on top of them, follows an end from the device to the row.    *)
(***************************************************************************)
EXTENDS MCDelivery, TLAPS

Seqs     == Nat \cup {NoSeq}
Statuses == {"absent", "none", "unconfirmed", "unknown", "queued", "running"} \cup Final
Rcpt     == [seq : Seqs, status : Statuses, text : BOOLEAN, exec : BOOLEAN, sub : BOOLEAN]
Targets  == [exec : BOOLEAN, sub : BOOLEAN]

(* The server's row, run and continuations.                                *)
Rows == row \in [{P} \cup Controls -> Rcpt] /\ bound \in BOOLEAN

RunInv ==
    /\ run \in {"none", "waiting", "completed"}
    /\ run = "none" <=> ~Known(P)
    /\ run = "completed" <=> Settled(row[P])
    /\ IF run = "completed" THEN \E s \in Statuses : told = <<s>> ELSE told = <<>>

(* What the calls hold and what is on the wire.                            *)
Process ==
    /\ call \in [Journaled \cup {Get} -> {"idle", "prepared", "sent", "answered", "done"}]
    /\ snap \in [Controls \cup {Retire} -> Rcpt]
    /\ answer \in [Controls \cup {Retire} -> Rcpt]

Wire ==
    /\ \A m \in down : m.cmd \in Journaled \cup {Get} /\ Named(m) \in Targets
    /\ up \subseteq [cmd : Journaled \cup {Get}, res : Rcpt]
    /\ \A m \in up : m.cmd # Get => m.res # Absent

(* The device: every receipt but the initial one has a place in the order, *)
(* and only a recorded operation is recovered.                             *)
Journal ==
    /\ jr \in [Journaled -> Rcpt]
    /\ jcmd \in [Journaled -> Targets]
    /\ clock \in Nat
    /\ jq \in Seq(Rcpt)
    /\ \A i \in 1 .. Len(jq) : jq[i] # Absent
    /\ recv \in Nat /\ recv <= Len(jq)
    /\ daemon \in BOOLEAN /\ native \in Natives
    /\ driver \in {"attached", "blind", "lost"}
    /\ recovery \in [seq : Int, found : Natives, get : BOOLEAN]
    /\ recovery # Idle => jr[P] # Absent

(* Before prepare() recorded P, no part of the system knows of it.         *)
Fresh ==
    ~Known(P) =>
        /\ \A c \in Journaled \cup {Get} : call[c] = "idle"
        /\ down = {} /\ up = {} /\ jq = <<>> /\ ex = {} /\ jr[P] = Absent
        /\ native = "none"

(* How often the command of P left.                                        *)
SendInv ==
    /\ sends \in {0, 1}
    /\ ~Known(P) \/ call[P] = "prepared" => sends = 0

(* How often the device carried a command out.                             *)
ExecInv ==
    /\ execs \in [Journaled -> {0, 1}]
    /\ ex \subseteq Journaled /\ asked \subseteq Cancels \cup {Retire}
    /\ \A c \in ex : jr[c] # Absent /\ (c # P => jr[c].status = "unconfirmed")
    /\ \A c \in ex : c # P /\ c \notin asked => execs[c] = 0
    /\ \A c \in Journaled : jr[c] = Absent => execs[c] = 0 /\ c \notin asked
    /\ native = "none" => execs[P] = 0
    /\ jr[P] = Absent => native = "none"

IInv == Rows /\ RunInv /\ Process /\ Wire /\ Journal /\ Fresh /\ SendInv /\ ExecInv

-----------------------------------------------------------------------------
(* The receipts.                                                           *)

(* The ids are different, and each has its place in the tables.            *)
LEMMA Names ==
    /\ P # Retire /\ P # Get /\ Retire # Get /\ P \notin Controls
    /\ Retire \notin Controls /\ Get \notin Controls
    /\ P \in Journaled /\ Retire \in Journaled /\ Controls \subseteq Journaled
    /\ Get \notin Journaled
    /\ Cancels \subseteq Controls /\ Detaches \subseteq Controls
PROOF BY ExternalAssumption DEF Retire, Get, Journaled, Controls

LEMMA Constants ==
    /\ Absent \in Rcpt /\ NoReceipt \in Rcpt /\ Refused \in Rcpt /\ Initial \in Rcpt
    /\ Unknown \in Rcpt /\ Failed \in Rcpt /\ Named(Absent) \in Targets
    /\ Absent # NoReceipt /\ Absent # Refused /\ Absent # Initial
    /\ ~Settled(Absent) /\ ~Settled(NoReceipt)
    /\ Absent.seq = NoSeq /\ Absent.status = "absent" /\ NoReceipt.seq = NoSeq
    /\ Initial.status = "unconfirmed" /\ Unknown.status = "unknown" /\ Failed.status = "failed"
PROOF
  BY DEF Absent, NoReceipt, Refused, Initial, Unknown, Failed, Receipt, Rcpt, Seqs, Statuses,
         Settled, Final, NoSeq, Named, Targets

(* A receipt that is made up.                                              *)
LEMMA ReceiptType ==
    ASSUME NEW n \in Nat, NEW s \in Statuses, NEW t \in BOOLEAN, NEW e \in BOOLEAN
    PROVE  /\ Receipt(n, s, t, e) \in Rcpt
           /\ Receipt(n, s, t, e).seq = n /\ Receipt(n, s, t, e).status = s
           /\ Receipt(n, s, t, e).text = t /\ Receipt(n, s, t, e).exec = e
PROOF BY DEF Receipt, Rcpt, Seqs

(* What a command says of its target.                                      *)
LEMMA CommandType ==
    ASSUME NEW c, NEW r \in Rcpt
    PROVE  Command(c, r).cmd = c /\ Named(Command(c, r)) = Named(r) /\ Named(r) \in Targets
PROOF BY DEF Command, Named, Targets, Rcpt

(* A receipt with a place in the order is there.                           *)
LEMMA Placed ==
    ASSUME NEW r, r.seq \in Nat
    PROVE  r # Absent
PROOF BY Constants DEF NoSeq

LEMMA FoldResult ==
    ASSUME NEW old \in Rcpt, NEW r \in Rcpt, NEW n \in Nat
    PROVE  Fold(old, r, n) \in Rcpt /\ Fold(old, r, n).seq = n
PROOF
  <1>1. CASE Settled(old)
    BY <1>1 DEF Fold, Rcpt, Seqs
  <1>2. CASE ~Settled(old)
    <2> DEFINE e == old.exec \/ r.exec
               t == old.text \/ r.text
               b == old.sub \/ r.sub
    <2>1. e \in BOOLEAN /\ t \in BOOLEAN /\ b \in BOOLEAN
      BY DEF Rcpt
    <2>2. Fold(old, r, n) = [r EXCEPT !.seq = n, !.exec = e, !.text = t, !.sub = b]
      BY <1>2 DEF Fold
    <2> HIDE DEF e, t, b
    <2> QED BY <2>1, <2>2 DEF Rcpt, Seqs
  <1> QED BY <1>1, <1>2

LEMMA OwnResult ==
    ASSUME Journal, NEW c \in Journaled, NEW r \in Rcpt, NEW n \in Nat
    PROVE  Own(c, r, n) \in Rcpt /\ Own(c, r, n).seq = n
PROOF
  <1>1. jr[c] \in Rcpt
    BY DEF Journal
  <1>2. CASE jr[c].status = "unconfirmed"
    BY <1>1, <1>2, FoldResult DEF Own
  <1>3. CASE jr[c].status # "unconfirmed"
    <2> DEFINE e == jr[c].exec \/ r.exec
               b == jr[c].sub \/ r.sub
    <2>1. e \in BOOLEAN /\ b \in BOOLEAN
      BY <1>1 DEF Rcpt
    <2>2. Own(c, r, n) = [jr[c] EXCEPT !.seq = n, !.exec = e, !.sub = b]
      BY <1>3 DEF Own
    <2> HIDE DEF e, b
    <2> QED BY <1>1, <2>1, <2>2 DEF Rcpt, Seqs
  <1> QED BY <1>2, <1>3

-----------------------------------------------------------------------------
(* The server's side of a step.                                            *)

Server == Rows /\ RunInv

LEMMA ServerSame ==
    ASSUME Server, UNCHANGED <<row, bound, run, told>>
    PROVE  Server' /\ (Known(P)' <=> Known(P)) /\ Forward
PROOF
  <1>1. row[P] \in Rcpt
    BY DEF Server, Rows
  <1>2. row'[P].seq >= row[P].seq
    BY <1>1 DEF Rcpt, Seqs, NoSeq
  <1> QED BY <1>2 DEF Server, Rows, RunInv, Known, Settled, Forward

(* A new receipt of P ends the run and tells the Work, or none of it.      *)
LEMMA ServerMove ==
    ASSUME Server, Known(P), row' \in [{P} \cup Controls -> Rcpt], row'[P] # Absent,
           bound' \in BOOLEAN,
           Settled(row[P]) => row'[P] = row[P],
           row'[P].seq >= row[P].seq,
           IF ~Settled(row[P]) /\ Settled(row'[P])
           THEN Completed(row'[P].status) ELSE UNCHANGED <<run, told>>
    PROVE  Server' /\ Known(P)' /\ Forward
PROOF
  <1>1. Known(P)' /\ Rows' /\ Forward
    BY DEF Known, Rows, Forward
  <1>2. RunInv'
    <2>1. row'[P].status \in Statuses
      BY DEF Rcpt
    <2>2. CASE ~Settled(row[P]) /\ Settled(row'[P])
      <3>1. run = "waiting" /\ told = <<>>
        BY <2>2 DEF Server, RunInv
      <3>2. run' = "completed" /\ told' = <<row'[P].status>>
        BY <2>2, <3>1 DEF Completed
      <3> QED BY <1>1, <2>1, <2>2, <3>2 DEF RunInv, Known, Settled
    <2>3. CASE ~(~Settled(row[P]) /\ Settled(row'[P]))
      <3>1. Settled(row'[P]) <=> Settled(row[P])
        BY <2>3
      <3> QED BY <1>1, <2>3, <3>1 DEF Server, RunInv, Known, Settled
    <2> QED BY <2>2, <2>3
  <1> QED BY <1>1, <1>2 DEF Server

LEMMA CommitServer ==
    ASSUME Server, Known(P), NEW c \in {P} \cup Controls, NEW r \in Rcpt, c = P => r # Absent,
           Commit(c, r)
    PROVE  Server' /\ Known(P)' /\ Forward
PROOF
  <1>1. row[P] \in Rcpt /\ row[c] \in Rcpt
    BY DEF Server, Rows
  <1>2. Project(c, r) \in Rcpt
    BY <1>1 DEF Project
  <1>3. row' = [row EXCEPT ![c] = Project(c, r)]
    BY DEF Commit
  <1>4. row' \in [{P} \cup Controls -> Rcpt]
    BY <1>2, <1>3 DEF Server, Rows
  <1>5. row'[P] = IF c = P THEN Project(P, r) ELSE row[P]
    BY <1>3 DEF Server, Rows
  <1>6. /\ Project(P, r) = row[P] \/ Project(P, r) = r
        /\ Settled(row[P]) => Project(P, r) = row[P]
        /\ Project(P, r) = r => r = row[P] \/ row[P].seq = NoSeq \/ ~(r.seq <= row[P].seq)
    BY DEF Project
  <1>7. r.seq \in Seqs /\ row[P].seq \in Seqs
    BY <1>1 DEF Rcpt
  <1>8. Project(P, r).seq >= row[P].seq
    BY <1>6, <1>7 DEF Seqs, NoSeq
  <1>9. row'[P] # Absent /\ row'[P].seq >= row[P].seq /\ (Settled(row[P]) => row'[P] = row[P])
    <2>1. row[P].seq >= row[P].seq
      BY <1>7 DEF Seqs, NoSeq
    <2> QED BY <1>5, <1>6, <1>8, <2>1 DEF Known
  <1>10. IF ~Settled(row[P]) /\ Settled(row'[P])
         THEN Completed(row'[P].status) ELSE UNCHANGED <<run, told>>
    BY <1>5 DEF Commit
  <1>11. bound' \in BOOLEAN
    BY DEF Commit, Server, Rows
  <1> QED BY <1>4, <1>9, <1>10, <1>11, ServerMove

LEMMA DetachedServer ==
    ASSUME Server, Known(P), Detached, UNCHANGED bound
    PROVE  Server' /\ Known(P)' /\ Forward
PROOF
  <1>1. CASE gone \/ Settled(row[P])
    BY <1>1, ServerSame DEF Detached
  <1>2. CASE ~(gone \/ Settled(row[P]))
    <2> DEFINE r == [row[P] EXCEPT !.status = "detached"]
    <2>1. row[P] \in Rcpt /\ bound' \in BOOLEAN
      BY DEF Server, Rows
    <2>2. row' = [row EXCEPT ![P] = r] /\ Completed("detached")
      BY <1>2 DEF Detached, Server, Rows
    <2>3. r \in Rcpt /\ r.status = "detached" /\ r.seq = row[P].seq
      BY <2>1 DEF Rcpt, Statuses, Final
    <2> HIDE DEF r
    <2>4. row'[P] = r /\ row' \in [{P} \cup Controls -> Rcpt]
      BY <2>2, <2>3 DEF Server, Rows
    <2>5. r # Absent /\ Settled(r)
      BY <2>3, Constants DEF Settled, Final
    <2>6. r.seq >= row[P].seq
      BY <2>1, <2>3 DEF Rcpt, Seqs, NoSeq
    <2> QED BY <1>2, <2>1, <2>2, <2>3, <2>4, <2>5, <2>6, ServerMove
  <1> QED BY <1>1, <1>2

-----------------------------------------------------------------------------
(* What a step of the server or of the wire must leave alone.              *)

DeviceSame == UNCHANGED <<jr, jcmd, jq, clock, recv, daemon, driver, recovery, native, asked, ex,
                          execs>>

LEMMA Assemble ==
    ASSUME IInv, Server', Known(P) => Known(P)', Process', Wire', Journal', SendInv', ExecInv',
           ~Known(P)' => Fresh'
    PROVE  IInv'
PROOF BY DEF IInv, Server, Fresh

LEMMA DeviceSameInv ==
    ASSUME IInv, DeviceSame
    PROVE  Journal' /\ ExecInv'
PROOF BY DEF IInv, DeviceSame, Journal, ExecInv

LEMMA CallInvStep ==
    ASSUME IInv, NEW c \in {P} \cup Controls, Call(c)
    PROVE  IInv' /\ Forward
PROOF
  <1>1. DeviceSame /\ UNCHANGED <<bound, down, up, answer, sends, told>>
    BY DEF Call, wire, device, journal, agent, bounds, DeviceSame
  <1>2. Journal' /\ ExecInv' /\ Wire'
    BY <1>1, DeviceSameInv DEF IInv, Wire
  <1>3. c \in Journaled /\ c # Get
    BY Names
  <1>4. CASE Replayed(c)
    <2>1. call' = [call EXCEPT ![c] = "done"] /\ UNCHANGED <<row, run, snap>>
      BY <1>4 DEF Call, Replayed
    <2>2. Known(P)
      BY <1>4 DEF Call, Replayed
    <2>3. Server' /\ Known(P)' /\ Forward
      BY <1>1, <2>1, <2>2, ServerSame DEF IInv, Server
    <2>4. Process' /\ SendInv'
      BY <1>1, <1>3, <2>1, <2>2, <2>3, Names DEF IInv, Process, SendInv
    <2> QED BY <1>2, <2>3, <2>4, Assemble
  <1>5. CASE ~Replayed(c)
    <2>1. /\ call' = [call EXCEPT ![c] = "prepared"] /\ row' = [row EXCEPT ![c] = NoReceipt]
          /\ run' = IF c = P THEN "waiting" ELSE run
          /\ snap' = IF c \in Controls THEN [snap EXCEPT ![c] = Target] ELSE snap
      BY <1>5 DEF Call
    <2>2. Target \in Rcpt
      BY DEF Target, IInv, Rows, Rcpt
    <2>3. Process'
      BY <1>1, <1>3, <2>1, <2>2 DEF IInv, Process
    <2>4. Rows'
      BY <1>1, <2>1, Constants DEF IInv, Rows
    <2>5. CASE c = P
      <3>1. ~Known(P) /\ row'[P] = NoReceipt
        BY <1>5, <2>1, <2>5 DEF Replayed, IInv, Rows
      <3>2. Known(P)' /\ RunInv' /\ Forward
        BY <1>1, <2>1, <2>5, <3>1, Constants DEF IInv, RunInv, Known, Settled, Forward
      <3>3. SendInv'
        BY <1>1, <3>1 DEF IInv, SendInv
      <3> QED BY <1>2, <2>3, <2>4, <3>2, <3>3, Assemble DEF Server
    <2>6. CASE c # P
      <3>1. Known(P) /\ row'[P] = row[P] /\ run' = run
        BY <2>1, <2>6 DEF Call, IInv, Rows
      <3>2. row[P].seq >= row[P].seq
        BY DEF IInv, Rows, Rcpt, Seqs, NoSeq
      <3>3. Known(P)' /\ RunInv' /\ Forward
        BY <1>1, <3>1, <3>2 DEF IInv, RunInv, Known, Settled, Forward
      <3>4. call'[P] = call[P]
        BY <2>1, <2>6, Names DEF IInv, Process
      <3>5. SendInv'
        BY <1>1, <3>1, <3>3, <3>4 DEF IInv, SendInv
      <3> QED BY <1>2, <2>3, <2>4, <3>3, <3>5, Assemble DEF Server
    <2> QED BY <2>5, <2>6
  <1> QED BY <1>4, <1>5

(* The command of P leaves once: "prepared" is left for good.              *)
LEMMA DispatchStep ==
    ASSUME IInv, NEW c \in {P} \cup Controls, Dispatch(c)
    PROVE  IInv' /\ Forward
PROOF
  <1>1. DeviceSame /\ UNCHANGED <<up, snap, answer>> /\ call[c] = "prepared"
    BY DEF Dispatch, device, journal, agent, DeviceSame
  <1>2. Journal' /\ ExecInv'
    BY <1>1, DeviceSameInv
  <1>3. c \in Journaled /\ c # Get
    BY Names
  <1>4. Known(P)
    BY <1>1, <1>3 DEF IInv, Fresh
  <1>5. CASE work = "active" /\ conn
    <2> DEFINE t == IF c = P THEN NoReceipt ELSE snap[c]
    <2>1. /\ call' = [call EXCEPT ![c] = "sent"]
          /\ down' = down \cup {Command(c, t)}
          /\ sends' = IF c = P THEN sends + 1 ELSE sends
          /\ UNCHANGED <<row, bound, run, told>>
      BY <1>5 DEF Dispatch
    <2>2. Server' /\ Known(P)' /\ Forward
      BY <1>4, <2>1, ServerSame DEF IInv, Server
    <2>3. t \in Rcpt
      BY Constants DEF IInv, Process
    <2> HIDE DEF t
    <2>4. Process' /\ Wire'
      BY <1>1, <1>3, <2>1, <2>3, CommandType DEF IInv, Process, Wire
    <2>5. SendInv'
      <3>1. call'[P] = IF c = P THEN "sent" ELSE call[P]
        BY <1>3, <2>1, Names DEF IInv, Process
      <3>2. c = P => sends = 0
        BY <1>1 DEF IInv, SendInv
      <3> QED BY <1>4, <2>1, <2>2, <3>1, <3>2 DEF IInv, SendInv
    <2> QED BY <1>2, <2>2, <2>4, <2>5, Assemble
  <1>6. CASE ~(work = "active" /\ conn)
    <2>1. call' = [call EXCEPT ![c] = "done"] /\ Commit(c, Refused) /\ UNCHANGED <<down, sends>>
      BY <1>6 DEF Dispatch
    <2>2. Server' /\ Known(P)' /\ Forward
      BY <1>4, <2>1, CommitServer, Constants DEF IInv, Server
    <2>3. Process' /\ Wire' /\ SendInv'
      BY <1>1, <1>3, <1>4, <2>1, <2>2, Names DEF IInv, Process, Wire, SendInv
    <2> QED BY <1>2, <2>2, <2>3, Assemble
  <1> QED BY <1>5, <1>6

LEMMA QueryStep ==
    ASSUME IInv, Query
    PROVE  IInv' /\ Forward
PROOF
  <1>1. /\ DeviceSame /\ UNCHANGED <<row, bound, run, told, up, snap, answer, sends>> /\ Known(P)
        /\ call' = [call EXCEPT ![Get] = "sent"]
        /\ down' = down \cup {Command(Get, NoReceipt)}
    BY DEF Query, server, device, journal, agent, DeviceSame
  <1>2. Journal' /\ ExecInv'
    BY <1>1, DeviceSameInv
  <1>3. Server' /\ Known(P)' /\ Forward
    BY <1>1, ServerSame DEF IInv, Server
  <1>4. Process' /\ SendInv'
    BY <1>1, <1>3, Names DEF IInv, Process, SendInv
  <1>5. Wire'
    BY <1>1, Constants, CommandType DEF IInv, Wire
  <1> QED BY <1>2, <1>3, <1>4, <1>5, Assemble

LEMMA MaintainStep ==
    ASSUME IInv, Maintain
    PROVE  IInv' /\ Forward
PROOF
  <1>1. /\ DeviceSame /\ UNCHANGED <<row, bound, run, told, up, answer, sends>> /\ run = "waiting"
        /\ call' = [call EXCEPT ![Retire] = "sent"]
        /\ snap' = [snap EXCEPT ![Retire] = Target]
        /\ down' = down \cup {Command(Retire, Target)}
    BY DEF Maintain, server, device, journal, agent, bounds, DeviceSame
  <1>2. Journal' /\ ExecInv' /\ Known(P)
    BY <1>1, DeviceSameInv DEF IInv, RunInv
  <1>3. Server' /\ Known(P)' /\ Forward
    BY <1>1, <1>2, ServerSame DEF IInv, Server
  <1>4. Target \in Rcpt
    BY DEF Target, IInv, Rows, Rcpt
  <1>5. Process' /\ SendInv'
    BY <1>1, <1>2, <1>3, <1>4, Names DEF IInv, Process, SendInv
  <1>6. Wire'
    BY <1>1, <1>4, Names, CommandType DEF IInv, Wire
  <1> QED BY <1>2, <1>3, <1>5, <1>6, Assemble

LEMMA ReplyStep ==
    ASSUME IInv, NEW m \in up, Reply(m)
    PROVE  IInv' /\ Forward
PROOF
  <1>1. /\ DeviceSame /\ UNCHANGED <<snap, down, sends>> /\ up' = up \ {m}
        /\ call[m.cmd] = "sent"
    BY DEF Reply, device, journal, agent, bounds, DeviceSame
  <1>2. Journal' /\ ExecInv' /\ Wire'
    BY <1>1, DeviceSameInv DEF IInv, Wire
  <1>3. /\ m.cmd \in Journaled \cup {Get} /\ m.res \in Rcpt /\ (m.cmd # Get => m.res # Absent)
        /\ Known(P)
    BY DEF IInv, Wire, Fresh
  <1>4. CASE m.cmd = Get
    <2>1. call' = [call EXCEPT ![Get] = "idle"] /\ Commit(P, Reconciled(m.res)) /\ UNCHANGED answer
      BY <1>4, Names DEF Reply
    <2>2. Reconciled(m.res) \in Rcpt /\ Reconciled(m.res) # Absent
      BY <1>3 DEF Reconciled, Known, IInv, Rows
    <2>3. Server' /\ Known(P)' /\ Forward
      BY <1>3, <2>1, <2>2, CommitServer DEF IInv, Server
    <2>4. Process' /\ SendInv'
      BY <1>1, <1>3, <2>1, <2>3, Names DEF IInv, Process, SendInv
    <2> QED BY <1>2, <2>3, <2>4, Assemble
  <1>5. CASE m.cmd = P
    <2>1. call' = [call EXCEPT ![P] = "done"] /\ Commit(P, m.res) /\ UNCHANGED answer
      BY <1>5, Names DEF Reply
    <2>2. Server' /\ Known(P)' /\ Forward
      BY <1>3, <1>5, <2>1, CommitServer, Names DEF IInv, Server
    <2>3. Process' /\ SendInv'
      BY <1>1, <1>3, <2>1, <2>2, Names DEF IInv, Process, SendInv
    <2> QED BY <1>2, <2>2, <2>3, Assemble
  <1>6. CASE m.cmd = Retire
    <2>1. /\ call' = [call EXCEPT ![Retire] = "answered"]
          /\ answer' = [answer EXCEPT ![Retire] = m.res] /\ UNCHANGED <<row, bound, run, told>>
      BY <1>6, Names DEF Reply
    <2>2. Server' /\ Known(P)' /\ Forward
      BY <1>3, <2>1, ServerSame DEF IInv, Server
    <2>3. Process' /\ SendInv'
      BY <1>1, <1>3, <2>1, <2>2, Names DEF IInv, Process, SendInv
    <2> QED BY <1>2, <2>2, <2>3, Assemble
  <1>7. CASE m.cmd \in Controls
    <2>1. /\ call' = [call EXCEPT ![m.cmd] = "answered"]
          /\ answer' = [answer EXCEPT ![m.cmd] = m.res] /\ Commit(m.cmd, m.res)
      BY <1>7, Names DEF Reply
    <2>2. Server' /\ Known(P)' /\ Forward
      BY <1>3, <1>7, <2>1, CommitServer, Names DEF IInv, Server
    <2>3. Process' /\ SendInv'
      BY <1>1, <1>3, <1>7, <2>1, <2>2, Names DEF IInv, Process, SendInv
    <2> QED BY <1>2, <2>2, <2>3, Assemble
  <1> QED BY <1>3, <1>4, <1>5, <1>6, <1>7 DEF Journaled

LEMMA ControlResultStep ==
    ASSUME IInv, NEW c \in Controls \cup {Retire}, ControlResult(c)
    PROVE  IInv' /\ Forward
PROOF
  <1>1. /\ DeviceSame /\ UNCHANGED <<down, up, sends>> /\ call[c] = "answered"
        /\ call' = [call EXCEPT ![c] = Back(c)]
        /\ snap' = [snap EXCEPT ![c] = NoReceipt] /\ answer' = [answer EXCEPT ![c] = NoReceipt]
    BY DEF ControlResult, wire, device, journal, agent, bounds, DeviceSame
  <1>2. Journal' /\ ExecInv' /\ Wire'
    BY <1>1, DeviceSameInv DEF IInv, Wire
  <1>3. Known(P) /\ c \in Journaled /\ c # P
    BY <1>1, Names DEF IInv, Fresh
  <1>4. Server' /\ Known(P)' /\ Forward
    <2>1. CASE c \in Detaches /\ Outcome(c) = "completed"
      BY <1>3, <2>1, DetachedServer DEF ControlResult, IInv, Server
    <2>2. CASE c \notin Detaches /\ Outcome(c) \in {"completed", "cancelled"}
      <3> DEFINE r == [snap[c] EXCEPT !.seq = answer[c].seq, !.status = Outcome(c)]
      <3>1. Commit(P, r)
        BY <2>2 DEF ControlResult
      <3>2. snap[c] \in Rcpt /\ answer[c] \in Rcpt
        BY DEF IInv, Process
      <3>3. r \in Rcpt /\ r.status = Outcome(c)
        BY <2>2, <3>2 DEF Rcpt, Statuses, Final
      <3> HIDE DEF r
      <3>4. r # Absent
        BY <2>2, <3>3, Constants
      <3> QED BY <1>3, <3>1, <3>3, <3>4, CommitServer DEF IInv, Server
    <2>3. CASE /\ ~(c \in Detaches /\ Outcome(c) = "completed")
               /\ ~(c \notin Detaches /\ Outcome(c) \in {"completed", "cancelled"})
      <3>1. UNCHANGED <<row, bound, run, told>>
        BY <2>3 DEF ControlResult
      <3> QED BY <1>3, <3>1, ServerSame DEF IInv, Server
    <2> QED BY <2>1, <2>2, <2>3
  <1>5. Process' /\ SendInv'
    BY <1>1, <1>3, <1>4, Names, Constants DEF IInv, Process, SendInv, Back
  <1> QED BY <1>2, <1>4, <1>5, Assemble

LEMMA ReceiveEventStep ==
    ASSUME IInv, ReceiveEvent
    PROVE  IInv' /\ Forward
PROOF
  <1> DEFINE e == jq[recv + 1]
  <1>1. /\ UNCHANGED <<call, snap, answer, down, up, jr, jcmd, jq, clock, daemon, driver,
                       recovery, native, asked, ex, execs, sends>>
        /\ recv' = recv + 1 /\ recv < Len(jq)
    BY DEF ReceiveEvent, process, device, journal, agent, bounds
  <1>2. e \in Rcpt /\ e # Absent /\ recv' \in Nat /\ recv' <= Len(jq) /\ jq # <<>>
    BY <1>1 DEF IInv, Journal
  <1>3. Known(P)
    BY <1>2 DEF IInv, Fresh
  <1>4. Journal' /\ ExecInv' /\ Wire' /\ Process'
    BY <1>1, <1>2 DEF IInv, Journal, ExecInv, Wire, Process
  <1>5. Commit(P, e) \/ UNCHANGED <<row, bound, run, told>>
    BY DEF ReceiveEvent
  <1>6. Server' /\ Known(P)' /\ Forward
    <2> HIDE DEF e
    <2>1. CASE Commit(P, e)
      BY <1>2, <1>3, <2>1, CommitServer DEF IInv, Server
    <2>2. CASE UNCHANGED <<row, bound, run, told>>
      BY <1>3, <2>2, ServerSame DEF IInv, Server
    <2> QED BY <1>5, <2>1, <2>2
  <1>7. SendInv'
    BY <1>1, <1>3, <1>6 DEF IInv, SendInv
  <1> QED BY <1>4, <1>6, <1>7, Assemble

-----------------------------------------------------------------------------
(* The device's side of a step.                                            *)

ServerQuiet == UNCHANGED <<row, bound, run, told, call, snap, answer, sends>>

LEMMA DeviceStep ==
    ASSUME IInv, ServerQuiet, Known(P) \/ Fresh', Wire', Journal', ExecInv'
    PROVE  IInv' /\ Forward
PROOF
  <1>1. Server' /\ (Known(P)' <=> Known(P)) /\ Forward
    BY ServerSame DEF IInv, Server, ServerQuiet
  <1>2. Process' /\ SendInv'
    BY <1>1 DEF IInv, Process, SendInv, ServerQuiet
  <1>3. Fresh'
    BY <1>1 DEF Fresh
  <1> QED BY <1>1, <1>2, <1>3, Assemble

LEMMA AcknowledgeStep ==
    ASSUME IInv, Acknowledge
    PROVE  IInv' /\ Forward
PROOF
  <1>1. /\ ServerQuiet
        /\ UNCHANGED <<down, up, jr, jcmd, clock, daemon, driver, recovery, native, asked, ex,
                       execs>>
        /\ jq' = Tail(jq) /\ recv' = recv - 1 /\ recv > 0
    BY DEF Acknowledge, server, process, agent, bounds, ServerQuiet
  <1>2. jq # <<>> /\ jq \in Seq(Rcpt) /\ recv' \in Nat
    BY <1>1 DEF IInv, Journal
  <1>3. Tail(jq) \in Seq(Rcpt) /\ Len(Tail(jq)) = Len(jq) - 1
    BY <1>2
  <1>4. \A i \in 1 .. Len(Tail(jq)) : Tail(jq)[i] = jq[i + 1] /\ i + 1 \in 1 .. Len(jq)
    BY <1>2, <1>3
  <1>5. Journal'
    BY <1>1, <1>2, <1>3, <1>4 DEF IInv, Journal
  <1>6. Wire' /\ ExecInv' /\ Known(P)
    BY <1>1, <1>2 DEF IInv, Wire, ExecInv, Fresh
  <1> QED BY <1>1, <1>5, <1>6, DeviceStep

(* begin() answers a repeated command from the journal.                    *)
LEMMA BeginStep ==
    ASSUME IInv, NEW m \in down, Begin(m)
    PROVE  IInv' /\ Forward
PROOF
  <1> DEFINE c == m.cmd
  <1>1. /\ ServerQuiet
        /\ UNCHANGED <<clock, jq, recv, daemon, driver, recovery, native, asked, execs>>
        /\ down' = down \ {m} /\ c # Get
    BY DEF Begin, server, process, agent, bounds, ServerQuiet
  <1>2. c \in Journaled /\ Known(P) /\ jr[c] \in Rcpt /\ Named(m) \in Targets
    BY <1>1 DEF IInv, Wire, Fresh, Journal
  <1>3. CASE jr[c] = Absent
    <2>1. /\ jr' = [jr EXCEPT ![c] = Initial] /\ jcmd' = [jcmd EXCEPT ![c] = Named(m)]
          /\ ex' = ex \cup {c} /\ up' = up
      BY <1>3 DEF Begin, Recorded
    <2>2. Journal' /\ Wire'
      BY <1>1, <1>2, <2>1, Constants DEF IInv, Journal, Wire
    <2>3. ExecInv'
      BY <1>1, <1>2, <1>3, <2>1, Constants DEF IInv, Journal, ExecInv
    <2> QED BY <1>1, <1>2, <2>2, <2>3, DeviceStep
  <1>4. CASE jr[c] # Absent
    <2> DEFINE r == IF jcmd[c] = Named(m) THEN jr[c] ELSE Refused
    <2>1. UNCHANGED <<jr, jcmd, ex>> /\ up' = up \cup {[cmd |-> c, res |-> r]}
      BY <1>4 DEF Begin, Recorded
    <2>2. r \in Rcpt /\ r # Absent
      BY <1>2, <1>4, Constants
    <2> HIDE DEF r
    <2>3. Wire'
      BY <1>1, <1>2, <2>1, <2>2 DEF IInv, Wire
    <2>4. Journal' /\ ExecInv'
      BY <1>1, <2>1 DEF IInv, Journal, ExecInv
    <2> QED BY <1>1, <1>2, <2>3, <2>4, DeviceStep
  <1> QED BY <1>3, <1>4

(* A durable event, or nothing: what append() does to the journal.         *)
LEMMA AppendJournal ==
    ASSUME IInv, NEW r \in Rcpt, Append1(r) \/ UNCHANGED <<jr, jq, clock>>,
           UNCHANGED <<jcmd, daemon, asked, execs>>,
           native' \in Natives, (native = "none") <=> (native' = "none"),
           driver' \in {"attached", "blind", "lost"},
           recovery' \in [seq : Int, found : Natives, get : BOOLEAN],
           recovery' # Idle => jr[P] # Absent,
           recv' \in {0, recv}, ex' \in {{}, ex}
    PROVE  /\ Journal' /\ ExecInv' /\ (Known(P) \/ UNCHANGED <<jr, jq>>)
           /\ jr' \in [Journaled -> Rcpt]
           /\ \A d \in Journaled : jr[d] # Absent => jr'[d] # Absent
PROOF
  <1>1. CASE UNCHANGED <<jr, jq, clock>>
    BY <1>1 DEF IInv, Journal, ExecInv
  <1>2. CASE ~UNCHANGED <<jr, jq, clock>>
    <2> DEFINE e == Fold(jr[P], r, clock + 1)
    <2>1. /\ jr[P] # Absent /\ clock' = clock + 1
          /\ jr' = [jr EXCEPT ![P] = e] /\ jq' = Append(jq, jr'[P])
      BY <1>2 DEF Append1, Recorded
    <2>2. jr[P] \in Rcpt /\ clock + 1 \in Nat /\ Known(P)
      BY <2>1, Names DEF IInv, Journal, Fresh
    <2>3. e \in Rcpt /\ e # Absent
      BY <2>2, FoldResult, Placed
    <2> HIDE DEF e
    <2>4. jr'[P] = e /\ jr' \in [Journaled -> Rcpt]
          /\ \A d \in Journaled : jr[d] # Absent => jr'[d] # Absent
      BY <2>1, <2>3, Names DEF IInv, Journal
    <2>5. jq' \in Seq(Rcpt) /\ Len(jq') >= Len(jq) /\ \A i \in 1 .. Len(jq') : jq'[i] # Absent
      BY <2>1, <2>3, <2>4 DEF IInv, Journal
    <2>6. Journal'
      <3>1. recv' \in Nat /\ recv' <= Len(jq')
        BY <2>5 DEF IInv, Journal
      <3> QED BY <2>1, <2>2, <2>4, <2>5, <3>1, Names DEF IInv, Journal
    <2>7. ExecInv'
      <3>1. \A d \in Journaled : d # P => jr'[d] = jr[d]
        BY <2>1 DEF IInv, Journal
      <3> QED BY <2>1, <2>4, <3>1, Names DEF IInv, ExecInv
    <2> QED BY <2>2, <2>4, <2>6, <2>7
  <1> QED BY <1>1, <1>2

(* The same, when only the answer of a query may leave with it.            *)
LEMMA AppendStep ==
    ASSUME IInv, NEW r \in Rcpt, Append1(r) \/ UNCHANGED <<jr, jq, clock>>,
           ServerQuiet, Known(P), UNCHANGED <<jcmd, daemon, asked, execs, recv, ex>>,
           native' \in Natives, (native = "none") <=> (native' = "none"),
           driver' \in {"attached", "blind", "lost"},
           recovery' \in [seq : Int, found : Natives, get : BOOLEAN],
           recovery' # Idle => jr[P] # Absent,
           down' \subseteq down,
           up' = up \/ up' = up \cup {[cmd |-> Get, res |-> jr'[P]]}
    PROVE  IInv' /\ Forward
PROOF
  <1>1. Journal' /\ ExecInv' /\ jr' \in [Journaled -> Rcpt]
    BY AppendJournal
  <1>2. Wire'
    <2>1. [cmd |-> Get, res |-> jr'[P]] \in [cmd : Journaled \cup {Get}, res : Rcpt]
      BY <1>1, Names
    <2>2. up' \subseteq [cmd : Journaled \cup {Get}, res : Rcpt]
      BY <2>1 DEF IInv, Wire
    <2>3. \A m \in up' : m.cmd # Get => m.res # Absent
      BY DEF IInv, Wire
    <2> QED BY <2>2, <2>3 DEF IInv, Wire
  <1> QED BY <1>1, <1>2, DeviceStep

(* The recovery that is not under way.                                     *)
LEMMA IdleType ==
    /\ Idle \in [seq : Int, found : Natives, get : BOOLEAN]
    /\ Idle.seq = NoSeq /\ Idle.found = "none" /\ Idle.get = FALSE
    /\ \A r \in [seq : Int, found : Natives, get : BOOLEAN] :
          r.seq = NoSeq /\ r.found = "none" /\ r.get = FALSE => r = Idle
PROOF BY DEF Idle, NoSeq, Natives

LEMMA AnswerGetStep ==
    ASSUME IInv, AnswerGet
    PROVE  IInv' /\ Forward
PROOF
  <1>1. /\ ServerQuiet
        /\ UNCHANGED <<jcmd, recv, daemon, driver, native, asked, ex, execs>>
        /\ native' \in Natives /\ driver' \in {"attached", "blind", "lost"}
    BY DEF AnswerGet, server, process, agent, bounds, ServerQuiet, IInv, Journal
  <1>2. PICK m \in down : down' = down \ {m}
    BY DEF AnswerGet
  <1>3. Known(P) /\ jr[P] \in Rcpt
    BY <1>2, Names DEF IInv, Fresh, Journal
  <1>4. Doubtful => jr[P] # Absent
    BY Constants DEF Doubtful
  <1>5. /\ Append1(Unknown) \/ UNCHANGED <<jr, jq, clock>>
        /\ up' = up \/ up' = up \cup {[cmd |-> Get, res |-> jr'[P]]}
        /\ recovery' = recovery \/ Doubtful
    BY DEF AnswerGet
  <1>6. recovery' \in [seq : Int, found : Natives, get : BOOLEAN]
    <2>1. jr[P].seq \in Int
      BY <1>3 DEF Rcpt, Seqs, NoSeq
    <2>2. /\ recovery \in [seq : Int, found : Natives, get : BOOLEAN]
          /\ Reading(TRUE) \in [seq : Int, found : Natives, get : BOOLEAN]
      BY <2>1 DEF Reading, IInv, Journal
    <2>3. \/ recovery' = recovery
          \/ recovery' = Reading(TRUE)
          \/ recovery' = [recovery EXCEPT !.get = TRUE]
      BY DEF AnswerGet
    <2> QED BY <2>2, <2>3
  <1>7. recovery' # Idle => jr[P] # Absent
    BY <1>4, <1>5 DEF IInv, Journal
  <1> QED BY <1>1, <1>2, <1>3, <1>5, <1>6, <1>7, Constants, AppendStep

LEMMA StartStep ==
    ASSUME IInv, Start
    PROVE  IInv' /\ Forward
PROOF
  <1>1. /\ ServerQuiet
        /\ UNCHANGED <<down, up, jr, jcmd, clock, jq, recv, ex, daemon, driver, recovery, asked>>
        /\ P \in ex /\ native = "none" /\ native' \in {"queued", "running"}
        /\ execs' = [execs EXCEPT ![P] = @ + 1]
    BY DEF Start, server, process, wire, device, journal, ServerQuiet
  <1>2. Known(P)
    BY <1>1 DEF IInv, Fresh
  <1>3. Wire' /\ Journal'
    BY <1>1 DEF IInv, Wire, Journal, Natives
  <1>4. execs' = [execs EXCEPT ![P] = 1] /\ jr[P] # Absent
    BY <1>1, Names DEF IInv, ExecInv
  <1>5. ExecInv'
    BY <1>1, <1>4, Names DEF IInv, ExecInv
  <1> QED BY <1>1, <1>2, <1>3, <1>5, DeviceStep

(* complete() answers a command that was being executed.                   *)
LEMMA CompleteStep ==
    ASSUME IInv, NEW c \in ex, NEW r \in Rcpt, NEW end \in Statuses,
           Complete(c, r, end), end = "none" \/ c # P,
           UNCHANGED <<sends, jq, daemon, native, asked>>,
           \/ execs' = execs
           \/ c # P /\ c \notin asked /\ execs' = [execs EXCEPT ![c] = @ + 1]
    PROVE  IInv' /\ Forward
PROOF
  <1> DEFINE n == clock + 1
             own == Own(c, r, n)
             ended == Fold(jr[P], Receipt(n, end, FALSE, FALSE), n)
  <1>1. /\ ServerQuiet /\ UNCHANGED <<down, recv, jcmd, driver, recovery>>
        /\ clock' = n /\ ex' = ex \ {c}
    BY DEF Complete, server, process, ServerQuiet
  <1>2. c \in Journaled /\ jr[c] # Absent /\ n \in Nat /\ jr[P] \in Rcpt /\ Known(P)
    BY Names DEF IInv, ExecInv, Journal, Fresh
  <1>3. own \in Rcpt /\ own.seq = n /\ own # Absent
    BY <1>2, OwnResult, Placed DEF IInv
  <1>4. ended \in Rcpt /\ ended # Absent
    <2>1. Receipt(n, end, FALSE, FALSE) \in Rcpt
      BY <1>2, ReceiptType
    <2>2. ended \in Rcpt /\ ended.seq = n
      BY <1>2, <2>1, FoldResult
    <2> QED BY <1>2, <2>2, Placed
  <1>5. \/ jr' = [jr EXCEPT ![c] = own]
        \/ jr' = [jr EXCEPT ![c] = own, ![P] = ended]
    <2>1. CASE end = "none"
      BY <2>1 DEF Complete
    <2>2. CASE end # "none"
      BY <1>2, <2>2 DEF Complete, IInv, Journal
    <2> QED BY <2>1, <2>2
  <1>6. up' = up \/ up' = up \cup {[cmd |-> c, res |-> own]}
    BY DEF Complete
  <1> HIDE DEF own, ended, n
  <1>8. jr' \in [Journaled -> Rcpt] /\ \A d \in Journaled : jr[d] # Absent => jr'[d] # Absent
    BY <1>2, <1>3, <1>4, <1>5, Names DEF IInv, Journal
  <1>9. Journal'
    BY <1>1, <1>2, <1>8, Names DEF IInv, Journal
  <1>10. Wire'
    BY <1>1, <1>2, <1>3, <1>6 DEF IInv, Wire
  <1>11. ExecInv'
    <2>1. \A d \in Journaled : d # c /\ d # P => jr'[d] = jr[d]
      BY <1>2, <1>5 DEF IInv, Journal
    <2>2. CASE execs' = execs
      BY <1>1, <1>8, <2>1, <2>2, Names DEF IInv, ExecInv
    <2>3. CASE c # P /\ c \notin asked /\ execs' = [execs EXCEPT ![c] = @ + 1]
      <3>1. execs[c] = 0
        BY <2>3 DEF IInv, ExecInv
      <3>2. execs' = [execs EXCEPT ![c] = 1]
        BY <2>3, <3>1
      <3>3. jr'[c] # Absent
        BY <1>2, <1>8
      <3> QED BY <1>1, <1>2, <1>8, <2>1, <2>3, <3>2, <3>3, Names DEF IInv, ExecInv
    <2> QED BY <2>2, <2>3
  <1> QED BY <1>1, <1>2, <1>9, <1>10, <1>11, DeviceStep

(* What an admission and a cancellation say.                               *)
LEMMA Sayings ==
    ASSUME IInv
    PROVE  /\ Taken \in Rcpt /\ Taken.status \in {"queued", "running", "unknown"}
           /\ "none" \in Statuses /\ Ended \subseteq Statuses /\ "detached" \in Statuses
           /\ Ended \subseteq Final
           /\ \A s \in Statuses : Receipt(0, s, FALSE, FALSE) \in Rcpt
                                  /\ Receipt(0, s, FALSE, FALSE).status = s
           /\ Shown \subseteq Statuses
PROOF
  <1>1. "none" \in Statuses /\ Ended \subseteq Statuses /\ "detached" \in Statuses
        /\ Ended \subseteq Final
    BY DEF Statuses, Final, Ended
  <1>2. \A s \in Statuses : Receipt(0, s, FALSE, FALSE) \in Rcpt
                            /\ Receipt(0, s, FALSE, FALSE).status = s
    BY ReceiptType
  <1>3. Shown \subseteq Statuses
    BY DEF Shown, Statuses, Final
  <1>4. Taken \in Rcpt /\ Taken.status \in {"queued", "running", "unknown"}
    <2> DEFINE s == IF native \in {"queued", "running"} THEN native ELSE "unknown"
               e == native = "running"
    <2>1. s \in {"queued", "running", "unknown"} /\ e \in BOOLEAN /\ daemon \in BOOLEAN
      BY DEF IInv, Journal
    <2>2. s \in Statuses
      BY <2>1 DEF Statuses
    <2>3. Taken = [Receipt(0, s, FALSE, e) EXCEPT !.sub = daemon]
      BY DEF Taken
    <2> HIDE DEF s, e
    <2>4. Receipt(0, s, FALSE, e) \in Rcpt /\ Receipt(0, s, FALSE, e).status = s
      BY <2>1, <2>2 DEF Receipt, Rcpt, Seqs
    <2> QED BY <2>1, <2>3, <2>4 DEF Rcpt
  <1> QED BY <1>1, <1>2, <1>3, <1>4

LEMMA AdmittedStep ==
    ASSUME IInv, Admitted
    PROVE  IInv' /\ Forward
PROOF
  <1>1. P \in ex /\ UNCHANGED <<jq, daemon, native, asked, execs, sends>>
    BY DEF Admitted, agent, bounds
  <1>2. PICK r \in {Taken, Unknown, Failed} : Complete(P, r, "none")
    BY DEF Admitted
  <1>3. r \in Rcpt /\ "none" \in Statuses
    BY Constants, Sayings
  <1> QED BY <1>1, <1>2, <1>3, CompleteStep

LEMMA DoDetachStep ==
    ASSUME IInv, NEW c \in ex \cap Detaches, DoDetach(c)
    PROVE  IInv' /\ Forward
PROOF
  <1>1. /\ execs' = [execs EXCEPT ![c] = @ + 1] /\ UNCHANGED <<jq, daemon, native, asked, sends>>
        /\ c # P /\ c \notin asked
    BY Names, ExternalAssumption DEF DoDetach, agent, IInv, ExecInv, Controls
  <1>2. PICK r \in {Failed, Receipt(0, "completed", FALSE, FALSE)}, end \in {"none", "detached"} :
             Complete(c, r, end)
    BY DEF DoDetach
  <1>3. "completed" \in Statuses
    BY DEF Statuses, Final
  <1>4. r \in Rcpt /\ end \in Statuses
    BY <1>3, Constants, Sayings
  <1> QED BY <1>1, <1>2, <1>4, CompleteStep

(* The driver withdraws a waiting submission, interrupts, or fails.        *)
LEMMA DoCancelStep ==
    ASSUME IInv, NEW c \in Cancels \cup {Retire}, DoCancel(c)
    PROVE  IInv' /\ Forward
PROOF
  <1>1. /\ execs' = [execs EXCEPT ![c] = @ + 1] /\ UNCHANGED sends /\ c # P /\ c \in ex
        /\ c \notin asked /\ c \in Journaled
    BY Names DEF DoCancel
  <1>2. CASE /\ asked' = asked \cup {c} /\ Stoppable(c)
             /\ native' = IF jcmd[c].exec THEN native ELSE "withdrawn"
             /\ UNCHANGED <<server, process, wire, device, daemon>>
    <2>1. /\ ServerQuiet /\ Known(P) /\ native' \in Natives
          /\ UNCHANGED <<down, up, jr, jcmd, clock, jq, recv, ex, daemon, driver, recovery>>
          /\ (native' = "none" => native = "none") /\ native \in {"queued", "running"}
      BY <1>1, <1>2 DEF server, process, wire, device, journal, ServerQuiet, IInv, Fresh, Journal,
                        Natives, Stoppable
    <2>2. Wire' /\ Journal'
      BY <1>1, <2>1 DEF IInv, Wire, Journal
    <2>3. execs[c] = 0 /\ jr[c] # Absent
      BY <1>1 DEF IInv, ExecInv
    <2>4. execs' = [execs EXCEPT ![c] = 1]
      BY <1>1, <2>3
    <2>5. ExecInv'
      BY <1>1, <1>2, <2>1, <2>3, <2>4, Names DEF IInv, ExecInv
    <2> QED BY <2>1, <2>2, <2>5, DeviceStep
  <1>3. CASE Over(c) /\ Complete(c, Receipt(0, native, FALSE, FALSE), native) /\ UNCHANGED <<jq, agent>>
    <2>1. native \in Statuses
      BY <1>3, Sayings DEF Over
    <2>2. Receipt(0, native, FALSE, FALSE) \in Rcpt
      BY <2>1, Sayings
    <2>3. UNCHANGED <<jq, daemon, native, asked>>
      BY <1>3 DEF agent
    <2> QED BY <1>1, <1>3, <2>1, <2>2, <2>3, CompleteStep
  <1>4. CASE /\ \E r \in {Failed, Unknown} : Complete(c, r, "none")
             /\ UNCHANGED <<jq, agent>>
    <2>1. PICK r \in {Failed, Unknown} : Complete(c, r, "none")
      BY <1>4
    <2>2. UNCHANGED <<jq, daemon, native, asked>>
      BY <1>4 DEF agent
    <2>3. r \in Rcpt /\ "none" \in Statuses
      BY Constants, Sayings
    <2> QED BY <1>1, <2>1, <2>2, <2>3, CompleteStep
  <1> QED BY <1>2, <1>3, <1>4 DEF DoCancel

LEMMA CancelAnsweredStep ==
    ASSUME IInv, NEW c \in Cancels \cup {Retire}, CancelAnswered(c)
    PROVE  IInv' /\ Forward
PROOF
  <1>1. /\ UNCHANGED <<sends, execs, daemon, native, asked>> /\ c # P /\ c \in ex
        /\ c \in Journaled
    BY Names DEF CancelAnswered, agent, bounds
  <1>2. CASE (\E s \in Shown : Complete(c, Receipt(0, s, FALSE, FALSE), "none")) /\ UNCHANGED jq
    <2>1. PICK s \in Shown : Complete(c, Receipt(0, s, FALSE, FALSE), "none")
      BY <1>2
    <2>2. Receipt(0, s, FALSE, FALSE) \in Rcpt /\ "none" \in Statuses
      BY Sayings
    <2> QED BY <1>1, <1>2, <2>1, <2>2, CompleteStep
  <1>3. CASE Complete(c, Unknown, "none") /\ UNCHANGED jq
    BY <1>1, <1>3, Constants, Sayings, CompleteStep
  <1>4. CASE ~jcmd[c].exec /\ ~(Complete(c, Unknown, "none") /\ UNCHANGED jq)
    <2> DEFINE d == Receipt(0, "cancelled", FALSE, FALSE)
               r1 == Fold(jr[P], d, clock + 1)
               r2 == Fold(r1, r1, clock + 2)
               own == Receipt(clock + 2, "cancelled", FALSE, FALSE)
    <2>1. /\ jq' = IF jdet THEN jq ELSE Append(jq, r1)
          /\ clock' = clock + 2 /\ ex' = ex \ {c}
          /\ jr' = [jr EXCEPT ![P] = r2, ![c] = own]
          /\ up' = IF c \in live THEN up \cup {[cmd |-> c, res |-> own]} ELSE up
          /\ UNCHANGED <<server, process, down, recv, jcmd, jdet, driver, recovery>>
      BY <1>4 DEF CancelAnswered
    <2>2. /\ jr[P] \in Rcpt /\ clock + 1 \in Nat /\ clock + 2 \in Nat
          /\ Known(P) /\ ServerQuiet /\ jq \in Seq(Rcpt) /\ recv \in Nat /\ recv <= Len(jq)
          /\ \A i \in 1 .. Len(jq) : jq[i] # Absent
      BY <1>1, <2>1, Names DEF IInv, Journal, Fresh, server, process, ServerQuiet
    <2>3. "cancelled" \in Statuses /\ d \in Rcpt
      BY ReceiptType DEF Statuses, Final
    <2>4. own \in Rcpt /\ own.seq = clock + 2
      BY <2>2, <2>3, ReceiptType
    <2>5. r1 \in Rcpt /\ r1 # Absent
      BY <2>2, <2>3, FoldResult, Placed
    <2> HIDE DEF r1
    <2>6. r2 \in Rcpt /\ r2 # Absent
      BY <2>2, <2>5, FoldResult, Placed
    <2>7. own # Absent
      BY <2>2, <2>4, Placed
    <2> HIDE DEF r2, own
    <2>8. jr' \in [Journaled -> Rcpt] /\ \A x \in Journaled : jr[x] # Absent => jr'[x] # Absent
      BY <2>1, <2>4, <2>6, <2>7, Names DEF IInv, Journal
    <2>9. jq' \in Seq(Rcpt) /\ Len(jq') >= Len(jq) /\ \A i \in 1 .. Len(jq') : jq'[i] # Absent
      BY <2>1, <2>2, <2>5
    <2>10. Journal'
      BY <1>1, <2>1, <2>2, <2>8, <2>9, Names DEF IInv, Journal
    <2>11. Wire'
      BY <1>1, <2>1, <2>2, <2>4, <2>7 DEF IInv, Wire
    <2>12. ExecInv'
      <3>1. \A x \in Journaled : x # c /\ x # P => jr'[x] = jr[x]
        BY <2>1 DEF IInv, Journal
      <3> QED BY <1>1, <2>1, <2>8, <3>1, Names DEF IInv, ExecInv
    <2> QED BY <2>2, <2>10, <2>11, <2>12, DeviceStep
  <1> QED BY <1>2, <1>3, <1>4 DEF CancelAnswered

(* The driver goes on with an operation that is recorded.                  *)
LEMMA ReconnectStep ==
    ASSUME IInv, Reconnect
    PROVE  IInv' /\ Forward
PROOF
  <1>1. /\ ServerQuiet
        /\ UNCHANGED <<down, up, recv, jr, jcmd, jq, clock, ex, daemon, native, asked, execs>>
        /\ driver' \in {"attached", "blind", "lost"}
        /\ recovery' = recovery \/ (recovery' = Reading(FALSE) /\ jr[P] # Absent)
    BY DEF Reconnect, Observed, Recorded, server, process, wire, journal, agent, bounds, ServerQuiet
  <1>2. Reading(FALSE) \in [seq : Int, found : Natives, get : BOOLEAN]
    <2>1. jr[P].seq \in Int
      BY Names DEF IInv, Journal, Rcpt, Seqs, NoSeq
    <2> QED BY <2>1 DEF Reading, IInv, Journal
  <1>3. Journal'
    BY <1>1, <1>2 DEF IInv, Journal
  <1>4. Wire' /\ ExecInv' /\ (Known(P) \/ Fresh')
    BY <1>1 DEF IInv, Wire, ExecInv, Fresh, ServerQuiet, Known
  <1> QED BY <1>1, <1>3, <1>4, DeviceStep

(* What a recovery may find.                                               *)
LEMMA RecoverAppends ==
    ASSUME IInv, Recover
    PROVE  \E r \in Rcpt :
             /\ Append1(r) \/ UNCHANGED <<jr, jq, clock>>
             /\ \/ recovery.found \in Ended /\ r.status = recovery.found /\ Append1(r)
                \/ /\ r.status \in {"queued", "running", "unknown"}
                   /\ recovery.seq # jr[P].seq => UNCHANGED <<jr, jq, clock>>
PROOF
  <1>1. CASE recovery.found \in Ended /\ Append1(Receipt(0, recovery.found, FALSE, TRUE))
    <2>1. recovery.found \in Statuses
      BY <1>1, Sayings
    <2>2. /\ Receipt(0, recovery.found, FALSE, TRUE) \in Rcpt
          /\ Receipt(0, recovery.found, FALSE, TRUE).status = recovery.found
      BY <2>1 DEF Receipt, Rcpt, Seqs
    <2> QED BY <1>1, <2>2
  <1>2. CASE /\ recovery.found \in {"queued", "running"}
             /\ AppendSnapshot(Receipt(0, recovery.found, FALSE, recovery.found = "running"))
    <2> DEFINE e == recovery.found = "running"
    <2>1. recovery.found \in Statuses /\ e \in BOOLEAN
      BY <1>2 DEF Statuses
    <2>2. AppendSnapshot(Receipt(0, recovery.found, FALSE, e))
      BY <1>2
    <2> HIDE DEF e
    <2>3. /\ Receipt(0, recovery.found, FALSE, e) \in Rcpt
          /\ Receipt(0, recovery.found, FALSE, e).status = recovery.found
      BY <2>1 DEF Receipt, Rcpt, Seqs
    <2> QED BY <1>2, <2>2, <2>3 DEF AppendSnapshot
  <1>3. CASE AppendSnapshot([Unknown EXCEPT !.exec = recovery.found = "running"])
    <2> DEFINE e == recovery.found = "running"
    <2>1. AppendSnapshot([Unknown EXCEPT !.exec = e]) /\ e \in BOOLEAN
      BY <1>3
    <2> HIDE DEF e
    <2>2. [Unknown EXCEPT !.exec = e] \in Rcpt /\ [Unknown EXCEPT !.exec = e].status = "unknown"
      BY <2>1, Constants DEF Rcpt
    <2> QED BY <2>1, <2>2 DEF AppendSnapshot
  <1> QED BY <1>1, <1>2, <1>3 DEF Recover

LEMMA RecoverStep ==
    ASSUME IInv, Recover
    PROVE  IInv' /\ Forward
PROOF
  <1>1. /\ ServerQuiet /\ UNCHANGED <<down, recv, jcmd, ex, daemon, native, asked, execs>>
        /\ up' = up \/ up' = up \cup {[cmd |-> Get, res |-> jr'[P]]}
        /\ driver' \in {"attached", "blind", "lost"} /\ recovery # Idle /\ recovery' = Idle
    BY DEF Recover, server, process, agent, bounds, ServerQuiet, IInv, Journal
  <1>2. Known(P) /\ native' \in Natives
    BY <1>1 DEF IInv, Fresh, Journal
  <1>3. PICK r \in Rcpt : Append1(r) \/ UNCHANGED <<jr, jq, clock>>
    BY RecoverAppends
  <1> QED BY <1>1, <1>2, <1>3, IdleType, AppendStep

LEMMA NotifyStep ==
    ASSUME IInv, NEW r \in Rcpt, Notify(r), native \in {"queued", "running"},
           native' \in Natives \ {"none"}
    PROVE  IInv' /\ Forward
PROOF
  <1>1. /\ ServerQuiet
        /\ UNCHANGED <<recv, up, down, execs, ex, jcmd, daemon, asked, driver, recovery>>
        /\ Append1(r) \/ UNCHANGED <<jr, jq, clock>>
    BY DEF Notify, server, process, wire, ServerQuiet
  <1>2. Known(P) /\ native # "none" /\ native' # "none" /\ native' \in Natives
    BY DEF IInv, Fresh
  <1>3. /\ driver' \in {"attached", "blind", "lost"} /\ (recovery' # Idle => jr[P] # Absent)
        /\ recovery' \in [seq : Int, found : Natives, get : BOOLEAN]
    BY <1>1 DEF IInv, Journal
  <1> QED BY <1>1, <1>2, <1>3, AppendStep

LEMMA TurnStep ==
    ASSUME IInv, Turn \/ Milestone \/ Finish
    PROVE  IInv' /\ Forward
PROOF
  <1>1. PICK r : /\ Notify(r) /\ native \in {"queued", "running"} /\ native' \in Natives \ {"none"}
                 /\ r \in Rcpt
    <2>1. CASE Turn
      <3>1. Receipt(0, "running", FALSE, TRUE) \in Rcpt
        BY ReceiptType DEF Statuses
      <3> QED BY <2>1, <3>1 DEF Turn, Natives
    <2>2. CASE Milestone
      <3>1. [jr[P] EXCEPT !.exec = TRUE] \in Rcpt
        BY Names DEF IInv, Journal, Rcpt
      <3> QED BY <2>2, <3>1 DEF Milestone, Natives
    <2>3. CASE Finish
      <3>1. PICK s \in Ended : native' = s /\ Notify(Receipt(0, s, TRUE, TRUE))
        BY <2>3 DEF Finish, Ended
      <3>2. Receipt(0, s, TRUE, TRUE) \in Rcpt
        BY ReceiptType, Sayings
      <3> QED BY <2>3, <3>1, <3>2 DEF Finish, Natives, Ended
    <2> QED BY <2>1, <2>2, <2>3
  <1> QED BY <1>1, NotifyStep

LEMMA LoseOwnerStep ==
    ASSUME IInv, LoseOwner
    PROVE  IInv' /\ Forward
PROOF
  <1>1. /\ ServerQuiet
        /\ UNCHANGED <<recv, up, down, execs, ex, jcmd, daemon, asked, recovery>>
        /\ Append1(Unknown) \/ UNCHANGED <<jr, jq, clock>>
        /\ jr[P] # Absent /\ driver' \in {"attached", "blind", "lost"}
        /\ native' = native \/ (native = "running" /\ native' = "lost")
    BY DEF LoseOwner, Observed, Recorded, server, process, wire, ServerQuiet, IInv, Journal
  <1>2. Known(P) /\ native' \in Natives /\ ((native = "none") <=> (native' = "none"))
    BY <1>1 DEF IInv, Fresh, Journal, Natives
  <1>3. recovery' \in [seq : Int, found : Natives, get : BOOLEAN]
    BY <1>1 DEF IInv, Journal
  <1> QED BY <1>1, <1>2, <1>3, Constants, AppendStep

-----------------------------------------------------------------------------
(* Lost connections and restarts: a call goes back or stays done, and none *)
(* becomes prepared again.                                                 *)
LEMMA FaultStep ==
    ASSUME IInv, Lost,
           UNCHANGED <<row, bound, run, told, snap, answer, sends, execs, jcmd, daemon, asked>>,
           call' \in [Journaled \cup {Get} -> {"idle", "prepared", "sent", "answered", "done"}],
           \A c \in Journaled \cup {Get} :
              call'[c] = call[c] \/ (call[c] # "idle" /\ call'[c] \in {"idle", "done"}),
           Append1(Unknown) \/ UNCHANGED <<jr, jq, clock>>,
           native' \in Natives, (native = "none") <=> (native' = "none"),
           driver' \in {"attached", "blind", "lost"},
           recovery' \in {Idle, [recovery EXCEPT !.get = FALSE]},
           ex' \in {{}, ex}
    PROVE  IInv' /\ Forward
PROOF
  <1>1. recv' = 0 /\ up' = {} /\ down' = {}
    BY DEF Lost
  <1>2. recovery' \in [seq : Int, found : Natives, get : BOOLEAN]
        /\ (recovery' # Idle => jr[P] # Absent)
    <2>1. recovery \in [seq : Int, found : Natives, get : BOOLEAN]
      BY DEF IInv, Journal
    <2>2. ASSUME recovery = Idle  PROVE [recovery EXCEPT !.get = FALSE] = Idle
      <3> DEFINE x == [recovery EXCEPT !.get = FALSE]
      <3>1. /\ x \in [seq : Int, found : Natives, get : BOOLEAN]
            /\ x.seq = NoSeq /\ x.found = "none" /\ x.get = FALSE
        BY <2>1, <2>2, IdleType
      <3> QED BY <3>1, IdleType
    <2> QED BY <2>1, <2>2, IdleType DEF IInv, Journal
  <1>3. Journal' /\ ExecInv' /\ (Known(P) \/ UNCHANGED <<jr, jq>>)
    BY <1>1, <1>2, Constants, AppendJournal
  <1>4. Server' /\ (Known(P)' <=> Known(P)) /\ Forward
    BY ServerSame DEF IInv, Server
  <1>5. Process' /\ Wire'
    BY <1>1 DEF IInv, Process, Wire
  <1>6. SendInv'
    BY <1>4, Names DEF IInv, SendInv
  <1>7. ~Known(P)' => Fresh'
    BY <1>1, <1>3, <1>4 DEF IInv, Fresh
  <1> QED BY <1>3, <1>4, <1>5, <1>6, <1>7, Assemble

LEMMA DisconnectStep ==
    ASSUME IInv, Disconnect \/ ServerRestart \/ DeviceRestart
    PROVE  IInv' /\ Forward
PROOF
  <1>1. /\ Lost
        /\ UNCHANGED <<row, bound, run, told, snap, answer, sends, execs, jcmd, daemon, asked>>
        /\ Append1(Unknown) \/ UNCHANGED <<jr, jq, clock>>
        /\ driver' \in {"attached", "blind", "lost"}
        /\ recovery' \in {Idle, [recovery EXCEPT !.get = FALSE]}
        /\ ex' \in {{}, ex}
    BY DEF Disconnect, ServerRestart, DeviceRestart, server, journal, agent, IInv, Journal
  <1>2. native' \in Natives /\ ((native = "none") <=> (native' = "none"))
    <2>1. native' = native \/ (native = "running" /\ native' = "lost")
      BY DEF Disconnect, ServerRestart, DeviceRestart, agent
    <2> QED BY <2>1 DEF IInv, Journal, Natives
  <1>3. call' \in [Journaled \cup {Get} -> {"idle", "prepared", "sent", "answered", "done"}]
        /\ \A c \in Journaled \cup {Get} :
              call'[c] = call[c] \/ (call[c] # "idle" /\ call'[c] \in {"idle", "done"})
    <2>1. DOMAIN call = Journaled \cup {Get}
      BY DEF IInv, Process
    <2>2. CASE Disconnect \/ DeviceRestart
      BY <2>1, <2>2 DEF Disconnect, DeviceRestart, Back, IInv, Process
    <2>3. CASE ServerRestart
      BY <2>1, <2>3 DEF ServerRestart, IInv, Process
    <2> QED BY <2>2, <2>3
  <1> QED BY <1>1, <1>2, <1>3, FaultStep

(* Nothing that the invariant is about changes.                            *)
LEMMA QuietStep ==
    ASSUME IInv, UNCHANGED <<row, bound, run, told, call, snap, answer, down, up, recv, jr, jcmd,
                             jq, clock, ex, daemon, driver, recovery, native, asked, sends, execs>>
    PROVE  IInv' /\ Forward
PROOF
  <1>1. Wire' /\ Journal' /\ ExecInv' /\ (Known(P) \/ Fresh') /\ ServerQuiet
    BY DEF IInv, Wire, Journal, ExecInv, Fresh, ServerQuiet
  <1> QED BY <1>1, DeviceStep

-----------------------------------------------------------------------------
LEMMA InitIInv == Init => IInv
PROOF
  <1> SUFFICES ASSUME Init  PROVE IInv
    OBVIOUS
  <1>1. Rows /\ RunInv
    BY Constants DEF Init, Rows, RunInv, Known
  <1>2. Process /\ Wire
    BY Constants DEF Init, Process, Wire
  <1>3. Journal
    BY Constants, IdleType, ExternalAssumption DEF Init, Journal, Natives
  <1>4. Fresh /\ SendInv /\ ExecInv
    BY Names DEF Init, Fresh, SendInv, ExecInv, Known
  <1> QED BY <1>1, <1>2, <1>3, <1>4 DEF IInv

(* Every step keeps the invariant, and no receipt of P goes back.          *)
LEMMA StepIInv ==
    ASSUME IInv, [Next]_vars
    PROVE  IInv' /\ Forward
PROOF
  <1>1. CASE UNCHANGED vars
    BY <1>1, QuietStep DEF vars, server, process, wire, device, journal, agent, bounds
  <1>2. ASSUME NEW c \in {P} \cup Controls, Call(c) \/ Dispatch(c)
        PROVE  IInv' /\ Forward
    BY <1>2, CallInvStep, DispatchStep
  <1>3. CASE Query \/ Maintain
    BY <1>3, QueryStep, MaintainStep
  <1>4. ASSUME NEW m \in up, Reply(m)
        PROVE  IInv' /\ Forward
    BY <1>4, ReplyStep
  <1>5. ASSUME NEW c \in Controls \cup {Retire}, ControlResult(c)
        PROVE  IInv' /\ Forward
    BY <1>5, ControlResultStep
  <1>6. CASE ReceiveEvent \/ Acknowledge
    BY <1>6, ReceiveEventStep, AcknowledgeStep
  <1>7. CASE EndWork \/ Connect
    <2>1. UNCHANGED <<row, bound, run, told, call, snap, answer, down, up, recv, jr, jcmd, jq,
                      clock, ex, daemon, driver, recovery, native, asked, sends, execs>>
      BY <1>7 DEF EndWork, Connect, server, process, wire, device, journal, agent, bounds
    <2> QED BY <2>1, QuietStep
  <1>8. ASSUME NEW m \in down, Begin(m)
        PROVE  IInv' /\ Forward
    BY <1>8, BeginStep
  <1>9. CASE AnswerGet \/ Start \/ Admitted
    BY <1>9, AnswerGetStep, StartStep, AdmittedStep
  <1>10. ASSUME NEW c \in Cancels \cup {Retire}, DoCancel(c) \/ CancelAnswered(c)
         PROVE  IInv' /\ Forward
    BY <1>10, DoCancelStep, CancelAnsweredStep
  <1>11. ASSUME NEW c \in Detaches, DoDetach(c)
         PROVE  IInv' /\ Forward
    BY <1>11, DoDetachStep DEF DoDetach
  <1>12. CASE Reconnect \/ Recover
    BY <1>12, ReconnectStep, RecoverStep
  <1>13. CASE Turn \/ Milestone \/ Finish
    BY <1>13, TurnStep
  <1>14. CASE Disconnect \/ ServerRestart \/ DeviceRestart
    BY <1>14, DisconnectStep
  <1>15. CASE LoseOwner
    BY <1>15, LoseOwnerStep
  <1> QED BY <1>1, <1>2, <1>3, <1>4, <1>5, <1>6, <1>7, <1>8, <1>9, <1>10, <1>11, <1>12,
             <1>13, <1>14, <1>15 DEF Next

-----------------------------------------------------------------------------
(* The inductive invariant holds in every behaviour.                       *)
THEOREM Inductive == Spec => []IInv
PROOF
  <1>1. IInv /\ [Next]_vars => IInv'
    BY StepIInv
  <1> QED BY InitIInv, <1>1, PTL DEF Spec

(* What the invariant says of an operation.                                *)
LEMMA InvariantTells == IInv => SentOnce /\ ExecutedOnce /\ ToldOnce
PROOF
  <1> SUFFICES ASSUME IInv  PROVE SentOnce /\ ExecutedOnce /\ ToldOnce
    OBVIOUS
  <1>1. SentOnce /\ ExecutedOnce
    BY DEF IInv, SendInv, ExecInv, SentOnce, ExecutedOnce
  <1>2. ToldOnce
    <2>1. (run = "completed") <=> (Known(P) /\ Settled(row[P]))
      BY Constants DEF IInv, RunInv, Known
    <2>2. CASE run = "completed"
      <3>1. PICK s \in Statuses : told = <<s>>
        BY <2>2 DEF IInv, RunInv
      <3> QED BY <2>1, <2>2, <3>1 DEF ToldOnce
    <2>3. CASE run # "completed"
      BY <2>1, <2>3 DEF ToldOnce, IInv, RunInv
    <2> QED BY <2>2, <2>3
  <1> QED BY <1>1, <1>2

(* The server sends the command of a delegated operation at most once,     *)
(* however often execute() is repeated after lost answers and restarts     *)
(* (ExternalAgents!SentOnce).                                              *)
THEOREM CommandSentOnce == Spec => []SentOnce
PROOF
  <1> QED BY InvariantTells, Inductive, PTL

(* The connector carries no command out twice, the cancellation that       *)
(* maintenance sends again and again included                              *)
(* (ExternalAgents!ExecutedOnce).                                          *)
THEOREM CommandExecutedOnce == Spec => []ExecutedOnce
PROOF
  <1> QED BY InvariantTells, Inductive, PTL

(* The Work is told of the end once, and exactly when the receipt of the   *)
(* operation is settled, by a reply, an event, a control's answer or a     *)
(* query, whichever commits first (ExternalAgents!ToldOnce).               *)
THEOREM EndToldOnce == Spec => []ToldOnce
PROOF
  <1> QED BY InvariantTells, Inductive, PTL

(* The server's receipt never goes back to an older state of the device    *)
(* and never changes once it is settled (ExternalAgents!OrderIsKept).      *)
THEOREM ReceiptsGoForward == Spec => OrderIsKept
PROOF
  <1>1. IInv /\ [Next]_vars => [Forward]_vars
    BY StepIInv
  <1> QED BY <1>1, Inductive, PTL DEF Spec, OrderIsKept

-----------------------------------------------------------------------------
(* What the receipts of an operation rest on.                              *)

(* What a command of P says of its target: nothing.                        *)
Plain == Named(Absent)

Stopped == native \in {"cancelled", "withdrawn"}

(* The agent was not given P, and will not be.                             *)
Untaken == native = "none" /\ P \notin ex /\ jr[P] # Absent

(* What a receipt of P may say.                                            *)
Echo(r) ==
    /\ r.status = "completed" =>
          native = "completed" /\ jr[P].status = "completed" /\ r.text = jr[P].text
    /\ r.status = "cancelled" => Stopped
    /\ r.status = "failed" => native = "failed" \/ Untaken
    /\ r.status = "detached" => jdet

(* What the receipt of a control may say of P.                             *)
ControlEcho(c, r) ==
    /\ r.status = "completed" =>
          IF c \in Detaches THEN jdet
          ELSE native = "completed" /\ jr[c].status = "completed" /\ jr[c].seq = r.seq
    /\ r.status = "cancelled" => Stopped

(* The row may also repeat the answer to a cancellation that found P over. *)
Crossed(r) ==
    /\ r.status = "completed" /\ native = "completed"
    /\ \E c \in Cancels \cup {Retire} : jr[c].status = "completed" /\ jr[c].seq = r.seq

InOrder(r) == r = Absent \/ r.seq \in Nat

(* The journal and the agent agree on the end of P.                        *)
ReceiptInv ==
    /\ InOrder(jr[P]) /\ Echo(jr[P])
    /\ jcmd[P] = Plain
    /\ jdet \in BOOLEAN
    /\ \A c \in Controls \cup {Retire} : ControlEcho(c, jr[c])

(* What is known of an end that the journal did not get from its event.    *)
DriverInv ==
    /\ faults \in Nat
    /\ faults = 0 => driver = "attached"
    /\ driver = "attached" /\ native \in Ended => Settled(jr[P])
    /\ recovery.found \in Ended =>
          native = recovery.found /\ (faults = 0 => Settled(jr[P]))
    /\ jr[P].status = "completed" /\ jr[P].text = FALSE => faults # 0
    /\ jdet => Settled(jr[P])
    /\ \A c \in asked : ~jcmd[c].exec => native = "withdrawn"

ReplyTrue(m) == IF m.cmd \in {P, Get} THEN InOrder(m.res) /\ Echo(m.res)
                ELSE ControlEcho(m.cmd, m.res)

WireInv ==
    /\ \A m \in down : m.cmd = P => Named(m) = Plain
    /\ \A m \in up : ReplyTrue(m)
    /\ \A i \in 1 .. Len(jq) : jq[i].seq \in Nat /\ Echo(jq[i])
    /\ \A c \in Controls \cup {Retire} : ControlEcho(c, answer[c])

(* The row repeats the journal, or says that P never left.                 *)
RowInv ==
    /\ row[P] = Refused => sends = 0 /\ call[P] # "prepared"
    /\ row[P] = Refused \/ Echo(row[P]) \/ Crossed(row[P])
    /\ sends = 0 => jr[P] = Absent /\ \A m \in down : m.cmd # P

Evidence == ReceiptInv /\ WireInv /\ RowInv

(* What no step takes back.                                                *)
EvidenceGrows ==
    /\ native \in Ended \cup {"withdrawn"} => native' = native
    /\ jr[P].status = "completed" =>
          jr'[P].status = "completed" /\ jr'[P].text = jr[P].text
    /\ \A c \in Controls \cup {Retire} : jr[c].status = "completed" => jr'[c] = jr[c]
    /\ Untaken => Untaken'
    /\ jdet => jdet'

LEMMA EndLasts ==
    ASSUME EvidenceGrows
    PROVE  /\ Stopped => Stopped'
           /\ native = "completed" => native' = "completed"
           /\ native = "failed" => native' = "failed"
PROOF BY DEF EvidenceGrows, Stopped, Ended

LEMMA EchoLasts ==
    ASSUME EvidenceGrows, NEW r, Echo(r)
    PROVE  Echo(r)'
PROOF BY EndLasts DEF EvidenceGrows, Echo

LEMMA CrossedLasts ==
    ASSUME EvidenceGrows, NEW r, Crossed(r)
    PROVE  Crossed(r)'
PROOF
  <1>1. Cancels \cup {Retire} \subseteq Controls \cup {Retire}
    BY Names
  <1> QED BY <1>1, EndLasts DEF EvidenceGrows, Crossed

LEMMA ControlEchoLasts ==
    ASSUME EvidenceGrows, NEW c \in Controls \cup {Retire}, NEW r, ControlEcho(c, r)
    PROVE  ControlEcho(c, r)'
PROOF BY EndLasts DEF EvidenceGrows, ControlEcho

LEMMA ReplyLasts ==
    ASSUME EvidenceGrows, NEW m, m.cmd \in Journaled \cup {Get}, ReplyTrue(m)
    PROVE  ReplyTrue(m)'
PROOF
  <1>1. CASE m.cmd \in {P, Get}
    <2>1. PICK s : s = m.res
      OBVIOUS
    <2>2. Echo(s)'
      BY <1>1, <2>1, EchoLasts DEF ReplyTrue
    <2> QED BY <1>1, <2>1, <2>2 DEF ReplyTrue, InOrder
  <1>2. CASE m.cmd \notin {P, Get}
    <2>1. PICK s, c : s = m.res /\ c = m.cmd
      OBVIOUS
    <2>2. c \in Controls \cup {Retire}
      BY <1>2, <2>1 DEF Journaled
    <2>3. ControlEcho(c, s)'
      BY <1>2, <2>1, <2>2, ControlEchoLasts DEF ReplyTrue
    <2> QED BY <1>2, <2>1, <2>3 DEF ReplyTrue
  <1> QED BY <1>1, <1>2

(* A step of the server writes its row and its calls, and drops what it    *)
(* has taken from the wire.                                                *)
LEMMA ServerKeeps ==
    ASSUME IInv, Evidence, UNCHANGED <<jr, jdet, jcmd, native, ex>>,
           \A i \in 1 .. Len(jq') : \E k \in 1 .. Len(jq) : jq'[i] = jq[k],
           \A m \in down' : m \in down \/ (m.cmd = P => Named(m) = Plain /\ sends' # 0),
           \A m \in up' : m \in up,
           \A c \in Controls \cup {Retire} : answer'[c] = answer[c] \/ ControlEcho(c, answer'[c]),
           row'[P] = Refused => sends' = 0 /\ call'[P] # "prepared",
           row'[P] = row[P] \/ row'[P] = Refused \/ Echo(row'[P]) \/ Crossed(row'[P]),
           sends' = 0 => sends = 0
    PROVE  Evidence'
PROOF
  <1>1. ReceiptInv'
    BY DEF Evidence, ReceiptInv, InOrder, Echo, ControlEcho, Stopped, Untaken, Plain
  <1>2. ASSUME NEW m \in up'  PROVE ReplyTrue(m)'
    <2>1. ReplyTrue(m)
      BY DEF Evidence, WireInv
    <2> QED BY <2>1 DEF ReplyTrue, InOrder, Echo, ControlEcho, Stopped, Untaken
  <1>3. ASSUME NEW i \in 1 .. Len(jq')  PROVE jq'[i].seq \in Nat /\ Echo(jq[i])'
    <2>1. PICK k \in 1 .. Len(jq) : jq'[i] = jq[k]
      OBVIOUS
    <2>2. jq[k].seq \in Nat /\ Echo(jq[k])
      BY DEF Evidence, WireInv
    <2> QED BY <2>1, <2>2 DEF Echo, Stopped, Untaken
  <1>4. ASSUME NEW c \in Controls \cup {Retire}  PROVE ControlEcho(c, answer[c])'
    <2>1. ControlEcho(c, answer'[c])
      BY DEF Evidence, WireInv
    <2> QED BY <2>1 DEF ControlEcho, Stopped
  <1>5. \A m \in down' : m.cmd = P => Named(m) = Plain
    BY DEF Evidence, WireInv
  <1>6. row'[P] = Refused \/ Echo(row[P])' \/ Crossed(row[P])'
    <2>1. row'[P] = Refused \/ Echo(row'[P]) \/ Crossed(row'[P])
      BY DEF Evidence, RowInv
    <2> QED BY <2>1 DEF Echo, Crossed, Stopped, Untaken
  <1>7. RowInv'
    BY <1>6 DEF Evidence, RowInv
  <1> QED BY <1>1, <1>2, <1>3, <1>4, <1>5, <1>7 DEF Evidence, WireInv, Plain, Named

(* A step of the device adds replies and events.                           *)
LEMMA DeviceKeeps ==
    ASSUME IInv, Evidence, EvidenceGrows, ReceiptInv', UNCHANGED <<row, sends, answer>>,
           call'[P] = call[P] \/ call'[P] # "prepared",
           \A m \in down' : m \in down,
           \A m \in up' : m \in up \/ ReplyTrue(m)',
           \A i \in 1 .. Len(jq') : \/ i \in 1 .. Len(jq) /\ jq'[i] = jq[i]
                                    \/ jq'[i].seq \in Nat /\ Echo(jq[i])',
           jr'[P] = Absent \/ jr[P] # Absent \/ sends # 0
    PROVE  Evidence'
PROOF
  <1>1. ASSUME NEW m \in up'  PROVE ReplyTrue(m)'
    <2>1. CASE m \in up
      <3>1. m.cmd \in Journaled \cup {Get} /\ ReplyTrue(m)
        BY <2>1 DEF IInv, Wire, Evidence, WireInv
      <3> QED BY <3>1, ReplyLasts
    <2> QED BY <2>1
  <1>2. ASSUME NEW i \in 1 .. Len(jq')  PROVE jq'[i].seq \in Nat /\ Echo(jq[i])'
    <2>1. CASE i \in 1 .. Len(jq) /\ jq'[i] = jq[i]
      <3>1. PICK s : s = jq[i]
        OBVIOUS
      <3>2. s.seq \in Nat /\ Echo(s)
        BY <2>1, <3>1 DEF Evidence, WireInv
      <3>3. Echo(s)'
        BY <3>2, EchoLasts
      <3> QED BY <2>1, <3>1, <3>2, <3>3
    <2> QED BY <2>1
  <1>3. ASSUME NEW c \in Controls \cup {Retire}  PROVE ControlEcho(c, answer[c])'
    <2>1. PICK s : s = answer[c]
      OBVIOUS
    <2>2. ControlEcho(c, s)
      BY <2>1 DEF Evidence, WireInv
    <2> QED BY <2>1, <2>2, ControlEchoLasts
  <1>4. row'[P] = Refused \/ Echo(row[P])' \/ Crossed(row[P])'
    <2>1. PICK s : s = row[P]
      OBVIOUS
    <2>2. s = Refused \/ Echo(s) \/ Crossed(s)
      BY <2>1 DEF Evidence, RowInv
    <2> QED BY <2>1, <2>2, EchoLasts, CrossedLasts
  <1>5. RowInv'
    BY <1>4 DEF Evidence, RowInv
  <1>6. \A m \in down' : m.cmd = P => Named(m) = Plain
    BY DEF Evidence, WireInv
  <1> QED BY <1>1, <1>2, <1>3, <1>5, <1>6 DEF Evidence, WireInv, Plain, Named


-----------------------------------------------------------------------------
(* The server's steps.                                                     *)

(* A receipt that is projected is taken, or changes nothing.               *)
LEMMA ProjectRow ==
    ASSUME IInv, NEW c \in {P} \cup Controls, NEW r, Commit(c, r)
    PROVE  row'[P] = row[P] \/ (c = P /\ row'[P] = r)
PROOF BY DEF Commit, Project, IInv, Rows

(* Made-up receipts say nothing of an end.                                 *)
LEMMA Blank ==
    ASSUME NEW r, r \in {Absent, NoReceipt, Initial, Unknown}
    PROVE  Echo(r) /\ (\A c : ControlEcho(c, r)) /\ r # Refused
PROOF
  BY DEF Absent, NoReceipt, Initial, Unknown, Refused, Receipt, Echo, ControlEcho

LEMMA ServerEvidence ==
    ASSUME IInv, Evidence,
           \/ \E c \in {P} \cup Controls : Call(c) \/ Dispatch(c)
           \/ Query \/ Maintain
           \/ \E m \in up : Reply(m)
           \/ \E c \in Controls \cup {Retire} : ControlResult(c)
           \/ ReceiveEvent \/ Acknowledge
    PROVE  Evidence'
PROOF
  <1>1. UNCHANGED <<jr, jdet, jcmd, native, ex>>
    BY DEF Call, Dispatch, Query, Maintain, Reply, ControlResult, ReceiveEvent, Acknowledge,
           device, journal, wire, agent
  <1>2. \A i \in 1 .. Len(jq) : \E k \in 1 .. Len(jq) : jq[i] = jq[k]
    OBVIOUS
  <1>3. \A c \in Controls \cup {Retire} : c \in Journaled /\ c # P /\ c # Get
    BY Names
  <1>4. row[P] = Refused => sends = 0 /\ call[P] # "prepared"
    BY DEF Evidence, RowInv
  <1>5. ASSUME NEW c \in {P} \cup Controls, Call(c)
        PROVE  Evidence'
    <2>1. UNCHANGED <<jq, down, up, answer, sends>>
      BY <1>5 DEF Call, device, journal, wire, bounds
    <2>2. row'[P] = row[P] \/ row'[P] = NoReceipt
      BY <1>5 DEF Call, IInv, Rows
    <2>3. row'[P] = Refused => row[P] = Refused
      BY <2>2, Blank
    <2>4. row[P] = Refused => call'[P] # "prepared"
      <3>1. row[P] = Refused => Known(P)
        BY Constants DEF Known
      <3>2. call' = [call EXCEPT ![c] = "done"] \/ (call' = [call EXCEPT ![c] = "prepared"] /\ ~Known(c))
        BY <1>5 DEF Call, Replayed
      <3> QED BY <1>4, <3>1, <3>2, Names DEF IInv, Process
    <2> QED BY <1>1, <1>2, <1>4, <2>1, <2>2, <2>3, <2>4, Blank, ServerKeeps
  <1>6. ASSUME NEW c \in {P} \cup Controls, Dispatch(c)
        PROVE  Evidence'
    <2>1. /\ UNCHANGED <<jq, up, answer>> /\ call[c] = "prepared"
          /\ call' \in {[call EXCEPT ![c] = "sent"], [call EXCEPT ![c] = "done"]}
      BY <1>6 DEF Dispatch, device, journal
    <2>2. row'[P] = row[P] \/ (c = P /\ row'[P] = Refused /\ sends' = sends)
      BY <1>6, ProjectRow DEF Dispatch
    <2>3. row'[P] = Refused => sends' = 0 /\ call'[P] # "prepared"
      <3>1. call'[P] # "prepared" \/ (call'[P] = call[P] /\ c # P)
        BY <2>1, Names DEF IInv, Process
      <3>2. c = P => sends = 0 /\ row[P] # Refused
        BY <1>4, <2>1 DEF IInv, SendInv
      <3>3. c # P => sends' = sends
        BY <1>6 DEF Dispatch
      <3> QED BY <1>4, <2>2, <3>1, <3>2, <3>3
    <2>4. \A m \in down' : m \in down \/ (m.cmd = P => Named(m) = Plain /\ sends' # 0)
      <3>1. \/ down' = down
            \/ down' = down \cup {Command(c, IF c = P THEN NoReceipt ELSE snap[c])}
               /\ (c = P => sends' = sends + 1)
        BY <1>6 DEF Dispatch
      <3>2. Command(c, snap[c]).cmd = c
        BY DEF Command
      <3>3. Command(P, NoReceipt).cmd = P /\ Named(Command(P, NoReceipt)) = Plain
        BY DEF Command, Named, Plain, NoReceipt, Absent, Receipt
      <3>4. sends + 1 # 0
        BY DEF IInv, SendInv
      <3> QED BY <3>1, <3>2, <3>3, <3>4
    <2>5. sends' = 0 => sends = 0
      BY <1>6 DEF Dispatch, IInv, SendInv
    <2> QED BY <1>1, <1>2, <2>1, <2>2, <2>3, <2>4, <2>5, ServerKeeps
  <1>7. CASE Query \/ Maintain
    <2>1. UNCHANGED <<row, jq, up, answer, sends>>
      BY <1>7 DEF Query, Maintain, server, device, journal, bounds
    <2>2. call'[P] = call[P]
      BY <1>7, Names DEF Query, Maintain, IInv, Process
    <2>3. \A m \in down' : m \in down \/ m.cmd # P
      BY <1>7, Names DEF Query, Maintain, Command
    <2> QED BY <1>1, <1>2, <1>4, <2>1, <2>2, <2>3, ServerKeeps
  <1>8. ASSUME NEW m \in up, Reply(m)
        PROVE  Evidence'
    <2>1. UNCHANGED <<jq, down, sends>> /\ up' = up \ {m}
      BY <1>8 DEF Reply, device, journal, bounds
    <2>2. m.cmd \in Journaled \cup {Get} /\ (m.cmd # Get => m.res # Absent) /\ ReplyTrue(m)
      BY DEF IInv, Wire, Evidence, WireInv
    <2>3. m.cmd \in {P, Get} /\ m.res # Absent => m.res # Refused /\ Echo(m.res)
      BY <2>2 DEF ReplyTrue, InOrder, Refused, Receipt, NoSeq
    <2>4. \A c \in Controls \cup {Retire} : answer'[c] = answer[c] \/ ControlEcho(c, answer'[c])
      <3> SUFFICES ASSUME NEW c \in Controls \cup {Retire}
                   PROVE  answer'[c] = answer[c] \/ ControlEcho(c, answer'[c])
        OBVIOUS
      <3>1. \/ answer' = answer
            \/ m.cmd \in Controls \cup {Retire} /\ answer' = [answer EXCEPT ![m.cmd] = m.res]
        <4>1. CASE m.cmd \in {P, Get}
          BY <1>8, <4>1, Names DEF Reply
        <4>2. CASE m.cmd = Retire
          BY <1>8, <4>2, Names DEF Reply
        <4>3. CASE m.cmd \in Controls
          BY <1>3, <1>8, <4>3, Names DEF Reply
        <4> QED BY <2>2, <4>1, <4>2, <4>3 DEF Journaled
      <3>2. m.cmd \in Controls \cup {Retire} => ControlEcho(m.cmd, m.res)
        BY <1>3, <2>2, Names DEF ReplyTrue
      <3> QED BY <3>1, <3>2 DEF IInv, Process
    <2>5. row'[P] = row[P] \/ (m.cmd \in {P, Get} /\ m.res # Absent /\ row'[P] = m.res)
      <3>1. CASE m.cmd = Get
        BY <1>8, <3>1, ProjectRow, Names DEF Reply, Reconciled
      <3>2. CASE m.cmd = P
        BY <1>8, <2>2, <3>2, ProjectRow, Names DEF Reply
      <3>3. CASE m.cmd \in Controls
        BY <1>3, <1>8, <3>3, ProjectRow, Names DEF Reply
      <3>4. CASE m.cmd = Retire
        BY <1>8, <3>4, Names DEF Reply
      <3> QED BY <2>2, <3>1, <3>2, <3>3, <3>4 DEF Journaled
    <2>6. call'[P] = call[P] \/ call'[P] # "prepared"
      <3>1. call' \in {[call EXCEPT ![m.cmd] = s] : s \in {"idle", "done", "answered"}}
        <4>1. CASE m.cmd \in {P, Get}
          BY <1>8, <4>1, Names DEF Reply
        <4>2. CASE m.cmd = Retire
          BY <1>8, <4>2, Names DEF Reply
        <4>3. CASE m.cmd \in Controls
          BY <1>3, <1>8, <4>3, Names DEF Reply
        <4> QED BY <2>2, <4>1, <4>2, <4>3 DEF Journaled
      <3> QED BY <3>1, Names DEF IInv, Process
    <2> QED BY <1>1, <1>2, <1>4, <2>1, <2>3, <2>4, <2>5, <2>6, ServerKeeps
  <1>9. ASSUME NEW c \in Controls \cup {Retire}, ControlResult(c)
        PROVE  Evidence'
    <2>1. /\ UNCHANGED <<jq, down, up, sends>> /\ call' = [call EXCEPT ![c] = Back(c)]
          /\ answer' = [answer EXCEPT ![c] = NoReceipt]
      BY <1>9 DEF ControlResult, device, journal, wire, bounds
    <2>2. call'[P] = call[P]
      BY <1>3, <2>1, Names DEF IInv, Process
    <2>3. \A d \in Controls \cup {Retire} : answer'[d] = answer[d] \/ ControlEcho(d, answer'[d])
      BY <2>1, Blank DEF IInv, Process
    <2>4. ControlEcho(c, answer[c])
      BY DEF Evidence, WireInv
    <2>5. row'[P] = row[P] \/ (row'[P] # Refused /\ (Echo(row'[P]) \/ Crossed(row'[P])))
      <3>1. CASE c \in Detaches /\ Outcome(c) = "completed"
        <4>1. Detached /\ jdet
          BY <1>9, <2>4, <3>1 DEF ControlResult, ControlEcho, Outcome
        <4>2. row'[P] = row[P] \/ row'[P].status = "detached"
          BY <4>1 DEF Detached, IInv, Rows, Rcpt
        <4> QED BY <4>1, <4>2 DEF Echo, Refused, Receipt
      <3>2. CASE c \notin Detaches /\ Outcome(c) \in {"completed", "cancelled"}
        <4> DEFINE r == [snap[c] EXCEPT !.seq = answer[c].seq, !.status = Outcome(c)]
        <4>1. Commit(P, r)
          BY <1>9, <3>2 DEF ControlResult
        <4>2. r.status = answer[c].status /\ r.seq = answer[c].seq
          BY DEF Outcome, IInv, Process, Rcpt
        <4> HIDE DEF r
        <4>3. row'[P] = row[P] \/ row'[P] = r
          BY <4>1, ProjectRow
        <4>4. r # Refused
          BY <3>2, <4>2 DEF Outcome, Refused, Receipt
        <4>5. c \in Cancels \cup {Retire}
          BY <3>2 DEF Controls
        <4>6. Echo(r) \/ Crossed(r)
          BY <2>4, <3>2, <4>2, <4>5 DEF ControlEcho, Echo, Crossed, Outcome
        <4> QED BY <4>3, <4>4, <4>6
      <3>3. CASE /\ ~(c \in Detaches /\ Outcome(c) = "completed")
                 /\ ~(c \notin Detaches /\ Outcome(c) \in {"completed", "cancelled"})
        BY <1>9, <3>3 DEF ControlResult
      <3> QED BY <3>1, <3>2, <3>3
    <2> QED BY <1>1, <1>2, <1>4, <2>1, <2>2, <2>3, <2>5, ServerKeeps
  <1>10. CASE ReceiveEvent
    <2>1. UNCHANGED <<call, jq, down, up, answer, sends>> /\ recv < Len(jq)
      BY <1>10 DEF ReceiveEvent, process, device, journal, bounds
    <2>2. recv + 1 \in 1 .. Len(jq)
      BY <2>1 DEF IInv, Journal
    <2>3. jq[recv + 1].seq \in Nat /\ Echo(jq[recv + 1])
      BY <2>2 DEF Evidence, WireInv
    <2>4. row'[P] = row[P] \/ row'[P] = jq[recv + 1]
      BY <1>10, ProjectRow DEF ReceiveEvent
    <2>5. jq[recv + 1] # Refused
      BY <2>3 DEF Refused, Receipt, NoSeq
    <2> QED BY <1>1, <1>2, <1>4, <2>1, <2>3, <2>4, <2>5, ServerKeeps
  <1>11. CASE Acknowledge
    <2>1. UNCHANGED <<row, call, down, up, answer, sends>> /\ jq' = Tail(jq)
      BY <1>11 DEF Acknowledge, server, process, bounds
    <2>2. jq # <<>> /\ jq \in Seq(Rcpt)
      BY <1>11 DEF Acknowledge, IInv, Journal
    <2>3. \A i \in 1 .. Len(Tail(jq)) : Tail(jq)[i] = jq[i + 1] /\ i + 1 \in 1 .. Len(jq)
      BY <2>2
    <2> QED BY <1>1, <1>4, <2>1, <2>3, ServerKeeps
  <1> QED BY <1>5, <1>6, <1>7, <1>8, <1>9, <1>10, <1>11


-----------------------------------------------------------------------------
(* What the steps of the device do to its receipts.                        *)

(* fold_receipt(): a settled receipt keeps its status and its answer.      *)
LEMMA FoldSays ==
    ASSUME NEW old \in Rcpt, NEW r \in Rcpt, NEW n \in Nat
    PROVE  /\ Settled(old) => /\ Fold(old, r, n).status = old.status
                              /\ Fold(old, r, n).text = old.text
           /\ ~Settled(old) => /\ Fold(old, r, n).status = r.status
                               /\ Fold(old, r, n).text = (old.text \/ r.text)
PROOF
  <1>1. CASE Settled(old)
    BY <1>1 DEF Fold, Rcpt, Seqs
  <1>2. CASE ~Settled(old)
    <2> DEFINE e == old.exec \/ r.exec
               t == old.text \/ r.text
               b == old.sub \/ r.sub
    <2>1. Fold(old, r, n) = [r EXCEPT !.seq = n, !.exec = e, !.text = t, !.sub = b]
      BY <1>2 DEF Fold
    <2>2. t = (old.text \/ r.text)
      OBVIOUS
    <2>3. e \in BOOLEAN /\ t \in BOOLEAN /\ b \in BOOLEAN
      BY DEF Rcpt
    <2> HIDE DEF e, t, b
    <2>4. Fold(old, r, n).status = r.status /\ Fold(old, r, n).text = t
      BY <2>1, <2>3 DEF Rcpt
    <2> QED BY <1>2, <2>2, <2>4
  <1> QED BY <1>1, <1>2

(* A durable event.                                                        *)
LEMMA AppendSays ==
    ASSUME IInv, NEW r \in Rcpt, Append1(r) \/ UNCHANGED <<jr, jq, clock>>
    PROVE  \/ jr' = jr /\ jq' = jq
           \/ /\ jr[P] # Absent /\ ~jdet /\ jq' = Append(jq, jr'[P])
              /\ \A c \in Controls \cup {Retire} : jr'[c] = jr[c]
              /\ jr'[P] \in Rcpt /\ jr'[P].seq \in Nat
              /\ Settled(jr[P]) => jr'[P].status = jr[P].status /\ jr'[P].text = jr[P].text
              /\ ~Settled(jr[P]) => /\ jr'[P].status = r.status
                                    /\ jr'[P].text = (jr[P].text \/ r.text)
PROOF
  <1>1. CASE UNCHANGED <<jr, jq, clock>>
    BY <1>1
  <1>2. CASE ~UNCHANGED <<jr, jq, clock>>
    <2> DEFINE e == Fold(jr[P], r, clock + 1)
    <2>1. /\ jr[P] # Absent /\ ~jdet /\ jr' = [jr EXCEPT ![P] = e] /\ jq' = Append(jq, jr'[P])
      BY <1>2 DEF Append1, Recorded
    <2>2. jr[P] \in Rcpt /\ clock + 1 \in Nat
      BY Names DEF IInv, Journal
    <2>3. e \in Rcpt /\ e.seq = clock + 1
      BY <2>2, FoldResult
    <2>4. /\ Settled(jr[P]) => e.status = jr[P].status /\ e.text = jr[P].text
          /\ ~Settled(jr[P]) => e.status = r.status /\ e.text = (jr[P].text \/ r.text)
      BY <2>2, FoldSays
    <2> HIDE DEF e
    <2>5. jr'[P] = e /\ \A c \in Controls \cup {Retire} : jr'[c] = jr[c]
      BY <2>1, Names DEF IInv, Journal
    <2> QED BY <2>1, <2>2, <2>3, <2>4, <2>5
  <1> QED BY <1>1, <1>2

(* The result of a command that was executed: of P,                        *)
LEMMA AdmissionSays ==
    ASSUME IInv, P \in ex, NEW r \in Rcpt, Complete(P, r, "none")
    PROVE  /\ \A c \in Controls \cup {Retire} : jr'[c] = jr[c]
           /\ jr'[P] \in Rcpt /\ jr'[P].seq \in Nat
           /\ jr[P].status # "unconfirmed" =>
                 jr'[P].status = jr[P].status /\ jr'[P].text = jr[P].text
           /\ jr[P].status = "unconfirmed" => jr'[P].status = r.status
           /\ ex' = ex \ {P} /\ jdet' = (jdet \/ FALSE)
           /\ up' = up \/ up' = up \cup {[cmd |-> P, res |-> jr'[P]]}
PROOF
  <1> DEFINE own == Own(P, r, clock + 1)
  <1>1. jr[P] \in Rcpt /\ clock + 1 \in Nat
    BY Names DEF IInv, Journal
  <1>2. own \in Rcpt /\ own.seq = clock + 1
    BY <1>1, OwnResult, Names DEF IInv
  <1>4. jr[P].status # "unconfirmed" => own.status = jr[P].status /\ own.text = jr[P].text
    <2> SUFFICES ASSUME jr[P].status # "unconfirmed"
                 PROVE  own.status = jr[P].status /\ own.text = jr[P].text
      OBVIOUS
    <2> DEFINE e == jr[P].exec \/ r.exec
               b == jr[P].sub \/ r.sub
    <2>1. own = [jr[P] EXCEPT !.seq = clock + 1, !.exec = e, !.sub = b]
      BY DEF Own
    <2> HIDE DEF e, b, own
    <2> QED BY <1>1, <2>1 DEF Rcpt
  <1>5. jr[P].status = "unconfirmed" => own.status = r.status
    <2> SUFFICES ASSUME jr[P].status = "unconfirmed"  PROVE own.status = r.status
      OBVIOUS
    <2>1. own = Fold(jr[P], r, clock + 1) /\ ~Settled(jr[P])
      BY DEF Own, Settled, Final
    <2> HIDE DEF own
    <2> QED BY <1>1, <2>1, FoldSays
  <1>6. jr' = [jr EXCEPT ![P] = own]
    BY DEF Complete
  <1>7. /\ ex' = ex \ {P} /\ jdet' = (jdet \/ FALSE)
        /\ up' = up \/ up' = up \cup {[cmd |-> P, res |-> own]}
    BY DEF Complete
  <1> HIDE DEF own
  <1>8. jr'[P] = own /\ \A c \in Controls \cup {Retire} : jr'[c] = jr[c]
    BY <1>6, Names DEF IInv, Journal
  <1> QED BY <1>1, <1>2, <1>4, <1>5, <1>7, <1>8

(* and of a control, which may settle P.                                   *)
LEMMA ResultSays ==
    ASSUME IInv, NEW c \in ex \cap (Controls \cup {Retire}), NEW r \in Rcpt,
           NEW end \in Statuses, Complete(c, r, end)
    PROVE  /\ \A d \in Controls \cup {Retire} : d # c => jr'[d] = jr[d]
           /\ jr[c].status = "unconfirmed" /\ jr'[c].status = r.status
           /\ jr'[P] \in Rcpt
           /\ jr'[P] = jr[P] \/ (end # "none" /\ jr'[P].seq \in Nat)
           /\ Settled(jr[P]) => jr'[P].status = jr[P].status /\ jr'[P].text = jr[P].text
           /\ ~Settled(jr[P]) => /\ jr'[P].status = IF end = "none" THEN jr[P].status ELSE end
                                 /\ jr'[P].text = jr[P].text
           /\ jr[P] # Absent => jr'[P] # Absent
           /\ ex' = ex \ {c} /\ jdet' = (jdet \/ end = "detached")
           /\ up' = up \/ up' = up \cup {[cmd |-> c, res |-> jr'[c]]}
PROOF
  <1> DEFINE n == clock + 1
             own == Own(c, r, n)
             w == Receipt(n, end, FALSE, FALSE)
             ended == Fold(jr[P], w, n)
  <1>1. c \in Journaled /\ c # P /\ jr[P] \in Rcpt /\ jr[c] \in Rcpt /\ n \in Nat
    BY Names DEF IInv, Journal
  <1>2. jr[c].status = "unconfirmed" /\ ~Settled(jr[c])
    BY <1>1 DEF IInv, ExecInv, Settled, Final
  <1>3. own = Fold(jr[c], r, n)
    BY <1>2 DEF Own
  <1>4. own.status = r.status
    BY <1>1, <1>2, <1>3, FoldSays
  <1>5. w \in Rcpt /\ w.status = end /\ w.text = FALSE
    BY <1>1, ReceiptType
  <1>6. ended \in Rcpt /\ ended.seq = n
    BY <1>1, <1>5, FoldResult
  <1>7. /\ Settled(jr[P]) => ended.status = jr[P].status /\ ended.text = jr[P].text
        /\ ~Settled(jr[P]) => ended.status = end /\ ended.text = (jr[P].text \/ FALSE)
    BY <1>1, <1>5, FoldSays
  <1>8. jr' = IF end # "none" THEN [jr EXCEPT ![c] = own, ![P] = ended]
              ELSE [jr EXCEPT ![c] = own]
    BY <1>1 DEF Complete, IInv, Journal
  <1>9. /\ ex' = ex \ {c} /\ jdet' = (jdet \/ end = "detached")
        /\ up' = up \/ up' = up \cup {[cmd |-> c, res |-> own]}
    BY DEF Complete
  <1> HIDE DEF own, w, ended
  <1>10. /\ jr'[c] = own /\ \A d \in Controls \cup {Retire} : d # c => jr'[d] = jr[d]
         /\ jr'[P] = IF end = "none" THEN jr[P] ELSE ended
    BY <1>1, <1>8, Names DEF IInv, Journal
  <1>11. ended # Absent
    BY <1>1, <1>6, Placed
  <1>12. jr[P].text \in BOOLEAN
    BY <1>1 DEF Rcpt
  <1>13. ~Settled(jr[P]) => /\ jr'[P].status = IF end = "none" THEN jr[P].status ELSE end
                            /\ jr'[P].text = jr[P].text
    BY <1>7, <1>10, <1>12
  <1>14. Settled(jr[P]) => jr'[P].status = jr[P].status /\ jr'[P].text = jr[P].text
    BY <1>7, <1>10
  <1>15. jr'[P] \in Rcpt /\ (jr'[P] = jr[P] \/ (end # "none" /\ jr'[P].seq \in Nat))
    BY <1>1, <1>6, <1>10
  <1> QED BY <1>2, <1>4, <1>9, <1>10, <1>11, <1>13, <1>14, <1>15

(* A withdrawal that was reported.                                         *)
LEMMA WithdrawalSays ==
    ASSUME IInv, NEW c \in ex \cap (Cancels \cup {Retire}),
           LET r1  == Fold(jr[P], Receipt(0, "cancelled", FALSE, FALSE), clock + 1)
               own == Receipt(clock + 2, "cancelled", FALSE, FALSE)
           IN  /\ jq' = IF jdet THEN jq ELSE Append(jq, r1)
               /\ jr' = [jr EXCEPT ![P] = Fold(r1, r1, clock + 2), ![c] = own]
               /\ up' = IF c \in live THEN up \cup {[cmd |-> c, res |-> own]} ELSE up
    PROVE  /\ jr[c].status = "unconfirmed" /\ jr'[c].status = "cancelled"
           /\ \A d \in Controls \cup {Retire} : d # c => jr'[d] = jr[d]
           /\ jr'[P] \in Rcpt /\ jr'[P].seq \in Nat /\ Settled(jr'[P])
           /\ Settled(jr[P]) => jr'[P].status = jr[P].status /\ jr'[P].text = jr[P].text
           /\ ~Settled(jr[P]) => jr'[P].status = "cancelled"
           /\ up' = up \/ up' = up \cup {[cmd |-> c, res |-> jr'[c]]}
           /\ \E r \in Rcpt : /\ r.seq \in Nat /\ (jq' = jq \/ jq' = Append(jq, r))
                              /\ r.status = jr'[P].status /\ r.text = jr'[P].text
PROOF
  <1> DEFINE w == Receipt(0, "cancelled", FALSE, FALSE)
             r1 == Fold(jr[P], w, clock + 1)
             r2 == Fold(r1, r1, clock + 2)
             own == Receipt(clock + 2, "cancelled", FALSE, FALSE)
  <1>1. /\ c \in Journaled /\ c # P /\ c \in Controls \cup {Retire} /\ jr[P] \in Rcpt
        /\ clock + 1 \in Nat /\ clock + 2 \in Nat /\ "cancelled" \in Statuses
    BY Names DEF IInv, Journal, Statuses, Final
  <1>2. jr[c].status = "unconfirmed"
    BY <1>1 DEF IInv, ExecInv
  <1>3. /\ w \in Rcpt /\ w.status = "cancelled" /\ own \in Rcpt /\ own.status = "cancelled"
    BY <1>1, ReceiptType
  <1>4. /\ r1 \in Rcpt /\ r1.seq = clock + 1
        /\ Settled(jr[P]) => r1.status = jr[P].status /\ r1.text = jr[P].text
        /\ ~Settled(jr[P]) => r1.status = "cancelled"
    <2> HIDE DEF w
    <2>1. r1 \in Rcpt /\ r1.seq = clock + 1
      BY <1>1, <1>3, FoldResult
    <2>2. Settled(jr[P]) => r1.status = jr[P].status /\ r1.text = jr[P].text
      BY <1>1, <1>3, FoldSays
    <2>3. ~Settled(jr[P]) => r1.status = w.status
      BY <1>1, <1>3, FoldSays
    <2> QED BY <1>3, <2>1, <2>2, <2>3
  <1>5. Settled(r1)
    BY <1>4 DEF Settled, Final
  <1>6. /\ jq' = jq \/ jq' = Append(jq, r1)
        /\ jr' = [jr EXCEPT ![P] = r2, ![c] = own]
        /\ up' = up \/ up' = up \cup {[cmd |-> c, res |-> own]}
    OBVIOUS
  <1> HIDE DEF r1
  <1>7. r2 \in Rcpt /\ r2.seq = clock + 2 /\ r2.status = r1.status /\ r2.text = r1.text
    BY <1>1, <1>4, <1>5, FoldResult, FoldSays
  <1> HIDE DEF r2, own, w
  <1>8. /\ jr'[P] = r2 /\ jr'[c] = own
        /\ \A d \in Controls \cup {Retire} : d # c => jr'[d] = jr[d]
    BY <1>1, <1>6, Names DEF IInv, Journal
  <1>9. Settled(jr'[P])
    BY <1>5, <1>7, <1>8 DEF Settled
  <1> QED BY <1>1, <1>2, <1>3, <1>4, <1>6, <1>7, <1>8, <1>9


-----------------------------------------------------------------------------
(* What follows of an end from a step of the device.                       *)

(* An event, or nothing; the agent may move.                               *)
LEMMA AppendEvidence ==
    ASSUME IInv, Evidence, NEW r \in Rcpt, Append1(r) \/ UNCHANGED <<jr, jq, clock>>,
           UNCHANGED <<row, sends, answer, jcmd, jdet>>,
           call'[P] = call[P] \/ call'[P] # "prepared",
           \A m \in down' : m \in down,
           \A m \in up' : m \in up \/ m = [cmd |-> Get, res |-> jr'[P]],
           ex' \in {{}, ex},
           native \in Ended \cup {"withdrawn"} => native' = native,
           native = "none" => native' = "none" \/ P \in ex,
           Settled(r) => Settled(jr[P]) \/ (r.status \in Ended /\ native' = r.status)
    PROVE  Evidence'
PROOF
  <1>1. /\ InOrder(jr[P]) /\ Echo(jr[P]) /\ jcmd[P] = Plain /\ jdet \in BOOLEAN
        /\ \A c \in Controls \cup {Retire} : ControlEcho(c, jr[c])
    BY DEF Evidence, ReceiptInv
  <1>2. \/ jr' = jr /\ jq' = jq
        \/ /\ jr[P] # Absent /\ ~jdet /\ jq' = Append(jq, jr'[P])
           /\ \A c \in Controls \cup {Retire} : jr'[c] = jr[c]
           /\ jr'[P] \in Rcpt /\ jr'[P].seq \in Nat
           /\ Settled(jr[P]) => jr'[P].status = jr[P].status /\ jr'[P].text = jr[P].text
           /\ ~Settled(jr[P]) => jr'[P].status = r.status
    BY AppendSays
  <1>3. /\ \A c \in Controls \cup {Retire} : jr'[c] = jr[c]
        /\ (jr'[P] = jr[P] \/ (jr[P] # Absent /\ jr'[P].seq \in Nat))
        /\ Settled(jr[P]) => jr'[P].status = jr[P].status /\ jr'[P].text = jr[P].text
        /\ ~Settled(jr[P]) => jr'[P].status = jr[P].status \/ jr'[P].status = r.status
    BY <1>2
  <1>4. EvidenceGrows
    <2>1. Untaken => Untaken'
      BY <1>3, Placed DEF Untaken
    <2> QED BY <1>3, <2>1 DEF EvidenceGrows, Settled, Final
  <1>5. Echo(jr[P])'
    <2>1. CASE jr'[P].status = jr[P].status
      BY <1>1, <1>3, <1>4, <2>1, EndLasts DEF Echo, EvidenceGrows, Settled, Final
    <2>2. CASE ~Settled(jr[P]) /\ jr'[P].status = r.status
      BY <2>2 DEF Echo, Settled, Final, Ended, Stopped
    <2> QED BY <1>3, <2>1, <2>2
  <1>6. ASSUME NEW c \in Controls \cup {Retire}  PROVE ControlEcho(c, jr[c])'
    <2>1. PICK s : s = jr[c]
      OBVIOUS
    <2> QED BY <1>1, <1>3, <1>4, <2>1, ControlEchoLasts
  <1>7. ReceiptInv'
    BY <1>1, <1>3, <1>5, <1>6 DEF ReceiptInv, InOrder, Plain, Named
  <1>8. ReplyTrue([cmd |-> Get, res |-> jr[P]])'
    BY <1>5, <1>7 DEF ReplyTrue, ReceiptInv
  <1>9. \A m \in up' : m \in up \/ ReplyTrue(m)'
    <2> SUFFICES ASSUME NEW m \in up', m \notin up  PROVE ReplyTrue(m)'
      OBVIOUS
    <2>1. m.cmd = Get /\ m.res = jr'[P]
      OBVIOUS
    <2> QED BY <1>5, <1>7, <2>1 DEF ReplyTrue, ReceiptInv, InOrder
  <1>10. \A i \in 1 .. Len(jq') : \/ i \in 1 .. Len(jq) /\ jq'[i] = jq[i]
                                  \/ jq'[i].seq \in Nat /\ Echo(jq[i])'
    <2>1. CASE jq' = jq
      BY <2>1
    <2>2. CASE jq' = Append(jq, jr'[P]) /\ jr'[P].seq \in Nat
      <3>1. jq \in Seq(Rcpt)
        BY DEF IInv, Journal
      <3> SUFFICES ASSUME NEW i \in 1 .. Len(jq'), i \notin 1 .. Len(jq)
                   PROVE  jq'[i].seq \in Nat /\ Echo(jq[i])'
        BY <2>2, <3>1
      <3>2. jq'[i] = jr'[P]
        BY <2>2, <3>1
      <3> QED BY <1>5, <2>2, <3>2
    <2> QED BY <1>2, <2>1, <2>2
  <1> QED BY <1>3, <1>4, <1>7, <1>9, <1>10, DeviceKeeps

(* The result of P.                                                        *)
LEMMA AdmissionEvidence ==
    ASSUME IInv, Evidence, P \in ex, NEW r \in Rcpt, Complete(P, r, "none"),
           UNCHANGED <<sends, jq, native>>,
           Settled(r) => r.status = "failed" /\ native = "none"
    PROVE  Evidence'
PROOF
  <1>1. /\ InOrder(jr[P]) /\ Echo(jr[P]) /\ jcmd[P] = Plain /\ jdet \in BOOLEAN
        /\ \A c \in Controls \cup {Retire} : ControlEcho(c, jr[c])
        /\ jr[P] # Absent
    BY DEF Evidence, ReceiptInv, IInv, ExecInv
  <1>2. UNCHANGED <<row, call, answer, down, jcmd>>
    BY DEF Complete, server, process
  <1>3. /\ \A c \in Controls \cup {Retire} : jr'[c] = jr[c]
        /\ jr'[P].seq \in Nat
        /\ jr[P].status # "unconfirmed" =>
              jr'[P].status = jr[P].status /\ jr'[P].text = jr[P].text
        /\ jr[P].status = "unconfirmed" => jr'[P].status = r.status
        /\ ex' = ex \ {P} /\ jdet' = (jdet \/ FALSE)
        /\ up' = up \/ up' = up \cup {[cmd |-> P, res |-> jr'[P]]}
    BY AdmissionSays
  <1>4. jdet' = jdet
    BY <1>1, <1>3
  <1>5. EvidenceGrows
    BY <1>3, <1>4 DEF EvidenceGrows, Untaken
  <1>6. jr'[P] # Absent
    BY <1>3, Constants DEF NoSeq
  <1>7. Echo(jr[P])'
    <2>1. CASE jr[P].status # "unconfirmed"
      BY <1>1, <1>3, <1>4, <2>1 DEF Echo, Stopped, Untaken
    <2>2. CASE jr[P].status = "unconfirmed"
      BY <1>3, <1>6, <2>2 DEF Echo, Settled, Final, Untaken
    <2> QED BY <2>1, <2>2
  <1>8. ASSUME NEW c \in Controls \cup {Retire}  PROVE ControlEcho(c, jr[c])'
    <2>1. PICK s : s = jr[c]
      OBVIOUS
    <2> QED BY <1>1, <1>3, <1>5, <2>1, ControlEchoLasts
  <1>9. ReceiptInv'
    BY <1>1, <1>2, <1>3, <1>4, <1>7, <1>8 DEF ReceiptInv, InOrder, Plain, Named
  <1>10. \A m \in up' : m \in up \/ ReplyTrue(m)'
    <2> SUFFICES ASSUME NEW m \in up', m \notin up  PROVE ReplyTrue(m)'
      OBVIOUS
    <2>1. m.cmd = P /\ m.res = jr'[P]
      BY <1>3
    <2> QED BY <1>3, <1>7, <2>1 DEF ReplyTrue, InOrder
  <1> QED BY <1>1, <1>2, <1>5, <1>9, <1>10, DeviceKeeps

(* The result of a control.                                                *)
LEMMA ResultEvidence ==
    ASSUME IInv, Evidence, NEW c \in ex \cap (Controls \cup {Retire}), NEW r \in Rcpt,
           NEW end \in Statuses, Complete(c, r, end), UNCHANGED <<sends, jq, native>>,
           end = "none" \/ (end = "detached" /\ jr[P] # Absent) \/ Settled(jr[P]),
           r.status = "completed" =>
              IF c \in Detaches THEN end = "detached" ELSE native = "completed",
           r.status = "cancelled" => Stopped
    PROVE  Evidence'
PROOF
  <1>1. /\ InOrder(jr[P]) /\ Echo(jr[P]) /\ jcmd[P] = Plain /\ jdet \in BOOLEAN
        /\ \A d \in Controls \cup {Retire} : ControlEcho(d, jr[d])
    BY DEF Evidence, ReceiptInv
  <1>2. UNCHANGED <<row, call, answer, down, jcmd>>
    BY DEF Complete, server, process
  <1>3. /\ \A d \in Controls \cup {Retire} : d # c => jr'[d] = jr[d]
        /\ jr[c].status = "unconfirmed" /\ jr'[c].status = r.status
        /\ jr'[P] = jr[P] \/ (end # "none" /\ jr'[P].seq \in Nat)
        /\ Settled(jr[P]) => jr'[P].status = jr[P].status /\ jr'[P].text = jr[P].text
        /\ ~Settled(jr[P]) => jr'[P].status = IF end = "none" THEN jr[P].status ELSE end
        /\ jr[P] # Absent => jr'[P] # Absent
        /\ ex' = ex \ {c} /\ jdet' = (jdet \/ end = "detached")
        /\ up' = up \/ up' = up \cup {[cmd |-> c, res |-> jr'[c]]}
    BY ResultSays
  <1>4. jdet' \in BOOLEAN /\ (jdet => jdet') /\ (end = "detached" => jdet')
    BY <1>1, <1>3
  <1>5. EvidenceGrows
    <2>1. Untaken => Untaken'
      BY <1>3 DEF Untaken
    <2> QED BY <1>3, <1>4, <2>1 DEF EvidenceGrows, Settled, Final
  <1>6. Echo(jr[P])'
    <2>1. CASE jr'[P].status = jr[P].status
      BY <1>1, <1>3, <1>4, <1>5, <2>1, EndLasts DEF Echo, EvidenceGrows, Settled, Final
    <2>2. CASE jr'[P].status = "detached" /\ jdet'
      BY <2>2 DEF Echo
    <2>3. CASE jr'[P].status = "none"
      BY <2>3 DEF Echo
    <2> QED BY <1>3, <1>4, <2>1, <2>2, <2>3
  <1>7. ControlEcho(c, jr[c])'
    BY <1>3, <1>4 DEF ControlEcho, Stopped
  <1>8. ASSUME NEW d \in Controls \cup {Retire}, d # c  PROVE ControlEcho(d, jr[d])'
    <2>1. PICK s : s = jr[d]
      OBVIOUS
    <2> QED BY <1>1, <1>3, <1>5, <1>8, <2>1, ControlEchoLasts
  <1>9. ReceiptInv'
    BY <1>1, <1>2, <1>3, <1>4, <1>6, <1>7, <1>8 DEF ReceiptInv, InOrder, Plain, Named
  <1>10. \A m \in up' : m \in up \/ ReplyTrue(m)'
    <2> SUFFICES ASSUME NEW m \in up', m \notin up  PROVE ReplyTrue(m)'
      OBVIOUS
    <2>1. m.cmd = c /\ m.res = jr'[c] /\ c \notin {P, Get}
      BY <1>3, Names
    <2> QED BY <1>7, <2>1 DEF ReplyTrue
  <1>11. jr'[P] = Absent \/ jr[P] # Absent \/ sends # 0
    BY <1>3, Constants
  <1> QED BY <1>2, <1>5, <1>9, <1>10, <1>11, DeviceKeeps


LEMMA BeginEvidence ==
    ASSUME IInv, Evidence, NEW m \in down, Begin(m)
    PROVE  Evidence'
PROOF
  <1> DEFINE c == m.cmd
  <1>1. /\ UNCHANGED <<row, call, answer, sends, jdet, jq, native>> /\ down' = down \ {m} /\ c # Get
    BY DEF Begin, server, process, agent, bounds
  <1>2. c \in Journaled /\ (c = P => Named(m) = Plain /\ sends # 0)
    BY <1>1 DEF IInv, Wire, Evidence, WireInv, RowInv
  <1>3. /\ InOrder(jr[P]) /\ Echo(jr[P]) /\ jcmd[P] = Plain /\ jdet \in BOOLEAN
        /\ \A d \in Controls \cup {Retire} : ControlEcho(d, jr[d])
    BY DEF Evidence, ReceiptInv
  <1>4. CASE jr[c] = Absent
    <2>1. /\ jr' = [jr EXCEPT ![c] = Initial] /\ jcmd' = [jcmd EXCEPT ![c] = Named(m)]
          /\ ex' = ex \cup {c} /\ up' = up
      BY <1>4 DEF Begin, Recorded
    <2>2. \A d \in Journaled : jr'[d] = IF d = c THEN Initial ELSE jr[d]
      BY <1>2, <2>1 DEF IInv, Journal
    <2>3. jcmd'[P] = Plain
      BY <1>2, <1>3, <2>1, Names DEF IInv, Journal
    <2>4. Initial.seq = 0 /\ Initial.status = "unconfirmed" /\ Absent.status = "absent"
      BY DEF Initial, Absent, Receipt
    <2>5. EvidenceGrows
      <3>1. Untaken => Untaken'
        BY <1>1, <1>4, <2>1, <2>2, Names DEF Untaken
      <3> QED BY <1>1, <1>4, <2>2, <2>4, <3>1, Names DEF EvidenceGrows
    <2>6. Echo(jr[P])'
      <3>1. CASE c = P
        BY <2>2, <2>4, <3>1, Names DEF Echo
      <3>2. CASE c # P
        <4>1. PICK s : s = jr[P]
          OBVIOUS
        <4> QED BY <1>3, <2>2, <2>5, <3>2, <4>1, EchoLasts, Names
      <3> QED BY <3>1, <3>2
    <2>7. ASSUME NEW d \in Controls \cup {Retire}  PROVE ControlEcho(d, jr[d])'
      <3>1. d \in Journaled
        BY Names
      <3>2. CASE d = c
        BY <2>2, <2>4, <3>1, <3>2 DEF ControlEcho
      <3>3. CASE d # c
        <4>1. PICK s : s = jr[d]
          OBVIOUS
        <4> QED BY <1>3, <2>2, <2>5, <3>1, <3>3, <4>1, ControlEchoLasts
      <3> QED BY <3>2, <3>3
    <2>8. ReceiptInv'
      BY <1>1, <1>3, <2>2, <2>3, <2>4, <2>6, <2>7, Names DEF ReceiptInv, InOrder, Plain, Named
    <2> QED BY <1>1, <1>2, <2>1, <2>2, <2>5, <2>8, DeviceKeeps, Names
  <1>5. CASE jr[c] # Absent
    <2> DEFINE r == IF jcmd[c] = Named(m) THEN jr[c] ELSE Refused
    <2>1. UNCHANGED <<jr, jcmd, ex>> /\ up' = up \cup {[cmd |-> c, res |-> r]}
      BY <1>5 DEF Begin, Recorded
    <2>2. c = P => r = jr[P]
      BY <1>2, <1>3
    <2>3. r = jr[c] \/ r = Refused
      OBVIOUS
    <2> HIDE DEF r
    <2>4. EvidenceGrows /\ ReceiptInv'
      BY <1>1, <2>1 DEF EvidenceGrows, Untaken, Evidence, ReceiptInv, InOrder, Echo, ControlEcho,
                        Stopped, Plain, Named
    <2>5. \A x \in up' : x \in up \/ ReplyTrue(x)'
      <3> SUFFICES ASSUME NEW x \in up', x \notin up  PROVE ReplyTrue(x)'
        OBVIOUS
      <3>1. x.cmd = c /\ x.res = r
        BY <2>1
      <3>2. CASE c = P
        BY <2>1, <2>2, <2>4, <3>1, <3>2 DEF ReplyTrue, ReceiptInv, InOrder, Echo, Stopped, Untaken
      <3>3. CASE c # P
        <4>1. c \in Controls \cup {Retire}
          BY <1>2, <3>3 DEF Journaled
        <4>2. ControlEcho(c, jr[c]) /\ ControlEcho(c, Refused)
          BY <1>3, <4>1 DEF ControlEcho, Refused, Receipt
        <4>3. ControlEcho(c, r)
          BY <2>3, <4>2
        <4> QED BY <1>1, <2>1, <3>1, <3>3, <4>3 DEF ReplyTrue, ControlEcho, Stopped
      <3> QED BY <3>2, <3>3
    <2> QED BY <1>1, <2>1, <2>4, <2>5, DeviceKeeps
  <1> QED BY <1>4, <1>5

LEMMA AnswerGetEvidence ==
    ASSUME IInv, Evidence, AnswerGet
    PROVE  Evidence'
PROOF
  <1>1. /\ UNCHANGED <<row, call, sends, answer, jcmd, jdet, ex, native>>
        /\ Append1(Unknown) \/ UNCHANGED <<jr, jq, clock>>
        /\ \A m \in down' : m \in down
    BY DEF AnswerGet, server, process, agent, bounds
  <1>2. up' = up \/ up' = up \cup {[cmd |-> Get, res |-> jr'[P]]}
    BY DEF AnswerGet
  <1>3. ~Settled(Unknown)
    BY Constants DEF Settled, Final
  <1> QED BY <1>1, <1>2, <1>3, Constants, AppendEvidence

(* The agent takes P, or lets go of it.                                    *)
LEMMA AgentMoves ==
    ASSUME IInv, Evidence, UNCHANGED <<server, process, wire, device, sends>>,
           native \in Ended \cup {"withdrawn"} => native' = native,
           native = "none" => P \in ex
    PROVE  Evidence'
PROOF
  <1>1. UNCHANGED <<row, answer, jcmd, jdet, call, down, up, ex, jr, jq, clock>>
    BY DEF server, process, wire, device, journal
  <1>2. ~Settled(Unknown)
    BY Constants DEF Settled, Final
  <1> QED BY <1>1, <1>2, Constants, AppendEvidence

LEMMA StartEvidence ==
    ASSUME IInv, Evidence, Start \/ Admitted
    PROVE  Evidence'
PROOF
  <1>1. CASE Start
    <2>1. /\ UNCHANGED <<server, process, wire, device, sends>>
          /\ (native \in Ended \cup {"withdrawn"} => native' = native)
          /\ (native = "none" => P \in ex)
      BY <1>1 DEF Start, Ended
    <2> QED BY <2>1, AgentMoves
  <1>2. CASE Admitted
    <2>1. P \in ex /\ UNCHANGED <<sends, jq, native>>
      BY <1>2 DEF Admitted, agent, bounds
    <2>2. PICK r \in {Taken, Unknown, Failed} : /\ Complete(P, r, "none")
                                                /\ r = Failed => native = "none"
      <3>1. Taken # Failed /\ Unknown # Failed
        BY Constants, Sayings
      <3> QED BY <1>2, <3>1 DEF Admitted
    <2>3. r \in Rcpt /\ (Settled(r) => r.status = "failed" /\ native = "none")
      BY <2>2, Constants, Sayings DEF Settled, Final
    <2> QED BY <2>1, <2>2, <2>3, AdmissionEvidence
  <1> QED BY <1>1, <1>2

LEMMA DoDetachEvidence ==
    ASSUME IInv, Evidence, NEW c \in Detaches, DoDetach(c)
    PROVE  Evidence'
PROOF
  <1>1. /\ UNCHANGED <<sends, jq, native>> /\ c \in ex \cap (Controls \cup {Retire})
    BY Names DEF DoDetach, agent
  <1>2. CASE jr[P] # Absent /\ Complete(c, Receipt(0, "completed", FALSE, FALSE), "detached")
    <2>1. "completed" \in Statuses
      BY DEF Statuses, Final
    <2>2. /\ Receipt(0, "completed", FALSE, FALSE) \in Rcpt
          /\ Receipt(0, "completed", FALSE, FALSE).status = "completed" /\ "detached" \in Statuses
      BY <2>1, Sayings
    <2> QED BY <1>1, <1>2, <2>2, ResultEvidence
  <1>3. CASE Complete(c, Failed, "none")
    BY <1>1, <1>3, Constants, Sayings, ResultEvidence
  <1> QED BY <1>2, <1>3 DEF DoDetach, Recorded

LEMMA DoCancelEvidence ==
    ASSUME IInv, Evidence, DriverInv, NEW c \in Cancels \cup {Retire}, DoCancel(c)
    PROVE  Evidence'
PROOF
  <1>1. /\ UNCHANGED sends /\ c \in ex \cap (Controls \cup {Retire}) /\ c \notin Detaches
    BY Names, ExternalAssumption DEF DoCancel
  <1>2. CASE /\ Stoppable(c)
             /\ native' = IF jcmd[c].exec THEN native ELSE "withdrawn"
             /\ UNCHANGED <<server, process, wire, device, daemon>>
    <2>1. /\ native \in Ended \cup {"withdrawn"} => native' = native
          /\ native # "none"
      BY <1>2 DEF Stoppable, Ended
    <2> QED BY <1>1, <1>2, <2>1, AgentMoves
  <1>3. CASE Over(c) /\ Complete(c, Receipt(0, native, FALSE, FALSE), native) /\ UNCHANGED <<jq, agent>>
    <2>1. native \in Ended /\ Settled(jr[P])
      BY <1>3 DEF Over, DriverInv
    <2>2. native \in Statuses
      BY <2>1, Sayings
    <2>3. Receipt(0, native, FALSE, FALSE) \in Rcpt /\ Receipt(0, native, FALSE, FALSE).status = native
      BY <2>2, Sayings
    <2>4. UNCHANGED <<sends, jq, native>>
      BY <1>1, <1>3 DEF agent
    <2> QED BY <1>1, <1>3, <2>1, <2>2, <2>3, <2>4, ResultEvidence DEF Stopped
  <1>4. CASE /\ \E r \in {Failed, Unknown} : Complete(c, r, "none")
             /\ UNCHANGED <<jq, agent>>
    <2>1. PICK r \in {Failed, Unknown} : Complete(c, r, "none")
      BY <1>4
    <2>2. UNCHANGED <<sends, jq, native>>
      BY <1>1, <1>4 DEF agent
    <2> QED BY <1>1, <2>1, <2>2, Constants, Sayings, ResultEvidence
  <1> QED BY <1>2, <1>3, <1>4 DEF DoCancel

LEMMA CancelAnsweredEvidence ==
    ASSUME IInv, Evidence, DriverInv, NEW c \in Cancels \cup {Retire}, CancelAnswered(c)
    PROVE  Evidence'
PROOF
  <1>1. /\ UNCHANGED <<sends, native>> /\ c \in ex \cap (Controls \cup {Retire}) /\ c \in asked
        /\ c \notin Detaches
    BY Names, ExternalAssumption DEF CancelAnswered, agent, bounds
  <1>2. CASE (\E s \in Shown : Complete(c, Receipt(0, s, FALSE, FALSE), "none")) /\ UNCHANGED jq
    <2>1. PICK s \in Shown : Complete(c, Receipt(0, s, FALSE, FALSE), "none")
      BY <1>2
    <2>2. /\ Receipt(0, s, FALSE, FALSE) \in Rcpt /\ Receipt(0, s, FALSE, FALSE).status = s
          /\ "none" \in Statuses
      BY Sayings
    <2>3. s # "cancelled" /\ (s = "completed" => native = "completed")
      BY DEF Shown
    <2> QED BY <1>1, <1>2, <2>1, <2>2, <2>3, ResultEvidence
  <1>3. CASE Complete(c, Unknown, "none") /\ UNCHANGED jq
    BY <1>1, <1>3, Constants, Sayings, ResultEvidence
  <1>4. CASE ~jcmd[c].exec /\ ~(Complete(c, Unknown, "none") /\ UNCHANGED jq)
    <2>1. native = "withdrawn"
      BY <1>1, <1>4 DEF DriverInv
    <2>2. LET r1  == Fold(jr[P], Receipt(0, "cancelled", FALSE, FALSE), clock + 1)
              own == Receipt(clock + 2, "cancelled", FALSE, FALSE)
          IN  /\ jq' = IF jdet THEN jq ELSE Append(jq, r1)
              /\ jr' = [jr EXCEPT ![P] = Fold(r1, r1, clock + 2), ![c] = own]
              /\ up' = IF c \in live THEN up \cup {[cmd |-> c, res |-> own]} ELSE up
      BY <1>4 DEF CancelAnswered
    <2>3. /\ ex' = ex \ {c} /\ UNCHANGED <<row, call, answer, down, jcmd, jdet>>
      BY <1>4 DEF CancelAnswered, server, process
    <2>4. /\ jr[c].status = "unconfirmed" /\ jr'[c].status = "cancelled"
          /\ \A d \in Controls \cup {Retire} : d # c => jr'[d] = jr[d]
          /\ jr'[P].seq \in Nat
          /\ Settled(jr[P]) => jr'[P].status = jr[P].status /\ jr'[P].text = jr[P].text
          /\ ~Settled(jr[P]) => jr'[P].status = "cancelled"
          /\ up' = up \/ up' = up \cup {[cmd |-> c, res |-> jr'[c]]}
          /\ \E r \in Rcpt : /\ r.seq \in Nat /\ (jq' = jq \/ jq' = Append(jq, r))
                             /\ r.status = jr'[P].status /\ r.text = jr'[P].text
      BY <1>1, <2>2, WithdrawalSays
    <2>5. /\ InOrder(jr[P]) /\ Echo(jr[P]) /\ jcmd[P] = Plain /\ jdet \in BOOLEAN
          /\ \A d \in Controls \cup {Retire} : ControlEcho(d, jr[d])
      BY DEF Evidence, ReceiptInv
    <2>6. EvidenceGrows
      BY <1>1, <2>1, <2>3, <2>4 DEF EvidenceGrows, Untaken, Settled, Final
    <2>7. ASSUME NEW r, r.status = jr'[P].status, r.text = jr'[P].text  PROVE Echo(r)'
      <3>1. CASE jr'[P].status = "cancelled"
        BY <1>1, <2>1, <2>7, <3>1 DEF Echo, Stopped
      <3>2. CASE Settled(jr[P])
        BY <1>1, <2>1, <2>3, <2>4, <2>5, <2>7, <3>2 DEF Echo, Stopped, Untaken
      <3> QED BY <2>4, <3>1, <3>2
    <2>8. ControlEcho(c, jr[c])'
      BY <1>1, <2>1, <2>4 DEF ControlEcho, Stopped
    <2>9. ASSUME NEW d \in Controls \cup {Retire}, d # c  PROVE ControlEcho(d, jr[d])'
      <3>1. PICK s : s = jr[d]
        OBVIOUS
      <3> QED BY <2>4, <2>5, <2>6, <2>9, <3>1, ControlEchoLasts
    <2>10. ReceiptInv'
      <3>1. PICK s : s = jr'[P]
        OBVIOUS
      <3>2. Echo(jr[P])'
        BY <2>7, <3>1
      <3> QED BY <2>3, <2>4, <2>5, <2>8, <2>9, <3>2 DEF ReceiptInv, InOrder, Plain, Named
    <2>11. \A m \in up' : m \in up \/ ReplyTrue(m)'
      <3> SUFFICES ASSUME NEW m \in up', m \notin up  PROVE ReplyTrue(m)'
        OBVIOUS
      <3>1. m.cmd = c /\ m.res = jr'[c] /\ c \notin {P, Get}
        BY <1>1, <2>4, Names
      <3> QED BY <2>8, <3>1 DEF ReplyTrue
    <2>12. \A i \in 1 .. Len(jq') : \/ i \in 1 .. Len(jq) /\ jq'[i] = jq[i]
                                    \/ jq'[i].seq \in Nat /\ Echo(jq[i])'
      <3>1. PICK r \in Rcpt : /\ r.seq \in Nat /\ (jq' = jq \/ jq' = Append(jq, r))
                              /\ r.status = jr'[P].status /\ r.text = jr'[P].text
        BY <2>4
      <3>2. Echo(r)' /\ jq \in Seq(Rcpt)
        BY <2>7, <3>1 DEF IInv, Journal
      <3> SUFFICES ASSUME NEW i \in 1 .. Len(jq'), ~(i \in 1 .. Len(jq) /\ jq'[i] = jq[i])
                   PROVE  jq'[i].seq \in Nat /\ Echo(jq[i])'
        OBVIOUS
      <3>3. jq'[i] = r
        BY <3>1, <3>2
      <3> QED BY <3>1, <3>2, <3>3
    <2>13. jr[P] # Absent \/ sends # 0
      BY <2>1, Names DEF IInv, ExecInv
    <2> QED BY <1>1, <2>3, <2>6, <2>10, <2>11, <2>12, <2>13, DeviceKeeps
  <1> QED BY <1>2, <1>3, <1>4 DEF CancelAnswered


(* A recovery reports the end that it found.                               *)
LEMMA RecoverEvidence ==
    ASSUME IInv, Evidence, DriverInv, Recover
    PROVE  Evidence'
PROOF
  <1>1. UNCHANGED <<row, call, sends, answer, jcmd, jdet, down, ex, native>>
    BY DEF Recover, server, process, agent, bounds
  <1>2. up' = up \/ up' = up \cup {[cmd |-> Get, res |-> jr'[P]]}
    BY DEF Recover
  <1>3. PICK r \in Rcpt :
             /\ Append1(r) \/ UNCHANGED <<jr, jq, clock>>
             /\ \/ recovery.found \in Ended /\ r.status = recovery.found
                \/ r.status \in {"queued", "running", "unknown"}
    BY RecoverAppends
  <1>4. Settled(r) => r.status \in Ended /\ native' = r.status
    BY <1>1, <1>3 DEF DriverInv, Settled, Final
  <1> QED BY <1>1, <1>2, <1>3, <1>4, AppendEvidence

LEMMA TurnEvidence ==
    ASSUME IInv, Evidence, Turn \/ Milestone \/ Finish
    PROVE  Evidence'
PROOF
  <1>1. PICK r \in Rcpt :
             /\ Notify(r) /\ native \in {"queued", "running"}
             /\ Settled(r) => Settled(jr[P]) \/ (r.status \in Ended /\ native' = r.status)
             /\ UNCHANGED sends
    <2>1. CASE Turn
      <3>1. Receipt(0, "running", FALSE, TRUE) \in Rcpt /\ ~Settled(Receipt(0, "running", FALSE, TRUE))
        BY ReceiptType DEF Statuses, Settled, Final, Receipt
      <3> QED BY <2>1, <3>1 DEF Turn, Notify
    <2>2. CASE Milestone
      <3>1. jr[P] \in Rcpt
        BY Names DEF IInv, Journal
      <3>2. [jr[P] EXCEPT !.exec = TRUE] \in Rcpt /\ [jr[P] EXCEPT !.exec = TRUE].status = jr[P].status
        BY <3>1 DEF Rcpt
      <3> QED BY <2>2, <3>2 DEF Milestone, Notify, Settled
    <2>3. CASE Finish
      <3>1. PICK s \in Ended : native' = s /\ Notify(Receipt(0, s, TRUE, TRUE))
        BY <2>3 DEF Finish, Ended
      <3>2. Receipt(0, s, TRUE, TRUE) \in Rcpt /\ Receipt(0, s, TRUE, TRUE).status = s
        <4>1. s \in Statuses
          BY Sayings
        <4> QED BY <4>1, ReceiptType
      <3> QED BY <2>3, <3>1, <3>2 DEF Finish, Notify
    <2> QED BY <2>1, <2>2, <2>3
  <1>2. /\ UNCHANGED <<row, call, answer, jcmd, jdet, down, up, ex>>
        /\ Append1(r) \/ UNCHANGED <<jr, jq, clock>>
    BY <1>1 DEF Notify, server, process, wire
  <1> QED BY <1>1, <1>2, AppendEvidence DEF Ended

LEMMA FaultEvidence ==
    ASSUME IInv, Evidence, Disconnect \/ ServerRestart \/ DeviceRestart \/ LoseOwner \/ Reconnect
    PROVE  Evidence'
PROOF
  <1>1. UNCHANGED <<row, sends, answer, jcmd, jdet>>
    BY DEF Disconnect, ServerRestart, DeviceRestart, LoseOwner, Reconnect, server, process, wire,
           journal, agent, bounds
  <1>2. /\ Append1(Unknown) \/ UNCHANGED <<jr, jq, clock>>
        /\ \A m \in down' : m \in down
        /\ \A m \in up' : m \in up
        /\ ex' \in {{}, ex}
        /\ native' = native \/ (native = "running" /\ native' = "lost")
    BY DEF Disconnect, ServerRestart, DeviceRestart, LoseOwner, Reconnect, Lost, server, process,
           wire, journal, agent, bounds
  <1>3. call'[P] = call[P] \/ call'[P] # "prepared"
    <2>1. DOMAIN call = Journaled \cup {Get} /\ P \in Journaled
      BY Names DEF IInv, Process
    <2>2. CASE Disconnect \/ DeviceRestart
      BY <2>1, <2>2 DEF Disconnect, DeviceRestart, Back
    <2>3. CASE ServerRestart
      BY <2>1, <2>3 DEF ServerRestart
    <2>4. CASE LoseOwner \/ Reconnect
      BY <2>4 DEF LoseOwner, Reconnect, process
    <2> QED BY <2>2, <2>3, <2>4
  <1>4. ~Settled(Unknown)
    BY Constants DEF Settled, Final
  <1> QED BY <1>1, <1>2, <1>3, <1>4, Constants, AppendEvidence DEF Ended

LEMMA StepEvidence ==
    ASSUME IInv, Evidence, DriverInv, [Next]_vars
    PROVE  Evidence'
PROOF
  <1>1. CASE EndWork \/ Connect \/ UNCHANGED vars
    <2>1. UNCHANGED <<row, call, jr, jdet, jcmd, native, ex, jq, down, up, answer, sends>>
      BY <1>1 DEF EndWork, Connect, vars, server, process, wire, device, journal, agent, bounds
    <2> QED BY <2>1, ServerKeeps DEF Evidence, RowInv
  <1>2. CASE \/ \E c \in {P} \cup Controls : Call(c) \/ Dispatch(c)
             \/ Query \/ Maintain
             \/ \E m \in up : Reply(m)
             \/ \E c \in Controls \cup {Retire} : ControlResult(c)
             \/ ReceiveEvent \/ Acknowledge
    BY <1>2, ServerEvidence
  <1>3. ASSUME NEW m \in down, Begin(m)
        PROVE  Evidence'
    BY <1>3, BeginEvidence
  <1>4. CASE AnswerGet \/ Start \/ Admitted
    BY <1>4, AnswerGetEvidence, StartEvidence
  <1>5. ASSUME NEW c \in Cancels \cup {Retire}, DoCancel(c) \/ CancelAnswered(c)
        PROVE  Evidence'
    BY <1>5, DoCancelEvidence, CancelAnsweredEvidence
  <1>6. ASSUME NEW c \in Detaches, DoDetach(c)
        PROVE  Evidence'
    BY <1>6, DoDetachEvidence
  <1>7. CASE Recover
    BY <1>7, RecoverEvidence
  <1>8. CASE Turn \/ Milestone \/ Finish
    BY <1>8, TurnEvidence
  <1>9. CASE Disconnect \/ ServerRestart \/ DeviceRestart \/ LoseOwner \/ Reconnect
    BY <1>9, FaultEvidence
  <1> QED BY <1>1, <1>2, <1>3, <1>4, <1>5, <1>6, <1>7, <1>8, <1>9 DEF Next


-----------------------------------------------------------------------------
(* What the journal missed, it missed after a fault.                       *)
LEMMA DriverKeeps ==
    ASSUME IInv, DriverInv, faults' \in {faults, faults + 1},
           driver' = driver \/ faults' # 0,
           Settled(jr[P]) => jr'[P].status = jr[P].status /\ jr'[P].text = jr[P].text,
           native' = native \/ native \notin Ended \cup {"withdrawn"},
           driver' = "attached" /\ native' \in Ended =>
              (driver = "attached" /\ native' = native) \/ Settled(jr'[P]),
           recovery'.found \in Ended =>
              \/ recovery'.found = recovery.found
              \/ native' = recovery'.found /\ (faults' = 0 => Settled(jr'[P])),
           jr'[P].status = "completed" /\ jr'[P].text = FALSE => Settled(jr[P]) \/ faults' # 0,
           jdet' => jdet \/ Settled(jr'[P]),
           \A c \in asked' : \/ c \in asked /\ jcmd'[c] = jcmd[c]
                             \/ ~jcmd'[c].exec => native' = "withdrawn"
    PROVE  DriverInv'
PROOF
  <1>1. faults' \in Nat /\ (faults' = 0 => faults = 0)
    BY DEF DriverInv
  <1>2. Settled(jr[P]) => Settled(jr'[P])
    BY DEF Settled
  <1>3. faults' = 0 => driver' = "attached"
    BY <1>1 DEF DriverInv
  <1>4. driver' = "attached" /\ native' \in Ended => Settled(jr'[P])
    BY <1>2 DEF DriverInv
  <1>5. recovery'.found \in Ended =>
           native' = recovery'.found /\ (faults' = 0 => Settled(jr'[P]))
    BY <1>1, <1>2 DEF DriverInv
  <1>6. jr'[P].status = "completed" /\ jr'[P].text = FALSE => faults' # 0
    BY <1>1 DEF DriverInv
  <1>7. jdet' => Settled(jr'[P])
    BY <1>2 DEF DriverInv
  <1>8. \A c \in asked' : ~jcmd'[c].exec => native' = "withdrawn"
    BY DEF DriverInv
  <1> QED BY <1>1, <1>3, <1>4, <1>5, <1>6, <1>7, <1>8 DEF DriverInv, Settled

(* The steps that leave the receipt of P, the driver and the agent alone.  *)
LEMMA DriverSame ==
    ASSUME IInv, DriverInv, faults' \in {faults, faults + 1},
           UNCHANGED <<jcmd, jdet, driver, native, asked>>, jr'[P] = jr[P],
           recovery'.found = recovery.found
    PROVE  DriverInv'
PROOF
  <1>1. jr'[P].status = "completed" => Settled(jr[P])
    BY DEF Settled, Final
  <1> QED BY <1>1, DriverKeeps

(* An event, or nothing.                                                   *)
LEMMA AppendDriver ==
    ASSUME IInv, DriverInv, NEW r \in Rcpt, Append1(r) \/ UNCHANGED <<jr, jq, clock>>,
           UNCHANGED <<jcmd, jdet, asked>>, faults' \in {faults, faults + 1},
           driver' = driver \/ faults' # 0,
           native' = native \/ native \notin Ended \cup {"withdrawn"},
           driver' = "attached" /\ native' \in Ended =>
              \/ driver = "attached" /\ native' = native
              \/ Settled(jr[P])
              \/ Settled(r) /\ Append1(r) /\ jr[P] # Absent,
           recovery'.found \in Ended =>
              \/ recovery'.found = recovery.found
              \/ native' = recovery'.found /\ (faults' = 0 => Settled(jr[P])),
           r.status = "completed" => r.text = TRUE \/ faults' # 0 \/ Settled(jr[P])
    PROVE  DriverInv'
PROOF
  <1>1. \/ jr' = jr
        \/ /\ Settled(jr[P]) => jr'[P].status = jr[P].status /\ jr'[P].text = jr[P].text
           /\ ~Settled(jr[P]) => /\ jr'[P].status = r.status
                                 /\ jr'[P].text = (jr[P].text \/ r.text)
    BY AppendSays
  <1>2. Settled(jr[P]) => jr'[P].status = jr[P].status /\ jr'[P].text = jr[P].text
    BY <1>1
  <1>3. Settled(jr[P]) => Settled(jr'[P])
    BY <1>2 DEF Settled
  <1>4. Settled(r) /\ Append1(r) /\ jr[P] # Absent => Settled(jr'[P])
    <2> SUFFICES ASSUME Settled(r), Append1(r), jr[P] # Absent, ~Settled(jr[P])
                 PROVE  Settled(jr'[P])
      BY <1>3
    <2>1. ~jdet
      BY DEF DriverInv
    <2>2. jr' = [jr EXCEPT ![P] = Fold(jr[P], r, clock + 1)]
      BY <2>1 DEF Append1, Recorded
    <2>3. jr'[P] = Fold(jr[P], r, clock + 1) /\ jr[P] \in Rcpt /\ clock + 1 \in Nat
      BY <2>2, Names DEF IInv, Journal
    <2>4. Fold(jr[P], r, clock + 1).status = r.status
      BY <2>3, FoldSays
    <2> QED BY <2>3, <2>4 DEF Settled
  <1>5. jr'[P].status = "completed" /\ jr'[P].text = FALSE => Settled(jr[P]) \/ faults' # 0
    BY <1>1 DEF Settled, Final
  <1> QED BY <1>2, <1>3, <1>4, <1>5, DriverKeeps

LEMMA DriverServer ==
    ASSUME IInv, DriverInv, UNCHANGED <<faults, jr, jcmd, jdet, driver, recovery, native, asked>>
    PROVE  DriverInv'
PROOF BY DriverSame

LEMMA DriverBegin ==
    ASSUME IInv, DriverInv, NEW m \in down, Begin(m)
    PROVE  DriverInv'
PROOF
  <1>1. UNCHANGED <<faults, jdet, driver, recovery, native, asked>> /\ m.cmd # Get
    BY DEF Begin, agent, bounds
  <1>2. m.cmd \in Journaled
    BY <1>1 DEF IInv, Wire
  <1>3. CASE jr[m.cmd] = Absent
    <2>1. jr' = [jr EXCEPT ![m.cmd] = Initial] /\ jcmd' = [jcmd EXCEPT ![m.cmd] = Named(m)]
      BY <1>3 DEF Begin, Recorded
    <2>2. \A c \in Journaled : jr'[c] = jr[c] \/ (c = m.cmd /\ jr'[c] = Initial)
      BY <1>2, <2>1 DEF IInv, Journal
    <2>3. Settled(jr[P]) => jr'[P] = jr[P]
      BY <1>3, <2>2, Names, Constants
    <2>4. jr'[P].status = "completed" => Settled(jr[P])
      BY <2>2, Names, Constants DEF Settled, Final
    <2>5. driver' = "attached" /\ native' \in Ended => driver = "attached" /\ native' = native
      BY <1>1
    <2>6. \A c \in asked' : c \in asked /\ jcmd'[c] = jcmd[c]
      BY <1>1, <1>2, <1>3, <2>1, Names DEF IInv, ExecInv, Journal
    <2> QED BY <1>1, <2>3, <2>4, <2>5, <2>6, DriverKeeps
  <1>4. CASE jr[m.cmd] # Absent
    <2>1. UNCHANGED <<jr, jcmd>>
      BY <1>4 DEF Begin, Recorded
    <2> QED BY <1>1, <2>1, DriverServer
  <1> QED BY <1>3, <1>4

LEMMA DriverAnswerGet ==
    ASSUME IInv, DriverInv, AnswerGet
    PROVE  DriverInv'
PROOF
  <1>1. /\ UNCHANGED <<faults, jcmd, jdet, driver, native, asked>>
        /\ Append1(Unknown) \/ UNCHANGED <<jr, jq, clock>>
    BY DEF AnswerGet, agent, bounds
  <1>2. recovery'.found = recovery.found \/ recovery'.found = native
    <2>1. \/ recovery' = recovery
          \/ recovery' = Reading(TRUE)
          \/ recovery' = [recovery EXCEPT !.get = TRUE]
      BY DEF AnswerGet
    <2>2. recovery \in [seq : Int, found : Natives, get : BOOLEAN]
      BY DEF IInv, Journal
    <2> QED BY <2>1, <2>2 DEF Reading
  <1>3. native \in Ended /\ faults = 0 => Settled(jr[P])
    BY DEF DriverInv
  <1> QED BY <1>1, <1>2, <1>3, Constants, AppendDriver

LEMMA DriverStart ==
    ASSUME IInv, DriverInv, Start \/ Admitted
    PROVE  DriverInv'
PROOF
  <1>1. CASE Start
    <2>1. /\ UNCHANGED <<faults, jcmd, jdet, driver, recovery, asked, jr, jq, clock>>
          /\ native' \notin Ended /\ native \notin Ended \cup {"withdrawn"}
      BY <1>1 DEF Start, device, journal, Ended
    <2> QED BY <2>1, Constants, AppendDriver
  <1>2. CASE Admitted
    <2>1. P \in ex /\ UNCHANGED <<faults, native, asked>>
      BY <1>2 DEF Admitted, agent, bounds
    <2>2. PICK r \in {Taken, Unknown, Failed} : Complete(P, r, "none")
      BY <1>2 DEF Admitted
    <2>3. r \in Rcpt /\ r.status # "completed"
      BY <2>2, Constants, Sayings
    <2>4. UNCHANGED <<jcmd, driver, recovery>>
      BY <2>2 DEF Complete
    <2>5. /\ jr[P].status # "unconfirmed" =>
                jr'[P].status = jr[P].status /\ jr'[P].text = jr[P].text
          /\ jr[P].status = "unconfirmed" => jr'[P].status = r.status
          /\ jdet' = (jdet \/ FALSE)
      BY <2>1, <2>2, <2>3, AdmissionSays
    <2>6. Settled(jr[P]) => jr[P].status # "unconfirmed"
      BY DEF Settled, Final
    <2>7. jr'[P].status = "completed" => Settled(jr[P])
      BY <2>3, <2>5 DEF Settled, Final
    <2> QED BY <2>1, <2>4, <2>5, <2>6, <2>7, DriverKeeps
  <1> QED BY <1>1, <1>2

(* The result of a control settles P, or leaves it as it is.               *)
LEMMA DriverResult ==
    ASSUME IInv, DriverInv, NEW c \in ex \cap (Controls \cup {Retire}), NEW r \in Rcpt,
           NEW end \in Statuses, Complete(c, r, end), UNCHANGED <<faults, native, asked>>,
           end \in {"none", "detached"} \/ Settled(jr[P])
    PROVE  DriverInv'
PROOF
  <1>1. UNCHANGED <<jcmd, driver, recovery>>
    BY DEF Complete
  <1>2. /\ Settled(jr[P]) => jr'[P].status = jr[P].status /\ jr'[P].text = jr[P].text
        /\ ~Settled(jr[P]) => jr'[P].status = IF end = "none" THEN jr[P].status ELSE end
        /\ jdet' = (jdet \/ end = "detached")
    BY ResultSays
  <1>3. jr'[P].status = "completed" => Settled(jr[P])
    BY <1>2 DEF Settled, Final
  <1>4. jdet' => jdet \/ Settled(jr'[P])
    BY <1>2 DEF Settled, Final
  <1> QED BY <1>1, <1>2, <1>3, <1>4, DriverKeeps

LEMMA DriverDetach ==
    ASSUME IInv, DriverInv, NEW c \in Detaches, DoDetach(c)
    PROVE  DriverInv'
PROOF
  <1>1. /\ UNCHANGED <<faults, native, asked>> /\ c \in ex \cap (Controls \cup {Retire})
    BY Names DEF DoDetach, agent
  <1>2. PICK r \in {Failed, Receipt(0, "completed", FALSE, FALSE)}, end \in {"none", "detached"} :
             Complete(c, r, end)
    BY DEF DoDetach
  <1>3. "completed" \in Statuses
    BY DEF Statuses, Final
  <1>4. r \in Rcpt /\ end \in Statuses
    BY <1>3, Constants, Sayings
  <1> QED BY <1>1, <1>2, <1>4, DriverResult

LEMMA DriverCancel ==
    ASSUME IInv, DriverInv, NEW c \in Cancels \cup {Retire}, DoCancel(c)
    PROVE  DriverInv'
PROOF
  <1>1. /\ UNCHANGED faults /\ c \in ex \cap (Controls \cup {Retire})
    BY Names DEF DoCancel
  <1>2. CASE /\ asked' = asked \cup {c} /\ Stoppable(c)
             /\ native' = IF jcmd[c].exec THEN native ELSE "withdrawn"
             /\ UNCHANGED <<server, process, wire, device, daemon>>
    <2>1. UNCHANGED <<jcmd, jdet, driver, recovery, jr>>
      BY <1>2 DEF device, journal
    <2>2. native' = native \/ (native \notin Ended \cup {"withdrawn"} /\ native' \notin Ended)
      BY <1>2 DEF Stoppable, Ended
    <2>3. \A d \in asked' : \/ d \in asked /\ jcmd'[d] = jcmd[d]
                            \/ ~jcmd'[d].exec => native' = "withdrawn"
      BY <1>2, <2>1
    <2>4. jr'[P].status = "completed" => Settled(jr[P])
      BY <2>1 DEF Settled, Final
    <2> QED BY <1>1, <2>1, <2>2, <2>3, <2>4, DriverKeeps
  <1>3. CASE Over(c) /\ Complete(c, Receipt(0, native, FALSE, FALSE), native) /\ UNCHANGED <<jq, agent>>
    <2>1. native \in Ended /\ Settled(jr[P])
      BY <1>3 DEF Over, DriverInv
    <2>2. native \in Statuses
      BY <2>1, Sayings
    <2>3. Receipt(0, native, FALSE, FALSE) \in Rcpt
      BY <2>2, Sayings
    <2>4. UNCHANGED <<faults, native, asked>>
      BY <1>1, <1>3 DEF agent
    <2> QED BY <1>1, <1>3, <2>1, <2>2, <2>3, <2>4, DriverResult
  <1>4. CASE /\ \E r \in {Failed, Unknown} : Complete(c, r, "none")
             /\ UNCHANGED <<jq, agent>>
    <2>1. PICK r \in {Failed, Unknown} : Complete(c, r, "none")
      BY <1>4
    <2>2. UNCHANGED <<faults, native, asked>>
      BY <1>1, <1>4 DEF agent
    <2> QED BY <1>1, <2>1, <2>2, Constants, Sayings, DriverResult
  <1> QED BY <1>2, <1>3, <1>4 DEF DoCancel

LEMMA DriverCancelAnswered ==
    ASSUME IInv, DriverInv, NEW c \in Cancels \cup {Retire}, CancelAnswered(c)
    PROVE  DriverInv'
PROOF
  <1>1. UNCHANGED <<faults, native, asked>> /\ c \in ex \cap (Controls \cup {Retire})
    BY Names DEF CancelAnswered, agent, bounds
  <1>2. CASE \E s \in Shown : Complete(c, Receipt(0, s, FALSE, FALSE), "none")
    <2>1. PICK s \in Shown : Complete(c, Receipt(0, s, FALSE, FALSE), "none")
      BY <1>2
    <2>2. Receipt(0, s, FALSE, FALSE) \in Rcpt /\ "none" \in Statuses
      BY Sayings
    <2> QED BY <1>1, <2>1, <2>2, DriverResult
  <1>3. CASE Complete(c, Unknown, "none")
    BY <1>1, <1>3, Constants, Sayings, DriverResult
  <1>4. CASE ~jcmd[c].exec /\ ~Complete(c, Unknown, "none")
                /\ ~\E s \in Shown : Complete(c, Receipt(0, s, FALSE, FALSE), "none")
    <2>1. /\ LET r1  == Fold(jr[P], Receipt(0, "cancelled", FALSE, FALSE), clock + 1)
                 own == Receipt(clock + 2, "cancelled", FALSE, FALSE)
             IN  /\ jq' = IF jdet THEN jq ELSE Append(jq, r1)
                 /\ jr' = [jr EXCEPT ![P] = Fold(r1, r1, clock + 2), ![c] = own]
                 /\ up' = IF c \in live THEN up \cup {[cmd |-> c, res |-> own]} ELSE up
          /\ UNCHANGED <<jcmd, jdet, driver, recovery>>
      BY <1>4 DEF CancelAnswered
    <2>2. /\ Settled(jr[P]) => jr'[P].status = jr[P].status /\ jr'[P].text = jr[P].text
          /\ ~Settled(jr[P]) => jr'[P].status = "cancelled"
      BY <1>1, <2>1, WithdrawalSays
    <2> QED BY <1>1, <2>1, <2>2, DriverKeeps
  <1> QED BY <1>2, <1>3, <1>4 DEF CancelAnswered

LEMMA DriverRecover ==
    ASSUME IInv, DriverInv, Reconnect \/ Recover
    PROVE  DriverInv'
PROOF
  <1>1. UNCHANGED <<faults, jcmd, jdet, native, asked>>
    BY DEF Reconnect, Recover, journal, agent, bounds
  <1>2. CASE Reconnect
    <2>1. /\ UNCHANGED <<jr, jq, clock>> /\ faults # 0
          /\ recovery' = recovery \/ recovery' = Reading(FALSE)
          /\ driver' = "blind" \/ (driver' = "attached" /\ ~Observed)
      BY <1>2 DEF Reconnect, journal, DriverInv
    <2>2. ~Observed /\ native \in Ended => Settled(jr[P])
      BY DEF Observed, Recorded, Ended, IInv, ExecInv
    <2>3. recovery'.found = recovery.found \/ recovery'.found = native
      BY <2>1 DEF Reading
    <2> QED BY <1>1, <2>1, <2>2, <2>3, Constants, AppendDriver
  <1>3. CASE Recover
    <2>1. recovery'.found \notin Ended
      BY <1>3, IdleType DEF Recover, Ended
    <2>2. /\ driver' = driver \/ (driver' = "attached" /\ native \notin Ended)
          /\ driver # "attached" => faults # 0
      BY <1>3 DEF Recover, Ended, DriverInv
    <2>3. PICK r \in Rcpt :
               /\ Append1(r) \/ UNCHANGED <<jr, jq, clock>>
               /\ \/ recovery.found \in Ended /\ r.status = recovery.found
                  \/ r.status \in {"queued", "running", "unknown"}
      BY <1>3, RecoverAppends
    <2>4. r.status = "completed" => faults # 0 \/ Settled(jr[P])
      BY <2>3 DEF DriverInv
    <2> QED BY <1>1, <2>1, <2>2, <2>3, <2>4, AppendDriver
  <1> QED BY <1>2, <1>3

LEMMA DriverTurn ==
    ASSUME IInv, DriverInv, Turn \/ Milestone \/ Finish
    PROVE  DriverInv'
PROOF
  <1>1. PICK r \in Rcpt :
             /\ Notify(r) /\ native \in {"queued", "running"}
             /\ r.status = "completed" => r.text = TRUE \/ Settled(jr[P])
             /\ native' \in Ended => Settled(r)
    <2>1. CASE Turn
      <3>1. /\ Receipt(0, "running", FALSE, TRUE) \in Rcpt
            /\ Receipt(0, "running", FALSE, TRUE).status = "running"
        <4>1. "running" \in Statuses
          BY DEF Statuses
        <4> QED BY <4>1, ReceiptType
      <3> QED BY <2>1, <3>1 DEF Turn, Ended
    <2>2. CASE Milestone
      <3>1. jr[P] \in Rcpt
        BY Names DEF IInv, Journal
      <3>2. [jr[P] EXCEPT !.exec = TRUE] \in Rcpt /\ [jr[P] EXCEPT !.exec = TRUE].status = jr[P].status
        BY <3>1 DEF Rcpt
      <3> QED BY <2>2, <3>2 DEF Milestone, Settled, Final, Ended
    <2>3. CASE Finish
      <3>1. PICK s \in Ended : native' = s /\ Notify(Receipt(0, s, TRUE, TRUE))
        BY <2>3 DEF Finish, Ended
      <3>2. s \in Statuses /\ s \in Final
        BY Sayings
      <3>3. /\ Receipt(0, s, TRUE, TRUE) \in Rcpt /\ Receipt(0, s, TRUE, TRUE).status = s
            /\ Receipt(0, s, TRUE, TRUE).text = TRUE
        BY <3>2, ReceiptType
      <3> QED BY <2>3, <3>1, <3>2, <3>3 DEF Finish, Settled
    <2> QED BY <2>1, <2>2, <2>3
  <1>2. /\ UNCHANGED <<faults, jcmd, jdet, driver, recovery, asked>>
        /\ Append1(r) \/ UNCHANGED <<jr, jq, clock>>
        /\ driver = "attached" => Append1(r)
    BY <1>1 DEF Notify
  <1>3. jr[P] # Absent /\ native \notin Ended \cup {"withdrawn"}
    BY <1>1 DEF IInv, ExecInv, Ended
  <1> QED BY <1>1, <1>2, <1>3, AppendDriver

LEMMA DriverFault ==
    ASSUME IInv, DriverInv, Disconnect \/ ServerRestart \/ DeviceRestart \/ LoseOwner
    PROVE  DriverInv'
PROOF
  <1>1. /\ UNCHANGED <<jcmd, jdet, asked>> /\ faults' = faults + 1
        /\ Append1(Unknown) \/ UNCHANGED <<jr, jq, clock>>
        /\ native' = native \/ (native = "running" /\ native' = "lost")
    BY DEF Disconnect, ServerRestart, DeviceRestart, LoseOwner, Lost, journal, agent
  <1>2. faults' # 0
    BY <1>1 DEF DriverInv
  <1>3. driver' = driver \/ driver' # "attached"
    BY DEF Disconnect, ServerRestart, DeviceRestart, LoseOwner
  <1>4. recovery'.found = recovery.found \/ recovery'.found \notin Ended
    <2>1. recovery' \in {recovery, Idle, [recovery EXCEPT !.get = FALSE]}
      BY DEF Disconnect, ServerRestart, DeviceRestart, LoseOwner
    <2>2. recovery \in [seq : Int, found : Natives, get : BOOLEAN]
      BY DEF IInv, Journal
    <2> QED BY <2>1, <2>2, IdleType DEF Ended
  <1> QED BY <1>1, <1>2, <1>3, <1>4, Constants, AppendDriver DEF Ended

LEMMA StepDriver ==
    ASSUME IInv, DriverInv, [Next]_vars
    PROVE  DriverInv'
PROOF
  <1>1. CASE \/ \E c \in {P} \cup Controls : Call(c) \/ Dispatch(c)
             \/ Query \/ Maintain
             \/ \E m \in up : Reply(m)
             \/ \E c \in Controls \cup {Retire} : ControlResult(c)
             \/ ReceiveEvent \/ Acknowledge \/ EndWork \/ Connect \/ UNCHANGED vars
    <2>1. UNCHANGED <<faults, jr, jcmd, jdet, driver, recovery, native, asked>>
      BY <1>1 DEF Call, Dispatch, Query, Maintain, Reply, ControlResult, ReceiveEvent, Acknowledge,
                  EndWork, Connect, vars, wire, device, journal, agent, bounds
    <2> QED BY <2>1, DriverServer
  <1>2. ASSUME NEW m \in down, Begin(m)
        PROVE  DriverInv'
    BY <1>2, DriverBegin
  <1>3. CASE AnswerGet \/ Start \/ Admitted
    BY <1>3, DriverAnswerGet, DriverStart
  <1>4. ASSUME NEW c \in Cancels \cup {Retire}, DoCancel(c) \/ CancelAnswered(c)
        PROVE  DriverInv'
    BY <1>4, DriverCancel, DriverCancelAnswered
  <1>5. ASSUME NEW c \in Detaches, DoDetach(c)
        PROVE  DriverInv'
    BY <1>5, DriverDetach
  <1>6. CASE Reconnect \/ Recover
    BY <1>6, DriverRecover
  <1>7. CASE Turn \/ Milestone \/ Finish
    BY <1>7, DriverTurn
  <1>8. CASE Disconnect \/ ServerRestart \/ DeviceRestart \/ LoseOwner
    BY <1>8, DriverFault
  <1> QED BY <1>1, <1>2, <1>3, <1>4, <1>5, <1>6, <1>7, <1>8 DEF Next


LEMMA InitEvidence == Init => Evidence /\ DriverInv
PROOF
  <1> SUFFICES ASSUME Init  PROVE Evidence /\ DriverInv
    OBVIOUS
  <1>1. /\ jr[P] = Absent /\ row[P] = Absent
        /\ \A c \in Controls \cup {Retire} : jr[c] = Absent /\ answer[c] = NoReceipt
    BY Names DEF Init
  <1>2. /\ Echo(Absent)
        /\ \A c \in Controls \cup {Retire} : ControlEcho(c, jr[c]) /\ ControlEcho(c, answer[c])
    BY <1>1, Blank
  <1>3. ReceiptInv
    BY <1>1, <1>2, Names DEF Init, ReceiptInv, InOrder, Plain
  <1>4. WireInv /\ RowInv
    BY <1>1, <1>2, Constants DEF Init, WireInv, RowInv
  <1>5. DriverInv
    BY <1>1, Constants, IdleType DEF Init, DriverInv, Ended
  <1> QED BY <1>3, <1>4, <1>5 DEF Evidence

-----------------------------------------------------------------------------
(* The types that no other invariant needs, and the two sets that follow   *)
(* another: an input comes from a recorded event, and only what is being   *)
(* carried out has a caller.                                               *)
TypeInv ==
    /\ gone \in BOOLEAN /\ conn \in BOOLEAN /\ work \in {"active", "ended"}
    /\ heard \subseteq seen
    /\ live \subseteq ex

LEMMA StepTypes ==
    ASSUME IInv, TypeInv, [Next]_vars
    PROVE  TypeInv'
PROOF
  <1>1. CASE \E c \in {P} \cup Controls : Call(c) \/ Dispatch(c)
    BY <1>1 DEF Call, Dispatch, device, TypeInv
  <1>2. CASE Query \/ Maintain \/ UNCHANGED vars
    BY <1>2 DEF Query, Maintain, TypeInv, vars, server, process, device, bounds
  <1>3. CASE \E m \in up : Reply(m)
    BY <1>3 DEF Reply, device, TypeInv
  <1>4. ASSUME NEW c \in Controls \cup {Retire}, ControlResult(c)
        PROVE  TypeInv'
    <2>1. UNCHANGED <<conn, work, heard, seen, live, ex>>
      BY <1>4 DEF ControlResult, device
    <2>2. gone' = gone \/ gone' = TRUE
      BY <1>4 DEF ControlResult, Detached
    <2> QED BY <2>1, <2>2 DEF TypeInv
  <1>5. CASE ReceiveEvent
    <2>1. UNCHANGED <<gone, conn, work, live, ex>>
      BY <1>5 DEF ReceiveEvent, process, device
    <2>2. \E n : seen' = seen \cup {n} /\ (heard' = heard \cup {n} \/ heard' = heard)
      BY <1>5 DEF ReceiveEvent
    <2> QED BY <2>1, <2>2 DEF TypeInv
  <1>6. CASE Acknowledge \/ EndWork \/ Connect \/ AnswerGet \/ Start \/ Reconnect \/ Recover
    BY <1>6 DEF Acknowledge, EndWork, Connect, AnswerGet, Start, Reconnect, Recover, TypeInv,
                server, process, device
  <1>7. CASE \E m \in down : Begin(m)
    BY <1>7 DEF Begin, TypeInv, server, process
  <1>8. ASSUME NEW c \in ex, NEW r, NEW end, Complete(c, r, end)
        PROVE  TypeInv'
    BY <1>8 DEF Complete, TypeInv, server, process
  <1>9. CASE Admitted
    BY <1>8, <1>9 DEF Admitted
  <1>10. ASSUME NEW c \in Detaches, DoDetach(c)
         PROVE  TypeInv'
    BY <1>8, <1>10 DEF DoDetach
  <1>11. ASSUME NEW c \in Cancels \cup {Retire}, DoCancel(c)
         PROVE  TypeInv'
    <2>1. \/ UNCHANGED <<server, process, device>>
          \/ \E r, end : Complete(c, r, end)
      BY <1>11 DEF DoCancel
    <2>2. CASE UNCHANGED <<server, process, device>>
      BY <2>2 DEF TypeInv, server, process, device
    <2> QED BY <1>8, <1>11, <2>1, <2>2 DEF DoCancel
  <1>12. ASSUME NEW c \in Cancels \cup {Retire}, CancelAnswered(c)
         PROVE  TypeInv'
    <2>1. \/ /\ UNCHANGED <<server, process>>
             /\ ex' = ex \ {c} /\ live' = live \ {c}
          \/ \E r, end : Complete(c, r, end)
      BY <1>12 DEF CancelAnswered
    <2>2. CASE UNCHANGED <<server, process>> /\ ex' = ex \ {c} /\ live' = live \ {c}
      BY <2>2 DEF TypeInv, server, process
    <2> QED BY <1>8, <1>12, <2>1, <2>2 DEF CancelAnswered
  <1>13. CASE Turn \/ Milestone \/ Finish
    <2>1. \E r : Notify(r)
      BY <1>13 DEF Turn, Milestone, Finish
    <2> QED BY <2>1 DEF Notify, TypeInv, server, process
  <1>14. CASE Disconnect \/ ServerRestart \/ DeviceRestart \/ LoseOwner
    BY <1>14 DEF Disconnect, ServerRestart, DeviceRestart, LoseOwner, Lost, TypeInv, server, process
  <1> QED BY <1>1, <1>2, <1>3, <1>4, <1>5, <1>6, <1>7, <1>9, <1>10, <1>11, <1>12, <1>13, <1>14
          DEF Next

(* What the invariants say together.                                       *)
Facts == IInv /\ Evidence /\ DriverInv /\ TypeInv

LEMMA InitFacts == Init => Facts
PROOF
  <1>1. Init => TypeInv
    BY DEF Init, TypeInv
  <1> QED BY <1>1, InitIInv, InitEvidence DEF Facts

LEMMA FactsStay == Facts /\ [Next]_vars => Facts' /\ [Forward]_vars
PROOF BY StepIInv, StepEvidence, StepDriver, StepTypes DEF Facts

LEMMA FactsTell == Facts => OperationRunsOnce /\ OperationReceiptIsTrue
PROOF
  <1> SUFFICES ASSUME IInv, Evidence, DriverInv, TypeInv
               PROVE  OperationRunsOnce /\ OperationReceiptIsTrue
    BY DEF Facts
  <1>1. TypeOK
    <2>1. Rcpt \subseteq Receipts
      BY DEF Rcpt, Receipts, Seqs, Statuses, NoSeq
    <2>2. row \in [{P} \cup Controls -> Receipts] /\ jr \in [Journaled -> Receipts]
      BY <2>1 DEF IInv, Rows, Journal
    <2>3. recv \in 0 .. Len(jq) /\ jcmd \in [Journaled -> [exec : BOOLEAN, sub : BOOLEAN]]
      BY DEF IInv, Journal, Targets
    <2> QED BY <2>2, <2>3 DEF TypeOK, IInv, Rows, RunInv, Process, Journal, ExecInv, TypeInv
  <1>2. ReceiptIsTrue
    <2>1. row[P] = Refused => jr[P] = Absent /\ \A m \in down : m.cmd # P
      BY DEF Evidence, RowInv
    <2>2. CASE row[P] = Refused
      BY <2>1, <2>2 DEF ReceiptIsTrue, Refused, Receipt
    <2>3. CASE Echo(row[P]) /\ row[P] # Refused
      BY <2>3 DEF Echo, ReceiptIsTrue, Stopped, Untaken
    <2>4. CASE Crossed(row[P]) /\ row[P] # Refused
      BY <2>4 DEF Crossed, ReceiptIsTrue
    <2> QED BY <2>2, <2>3, <2>4 DEF Evidence, RowInv
  <1>3. AnswerKept
    <2>1. row[P].status = "completed" /\ ~row[P].text =>
             ~jr[P].text \/ \E c \in Cancels \cup {Retire} : jr[c].seq = row[P].seq
      BY DEF Evidence, RowInv, Echo, Crossed, Refused, Receipt
    <2>2. jr[P].text \in BOOLEAN
      BY Names DEF IInv, Journal, Rcpt
    <2>3. jr[P].status = "completed" /\ ~jr[P].text => faults > 0
      BY <2>2 DEF DriverInv
    <2> QED BY <2>1, <2>3 DEF AnswerKept
  <1> QED BY <1>1, <1>2, <1>3, InvariantTells DEF OperationRunsOnce, OperationReceiptIsTrue

LEMMA FactsHold == Spec => []Facts
PROOF
  <1>1. Facts /\ [Next]_vars => Facts'
    BY FactsStay
  <1> QED BY InitFacts, <1>1, PTL DEF Spec

(* A command leaves the server at most once and is carried out at most     *)
(* once, and every part of the state has its type: the server counts no    *)
(* more events than the journal holds, and a command runs only if the      *)
(* journal has it (ExternalAgents!OperationRunsOnce).                      *)
THEOREM OperationsOnce == Spec => []OperationRunsOnce
PROOF BY FactsTell, FactsHold, PTL

(* What the server and the Work believe of a delegated operation is what   *)
(* became of it on the device, across lost connections, restarts and       *)
(* recoveries: "never sent" only if the device has not and will not get    *)
(* it, "failed" only if the execution failed or the agent never took it,   *)
(* "cancelled" only if it was stopped or withdrawn, "detached" only if the *)
(* device let go; the Work is told once; and "completed" comes with the    *)
(* agent's answer, but where the device never had it after a fault, or the *)
(* reply of a crossing cancellation settled the receipt                    *)
(* (ExternalAgents!OperationReceiptIsTrue).                                *)
THEOREM OperationReceipts == Spec => []OperationReceiptIsTrue
PROOF BY FactsTell, FactsHold, PTL

(* The sum.  What SocialSendProofs shows holds of each of its instances.   *)

GatewayP == INSTANCE SocialSendProofs
    WITH Caller <- Callers, Worker <- Artist, Parts <- Short, Local <- FALSE,
         Illustrated <- TRUE, Leased <- FALSE, MaxCalls <- MaxSends,
         MaxFaults <- MaxTroubles, run <- sender, up <- recovered, faults <- interruptions

LocalP == INSTANCE SocialSendProofs
    WITH Caller <- Callers, Worker <- Artist, Parts <- Long, Local <- TRUE,
         Illustrated <- TRUE, Leased <- FALSE, MaxCalls <- MaxSends,
         MaxFaults <- MaxTroubles, run <- sender, up <- recovered, faults <- interruptions

WorkP == INSTANCE SocialSendProofs
    WITH Caller <- {Activation}, Worker <- Artist, Parts <- Long, Local <- FALSE,
         Illustrated <- TRUE, Leased <- TRUE, MaxCalls <- MaxActivations,
         MaxFaults <- MaxInterruptions, run <- sender, up <- recovered, faults <- interruptions

(* GatewayP is Gateway: the same definitions, with their proofs. *)
LEMMA GatewayPIsIt ==
    /\ GatewayP!SocialSendAssumption
    /\ Gateway!Init => GatewayP!Init
    /\ Gateway!Next => GatewayP!Next
    /\ GatewayP!MessageSentOnce => Gateway!MessageSentOnce
    /\ GatewayP!MessageReceiptIsTrue => Gateway!MessageReceiptIsTrue
    /\ GatewayP!PictureIsLast => Gateway!PictureIsLast
PROOF
  <1>1. Gateway!IsFiniteSet(Callers) => GatewayP!IsFiniteSet(Callers)
    BY DEF Gateway!IsFiniteSet, GatewayP!IsFiniteSet
  <1>2. GatewayP!SocialSendAssumption
    BY <1>1, DeliveryAssumption
       DEF Gateway!SocialSendAssumption, GatewayP!SocialSendAssumption
  <1>3. Gateway!Init => GatewayP!Init
    BY DEF Gateway!Init, GatewayP!Init, Gateway!Text, GatewayP!Text, Gateway!Op, GatewayP!Op,
           Gateway!Task, GatewayP!Task, Gateway!Idle, GatewayP!Idle
  <1>4. Gateway!Next => GatewayP!Next
    BY DEF Gateway!Replays, GatewayP!Replays, Gateway!Admissible, GatewayP!Admissible,
           Gateway!Text, GatewayP!Text, Gateway!Op, GatewayP!Op, Gateway!Task, GatewayP!Task,
           Gateway!Sequence, GatewayP!Sequence, Gateway!Status, GatewayP!Status, Gateway!Sent,
           GatewayP!Sent, Gateway!Idle, GatewayP!Idle, Gateway!rows, GatewayP!rows, Gateway!At,
           GatewayP!At, Gateway!GoTo, GatewayP!GoTo, Gateway!Fault, GatewayP!Fault,
           Gateway!AfterError, GatewayP!AfterError, Gateway!AfterResult, GatewayP!AfterResult,
           Gateway!Recorded, GatewayP!Recorded, Gateway!TextDispatchFinished,
           GatewayP!TextDispatchFinished, Gateway!Dispatch, GatewayP!Dispatch, Gateway!Claims,
           GatewayP!Claims, Gateway!Answer, GatewayP!Answer, Gateway!Settled, GatewayP!Settled,
           Gateway!RepairedStatus, GatewayP!RepairedStatus, Gateway!Interrupted,
           GatewayP!Interrupted, Gateway!Find, GatewayP!Find, Gateway!PrepareSequence,
           GatewayP!PrepareSequence, Gateway!Open, GatewayP!Open, Gateway!Preflight,
           GatewayP!Preflight, Gateway!Refused, GatewayP!Refused, Gateway!Claim, GatewayP!Claim,
           Gateway!Unentered, GatewayP!Unentered, Gateway!Reach, GatewayP!Reach, Gateway!Return,
           GatewayP!Return, Gateway!Settle, GatewayP!Settle, Gateway!SettleFails,
           GatewayP!SettleFails, Gateway!Repair, GatewayP!Repair, Gateway!Deferred,
           GatewayP!Deferred, Gateway!StopSequence, GatewayP!StopSequence, Gateway!Cancel,
           GatewayP!Cancel, Gateway!Scan, GatewayP!Scan, Gateway!Begin, GatewayP!Begin,
           Gateway!Select, GatewayP!Select, Gateway!Check, GatewayP!Check, Gateway!Close,
           GatewayP!Close, Gateway!Done, GatewayP!Done, Gateway!Revoke, GatewayP!Revoke,
           Gateway!Crash, GatewayP!Crash, Gateway!Recover, GatewayP!Recover, Gateway!Progress,
           GatewayP!Progress, Gateway!Illustrate, GatewayP!Illustrate, Gateway!Next,
           GatewayP!Next
  <1>5. /\ GatewayP!MessageSentOnce => Gateway!MessageSentOnce
        /\ GatewayP!MessageReceiptIsTrue => Gateway!MessageReceiptIsTrue
        /\ GatewayP!PictureIsLast => Gateway!PictureIsLast
    BY DEF Gateway!TypeOK, GatewayP!TypeOK, Gateway!SentOnce, GatewayP!SentOnce,
           Gateway!PartsInOrder, GatewayP!PartsInOrder, Gateway!ReceiptIsTrue,
           GatewayP!ReceiptIsTrue, Gateway!LedgerIsConfirmed, GatewayP!LedgerIsConfirmed,
           Gateway!DeliveryAgrees, GatewayP!DeliveryAgrees, Gateway!MessageSentOnce,
           GatewayP!MessageSentOnce, Gateway!MessageReceiptIsTrue,
           GatewayP!MessageReceiptIsTrue, Gateway!PictureIsLast, GatewayP!PictureIsLast,
           Gateway!Text, GatewayP!Text, Gateway!Op, GatewayP!Op, Gateway!Task, GatewayP!Task,
           Gateway!Status, GatewayP!Status, Gateway!Sent, GatewayP!Sent
  <1> QED BY <1>2, <1>3, <1>4, <1>5

(* LocalP is LocalSend: the same definitions, with their proofs. *)
LEMMA LocalPIsIt ==
    /\ LocalP!SocialSendAssumption
    /\ LocalSend!Init => LocalP!Init
    /\ LocalSend!Next => LocalP!Next
    /\ LocalP!MessageSentOnce => LocalSend!MessageSentOnce
    /\ LocalP!MessageReceiptIsTrue => LocalSend!MessageReceiptIsTrue
    /\ LocalP!PictureIsLast => LocalSend!PictureIsLast
PROOF
  <1>1. LocalSend!IsFiniteSet(Callers) => LocalP!IsFiniteSet(Callers)
    BY DEF LocalSend!IsFiniteSet, LocalP!IsFiniteSet
  <1>2. LocalP!SocialSendAssumption
    BY <1>1, DeliveryAssumption
       DEF LocalSend!SocialSendAssumption, LocalP!SocialSendAssumption
  <1>3. LocalSend!Init => LocalP!Init
    BY DEF LocalSend!Init, LocalP!Init, LocalSend!Text, LocalP!Text, LocalSend!Op, LocalP!Op,
           LocalSend!Task, LocalP!Task, LocalSend!Idle, LocalP!Idle
  <1>4. LocalSend!Next => LocalP!Next
    BY DEF LocalSend!Replays, LocalP!Replays, LocalSend!Admissible, LocalP!Admissible,
           LocalSend!Text, LocalP!Text, LocalSend!Op, LocalP!Op, LocalSend!Task, LocalP!Task,
           LocalSend!Sequence, LocalP!Sequence, LocalSend!Status, LocalP!Status, LocalSend!Sent,
           LocalP!Sent, LocalSend!Idle, LocalP!Idle, LocalSend!rows, LocalP!rows, LocalSend!At,
           LocalP!At, LocalSend!GoTo, LocalP!GoTo, LocalSend!Fault, LocalP!Fault,
           LocalSend!AfterError, LocalP!AfterError, LocalSend!AfterResult, LocalP!AfterResult,
           LocalSend!Recorded, LocalP!Recorded, LocalSend!TextDispatchFinished,
           LocalP!TextDispatchFinished, LocalSend!Dispatch, LocalP!Dispatch, LocalSend!Claims,
           LocalP!Claims, LocalSend!Answer, LocalP!Answer, LocalSend!Settled, LocalP!Settled,
           LocalSend!RepairedStatus, LocalP!RepairedStatus, LocalSend!Interrupted,
           LocalP!Interrupted, LocalSend!Find, LocalP!Find, LocalSend!PrepareSequence,
           LocalP!PrepareSequence, LocalSend!Open, LocalP!Open, LocalSend!Preflight,
           LocalP!Preflight, LocalSend!Refused, LocalP!Refused, LocalSend!Claim, LocalP!Claim,
           LocalSend!Unentered, LocalP!Unentered, LocalSend!Reach, LocalP!Reach,
           LocalSend!Return, LocalP!Return, LocalSend!Settle, LocalP!Settle,
           LocalSend!SettleFails, LocalP!SettleFails, LocalSend!Repair, LocalP!Repair,
           LocalSend!Deferred, LocalP!Deferred, LocalSend!StopSequence, LocalP!StopSequence,
           LocalSend!Cancel, LocalP!Cancel, LocalSend!Scan, LocalP!Scan, LocalSend!Begin,
           LocalP!Begin, LocalSend!Select, LocalP!Select, LocalSend!Check, LocalP!Check,
           LocalSend!Close, LocalP!Close, LocalSend!Done, LocalP!Done, LocalSend!Revoke,
           LocalP!Revoke, LocalSend!Crash, LocalP!Crash, LocalSend!Recover, LocalP!Recover,
           LocalSend!Progress, LocalP!Progress, LocalSend!Illustrate, LocalP!Illustrate,
           LocalSend!Next, LocalP!Next
  <1>5. /\ LocalP!MessageSentOnce => LocalSend!MessageSentOnce
        /\ LocalP!MessageReceiptIsTrue => LocalSend!MessageReceiptIsTrue
        /\ LocalP!PictureIsLast => LocalSend!PictureIsLast
    BY DEF LocalSend!TypeOK, LocalP!TypeOK, LocalSend!SentOnce, LocalP!SentOnce,
           LocalSend!PartsInOrder, LocalP!PartsInOrder, LocalSend!ReceiptIsTrue,
           LocalP!ReceiptIsTrue, LocalSend!LedgerIsConfirmed, LocalP!LedgerIsConfirmed,
           LocalSend!DeliveryAgrees, LocalP!DeliveryAgrees, LocalSend!MessageSentOnce,
           LocalP!MessageSentOnce, LocalSend!MessageReceiptIsTrue, LocalP!MessageReceiptIsTrue,
           LocalSend!PictureIsLast, LocalP!PictureIsLast, LocalSend!Text, LocalP!Text,
           LocalSend!Op, LocalP!Op, LocalSend!Task, LocalP!Task, LocalSend!Status,
           LocalP!Status, LocalSend!Sent, LocalP!Sent
  <1> QED BY <1>2, <1>3, <1>4, <1>5

(* WorkP is WorkSend: the same definitions, with their proofs. *)
LEMMA WorkPIsIt ==
    /\ WorkP!SocialSendAssumption
    /\ WorkSend!Init => WorkP!Init
    /\ WorkSend!Next => WorkP!Next
    /\ WorkP!MessageSentOnce => WorkSend!MessageSentOnce
    /\ WorkP!MessageReceiptIsTrue => WorkSend!MessageReceiptIsTrue
    /\ WorkP!PictureIsLast => WorkSend!PictureIsLast
PROOF
  <1>1. WorkSend!IsFiniteSet({Activation}) => WorkP!IsFiniteSet({Activation})
    BY DEF WorkSend!IsFiniteSet, WorkP!IsFiniteSet
  <1>2. WorkP!SocialSendAssumption
    BY <1>1, DeliveryAssumption
       DEF WorkSend!SocialSendAssumption, WorkP!SocialSendAssumption
  <1>3. WorkSend!Init => WorkP!Init
    BY DEF WorkSend!Init, WorkP!Init, WorkSend!Text, WorkP!Text, WorkSend!Op, WorkP!Op,
           WorkSend!Task, WorkP!Task, WorkSend!Idle, WorkP!Idle
  <1>4. WorkSend!Next => WorkP!Next
    BY DEF WorkSend!Replays, WorkP!Replays, WorkSend!Admissible, WorkP!Admissible,
           WorkSend!Text, WorkP!Text, WorkSend!Op, WorkP!Op, WorkSend!Task, WorkP!Task,
           WorkSend!Sequence, WorkP!Sequence, WorkSend!Status, WorkP!Status, WorkSend!Sent,
           WorkP!Sent, WorkSend!Idle, WorkP!Idle, WorkSend!rows, WorkP!rows, WorkSend!At,
           WorkP!At, WorkSend!GoTo, WorkP!GoTo, WorkSend!Fault, WorkP!Fault,
           WorkSend!AfterError, WorkP!AfterError, WorkSend!AfterResult, WorkP!AfterResult,
           WorkSend!Recorded, WorkP!Recorded, WorkSend!TextDispatchFinished,
           WorkP!TextDispatchFinished, WorkSend!Dispatch, WorkP!Dispatch, WorkSend!Claims,
           WorkP!Claims, WorkSend!Answer, WorkP!Answer, WorkSend!Settled, WorkP!Settled,
           WorkSend!RepairedStatus, WorkP!RepairedStatus, WorkSend!Interrupted,
           WorkP!Interrupted, WorkSend!Find, WorkP!Find, WorkSend!PrepareSequence,
           WorkP!PrepareSequence, WorkSend!Open, WorkP!Open, WorkSend!Preflight,
           WorkP!Preflight, WorkSend!Refused, WorkP!Refused, WorkSend!Claim, WorkP!Claim,
           WorkSend!Unentered, WorkP!Unentered, WorkSend!Reach, WorkP!Reach, WorkSend!Return,
           WorkP!Return, WorkSend!Settle, WorkP!Settle, WorkSend!SettleFails, WorkP!SettleFails,
           WorkSend!Repair, WorkP!Repair, WorkSend!Deferred, WorkP!Deferred,
           WorkSend!StopSequence, WorkP!StopSequence, WorkSend!Cancel, WorkP!Cancel,
           WorkSend!Scan, WorkP!Scan, WorkSend!Begin, WorkP!Begin, WorkSend!Select,
           WorkP!Select, WorkSend!Check, WorkP!Check, WorkSend!Close, WorkP!Close,
           WorkSend!Done, WorkP!Done, WorkSend!Revoke, WorkP!Revoke, WorkSend!Crash,
           WorkP!Crash, WorkSend!Recover, WorkP!Recover, WorkSend!Progress, WorkP!Progress,
           WorkSend!Illustrate, WorkP!Illustrate, WorkSend!Next, WorkP!Next
  <1>5. /\ WorkP!MessageSentOnce => WorkSend!MessageSentOnce
        /\ WorkP!MessageReceiptIsTrue => WorkSend!MessageReceiptIsTrue
        /\ WorkP!PictureIsLast => WorkSend!PictureIsLast
    BY DEF WorkSend!TypeOK, WorkP!TypeOK, WorkSend!SentOnce, WorkP!SentOnce,
           WorkSend!PartsInOrder, WorkP!PartsInOrder, WorkSend!ReceiptIsTrue,
           WorkP!ReceiptIsTrue, WorkSend!LedgerIsConfirmed, WorkP!LedgerIsConfirmed,
           WorkSend!DeliveryAgrees, WorkP!DeliveryAgrees, WorkSend!MessageSentOnce,
           WorkP!MessageSentOnce, WorkSend!MessageReceiptIsTrue, WorkP!MessageReceiptIsTrue,
           WorkSend!PictureIsLast, WorkP!PictureIsLast, WorkSend!Text, WorkP!Text, WorkSend!Op,
           WorkP!Op, WorkSend!Task, WorkP!Task, WorkSend!Status, WorkP!Status, WorkSend!Sent,
           WorkP!Sent
  <1> QED BY <1>2, <1>3, <1>4, <1>5

(* A step of the sum is a step of an operation, or leaves it alone.        *)
LEMMA OperationMoves == [NextAll]_all => [Next]_vars
PROOF BY DEF NextAll, all

(* What holds of a message in each instance.                               *)
MessageInv ==
    /\ instance = "gateway" => GatewayP!IInv
    /\ instance = "local" => LocalP!IInv
    /\ instance = "work" => WorkP!IInv /\ WorkP!OrderInv

(* The executions of a Work's call are one after another.                  *)
LEMMA OneActivation == WorkP!OneExecution
PROOF BY DEF WorkP!OneExecution

LEMMA InitMessage == InitAll => MessageInv
PROOF BY GatewayPIsIt, LocalPIsIt, WorkPIsIt, GatewayP!InitIInv, LocalP!InitIInv, WorkP!InitIInv,
         WorkP!InitOrder DEF InitAll, MessageInv, Operations

(* And a step of the message of its instance, or leaves that alone.        *)
LEMMA MessageMoves ==
    ASSUME [NextAll]_all
    PROVE  /\ instance' = instance
           /\ instance = "gateway" => [GatewayP!Next]_(GatewayP!vars)
           /\ instance = "local" => [LocalP!Next]_(LocalP!vars)
           /\ instance = "work" => [WorkP!Next]_(WorkP!vars)
PROOF
  <1>1. CASE UNCHANGED <<instance, sending>>
    BY <1>1 DEF sending, GatewayP!vars, LocalP!vars, WorkP!vars
  <1>2. CASE /\ UNCHANGED <<instance, vars>>
             /\ \/ instance = "gateway" /\ Gateway!Next
                \/ instance = "local"   /\ LocalSend!Next
                \/ instance = "work"    /\ WorkSend!Next
    BY <1>2, GatewayPIsIt, LocalPIsIt, WorkPIsIt
  <1> QED BY <1>1, <1>2 DEF NextAll, all

LEMMA MessageStays == MessageInv /\ [NextAll]_all => MessageInv'
PROOF
  <1> SUFFICES ASSUME MessageInv, [NextAll]_all  PROVE MessageInv'
    OBVIOUS
  <1>1. ASSUME instance = "gateway"  PROVE GatewayP!IInv'
    BY <1>1, MessageMoves, GatewayPIsIt, GatewayP!NextKeepsIInv DEF MessageInv
  <1>2. ASSUME instance = "local"  PROVE LocalP!IInv'
    BY <1>2, MessageMoves, LocalPIsIt, LocalP!NextKeepsIInv DEF MessageInv
  <1>3. ASSUME instance = "work"  PROVE WorkP!IInv' /\ WorkP!OrderInv'
    BY <1>3, MessageMoves, WorkPIsIt, OneActivation, WorkP!NextKeepsIInv, WorkP!OrderStays
       DEF MessageInv
  <1> QED BY <1>1, <1>2, <1>3, MessageMoves DEF MessageInv

(* Whatever crashes, is retried or runs at the same time, a message        *)
(* reaches a platform or the local ledger once and in order, and its       *)
(* receipts, its outbound events and the delivery rows of a Work say what  *)
(* happened (claim, _dispatch_claimed, record).                            *)
THEOREM MessagesAreTrue == SpecAll => []MessageIsTrue
PROOF
  <1>1. MessageInv => MessageIsTrue
    BY GatewayPIsIt, LocalPIsIt, WorkPIsIt, GatewayP!InvariantTells, LocalP!InvariantTells,
       WorkP!InvariantTells DEF MessageInv, MessageIsTrue
  <1> QED BY InitMessage, MessageStays, <1>1, PTL DEF SpecAll

(* In the call of a Work no text follows the illustration                  *)
(* (_text_dispatch_finished).                                              *)
THEOREM PicturesComeLast == SpecAll => PictureComesLast
PROOF
  <1>1. MessageInv /\ [NextAll]_all => [instance = "work" => WorkSend!PictureIsLast]_all
    <2> SUFFICES ASSUME MessageInv, [NextAll]_all, instance = "work"
                 PROVE  WorkSend!PictureIsLast
      OBVIOUS
    <2>1. WorkP!PictureIsLast
      BY MessageMoves, WorkPIsIt, OneActivation, WorkP!PictureStaysLast DEF MessageInv
    <2> QED BY <2>1, WorkPIsIt
  <1> QED BY InitMessage, MessageStays, <1>1, PTL DEF SpecAll, PictureComesLast

(* In the sum, whether the execution is a daemon or a child, and whatever  *)
(* is lost, restarted or recovered: a command leaves and is carried out at *)
(* most once, what the server and the Work believe is what happened on the *)
(* device, with the two exceptions for the answer that AnswerKept names,   *)
(* and no receipt goes back.                                               *)
THEOREM OperationsInSum ==
    SpecAll => [](OperationRunsOnce /\ OperationReceiptIsTrue) /\ OrderIsKept
PROOF
  <1>1. InitAll => Facts
    BY InitFacts DEF InitAll
  <1>2. Facts /\ [NextAll]_all => Facts' /\ [Forward]_vars
    BY OperationMoves, FactsStay
  <1> QED BY <1>1, <1>2, FactsTell, PTL DEF SpecAll, OrderIsKept
===============================================================================
