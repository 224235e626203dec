--------------------------- MODULE ExternalAgents ---------------------------
(***************************************************************************)
(* A Work delegates a piece of work to a native agent on a person's own    *)
(* computer.  Three parties take part: the server (external_agents), which *)
(* keeps the receipt of every operation; the connector on the device,      *)
(* which keeps a journal of the commands it was given and of the events it *)
(* still owes the server; and the native agent itself.  Commands and       *)
(* replies die with the connection they travel on, events are sent again   *)
(* until they are acknowledged, and either side may restart.               *)
(*                                                                         *)
(* Modelled: one `queue' operation P of one Work, the tool calls that      *)
(* control it (cancel, detach), the query that reconciles it (get), and    *)
(* the maintenance that retires it once its Work has ended.                *)
(***************************************************************************)
EXTENDS Naturals, Integers, FiniteSets, Sequences

CONSTANTS
    P,            \* the operation that was delegated
    Cancels,      \* tool calls that cancel it
    Detaches,     \* tool calls that end its supervision
    Daemons,      \* the kinds of agent: one that outlives the connector, or its child
    MaxProgress,  \* bound on the progress events of the agent
    MaxGets,      \* bound on the queries
    MaxFaults     \* bound on lost connections and restarts

Retire   == "external-retire"    \* the id maintenance cancels P under, always the same
Get      == "get"
Controls == Cancels \cup Detaches
Journaled == {P, Retire} \cup Controls

ASSUME ExternalAssumption ==
    /\ IsFiniteSet(Controls) /\ Cancels \cap Detaches = {}
    /\ P \notin Controls /\ {Retire, Get} \cap ({P} \cup Controls) = {}
    /\ Daemons \subseteq BOOLEAN
    /\ MaxProgress \in Nat /\ MaxGets \in Nat /\ MaxFaults \in Nat

NoSeq == -1
Final == {"completed", "cancelled", "failed", "detached"}
Receipts == [seq : Int, status : {"absent", "none", "unconfirmed", "unknown", "queued",
                                  "running"} \cup Final,
             text : BOOLEAN, exec : BOOLEAN, sub : BOOLEAN]

\* A receipt: its place in the device's order, the status ("unconfirmed" is the unknown
\* status of a command that was only recorded), whether it carries the agent's answer, and
\* whether it names the native execution and the queued submission.
Receipt(n, status, text, exec) ==
    [seq |-> n, status |-> status, text |-> text, exec |-> exec, sub |-> FALSE]
Absent    == Receipt(NoSeq, "absent", FALSE, FALSE)     \* no row at all
NoReceipt == Receipt(NoSeq, "none", FALSE, FALSE)
Refused   == Receipt(NoSeq, "failed", FALSE, FALSE)     \* "executed": False, never sent
Initial   == Receipt(0, "unconfirmed", FALSE, FALSE)
Unknown   == Receipt(0, "unknown", FALSE, FALSE)
Failed    == Receipt(0, "failed", FALSE, FALSE)         \* an error, not admitted
Settled(r) == r.status \in Final                        \* "pending": False

\* How a native turn ends; a submission that never became one is "withdrawn", and an agent
\* that died with its connector is "lost".
Ended   == {"completed", "failed", "cancelled"}
Natives == {"none", "queued", "running", "withdrawn", "lost"} \cup Ended

\* What a command says of its target.
Named(r) == [exec |-> r.exec, sub |-> r.sub]
Command(c, r) == [cmd |-> c, exec |-> r.exec, sub |-> r.sub]

\* A recovery reads the native state of P, and appends what it found afterwards.
Idle == [seq |-> NoSeq, found |-> "none", get |-> FALSE]

VARIABLES
    \* the server's database
    row,        \* AgentOperationModel.result_json; "absent" before prepare()
    bound,      \* native_execution_id of P is known
    gone,       \* detached_at of P is set
    run,        \* the SandboxTaskRun of P
    told,       \* the continuations created for the Work, by status
    seen,       \* AgentEventModel: the events recorded
    heard,      \* the inputs of the Work that came from events
    work,       \* whether the Work is still alive
    \* the server's process
    conn,       \* the device's connection is current
    call,       \* where each execute() (or maintenance task) stands
    snap,       \* the target's receipt as that call read it
    answer,     \* the reply it holds
    \* the wire
    down,       \* commands on their way, with what they say of the execution
    up,         \* replies on their way
    recv,       \* how many of the device's events the server has committed, unacknowledged
    \* the device
    jr,         \* the journal's receipt of each command; "absent" before begin()
    jcmd,       \* what the command named when it was recorded
    jdet,       \* the journal's "detached" mark on P
    jq,         \* the durable events not yet acknowledged
    clock,      \* the journal's sequence
    ex,         \* commands being executed
    live,       \* those whose caller's connection still stands
    driver,     \* whether P's notifications reach it: "attached", "blind"; or it is "lost"
    recovery,   \* the recovery of P that is under way, and whether a query waits for it
    \* the native agent
    daemon,     \* TRUE: it outlives the connector; FALSE: it is its child
    native,
    asked,      \* the cancellations that reached it
    \* history
    sends, execs, progress, gets, faults

server  == <<row, bound, gone, run, told, seen, heard, work>>
process == <<conn, call, snap, answer>>
wire    == <<down, up, recv>>
journal == <<jr, jcmd, jdet, jq, clock>>
device  == <<journal, ex, live, driver, recovery>>
agent   == <<daemon, native, asked>>
bounds  == <<sends, execs, progress, gets, faults>>
vars    == <<server, process, wire, device, agent, bounds>>

Init ==
    /\ row = [c \in {P} \cup Controls |-> Absent] /\ bound = FALSE /\ gone = FALSE
    /\ run = "none" /\ told = <<>> /\ seen = {} /\ heard = {} /\ work = "active"
    /\ conn = TRUE
    /\ call = [c \in Journaled \cup {Get} |-> "idle"]
    /\ snap = [c \in Controls \cup {Retire} |-> NoReceipt]
    /\ answer = [c \in Controls \cup {Retire} |-> NoReceipt]
    /\ down = {} /\ up = {} /\ recv = 0
    /\ jr = [c \in Journaled |-> Absent] /\ jcmd = [c \in Journaled |-> Named(Absent)]
    /\ jdet = FALSE /\ jq = <<>> /\ clock = 0
    /\ ex = {} /\ live = {} /\ driver = "attached" /\ recovery = Idle
    /\ daemon \in Daemons /\ native = "none" /\ asked = {}
    /\ sends = 0 /\ execs = [c \in Journaled |-> 0]
    /\ progress = 0 /\ gets = 0 /\ faults = 0

(***************************************************************************)
(* The server's receipts.                                                  *)
(***************************************************************************)

\* _project: a settled or detached receipt stays, and an older one changes nothing.
Project_NoOrder(c, r) == IF Settled(row[c]) THEN row[c] ELSE r
Project(c, r) ==
    LET old == row[c] IN
    IF \/ c = P /\ gone
       \/ Settled(old)
       \/ old.seq # NoSeq /\ r.seq <= old.seq
    THEN old ELSE r

\* _complete: the run ends once, and its continuation wakes the Work.
Completed(status) ==
    IF run = "waiting"
    THEN run' = "completed" /\ told' = Append(told, status)
    ELSE UNCHANGED <<run, told>>

\* response(): bind the native ids, project, complete.
Commit(c, r) ==
    /\ row' = [row EXCEPT ![c] = Project(c, r)]
    /\ bound' = (bound \/ (c = P /\ r.exec /\ ~Settled(row[P])))
    /\ IF c = P /\ ~Settled(row[P]) /\ Settled(row'[P])
       THEN Completed(row'[P].status) ELSE UNCHANGED <<run, told>>

\* _detached(): the supervision ends, whatever the agent goes on to do.
Detached ==
    IF gone \/ Settled(row[P]) THEN UNCHANGED <<row, gone, run, told>>
    ELSE /\ gone' = TRUE
         /\ row' = [row EXCEPT ![P].status = "detached"]
         /\ Completed("detached")

Known(c) == row[c] # Absent

\* The operation as a control reads it: its receipt, and the execution bound to it.
Target == [row[P] EXCEPT !.exec = bound]

\* A call whose receipt exists was dispatched before.
Replayed_Never(c) == FALSE
Replayed(c) == Known(c)

\* execute() up to the commit of prepare(): a call that is known already is answered
\* from its receipt and sends nothing; a new one records its intent first.
Call(c) ==
    /\ call[c] = "idle"
    /\ c \in Controls => Known(P)
    /\ \/ /\ Replayed(c)
          /\ call' = [call EXCEPT ![c] = "done"]
          /\ UNCHANGED <<row, run, snap>>
       \/ /\ ~Replayed(c) /\ work = "active" /\ conn
          /\ row' = [row EXCEPT ![c] = NoReceipt]
          /\ run' = IF c = P THEN "waiting" ELSE run
          /\ call' = [call EXCEPT ![c] = "prepared"]
          /\ snap' = IF c \in Controls THEN [snap EXCEPT ![c] = Target] ELSE snap
    /\ UNCHANGED <<bound, gone, told, seen, heard, work, conn, answer, wire, device,
                   agent, bounds>>

\* The second look at the source and at the connection, then the command leaves.
Dispatch(c) ==
    /\ call[c] = "prepared"
    /\ IF work = "active" /\ conn
       THEN /\ call' = [call EXCEPT ![c] = "sent"]
            /\ down' = down \cup {Command(c, IF c = P THEN NoReceipt ELSE snap[c])}
            /\ sends' = IF c = P THEN sends + 1 ELSE sends
            /\ UNCHANGED <<row, bound, run, told>>
       ELSE /\ call' = [call EXCEPT ![c] = "done"]
            /\ Commit(c, Refused)
            /\ UNCHANGED <<down, sends>>
    /\ UNCHANGED <<gone, seen, heard, work, conn, snap, answer, up, recv, device, agent,
                   execs, progress, gets, faults>>

\* get: ask the journal for the receipt of a pending operation.
Query ==
    /\ call[Get] = "idle" /\ gets < MaxGets
    /\ Known(P) /\ ~Settled(row[P]) /\ conn
    /\ call' = [call EXCEPT ![Get] = "sent"]
    /\ down' = down \cup {Command(Get, NoReceipt)}
    /\ gets' = gets + 1
    /\ UNCHANGED <<server, conn, snap, answer, up, recv, device, agent, sends, execs,
                   progress, faults>>

\* reconcile() and cleanup_tasks(): a pending operation of an ended Work is cancelled,
\* under an id that does not change from one maintenance to the next.
Maintain ==
    /\ call[Retire] = "idle" /\ conn
    /\ work = "ended" /\ run = "waiting" /\ ~gone /\ ~Settled(row[P])
    /\ call' = [call EXCEPT ![Retire] = "sent"]
    /\ snap' = [snap EXCEPT ![Retire] = Target]
    /\ down' = down \cup {Command(Retire, Target)}
    /\ UNCHANGED <<server, conn, answer, up, recv, device, agent, bounds>>

Back(c) == IF c \in {Retire, Get} THEN "idle" ELSE "done"

\* get: an operation the journal does not know tells nothing.
Reconciled_NotFound(r) == IF r = Absent THEN Refused ELSE r
Reconciled(r) == IF r = Absent THEN row[P] ELSE r

\* A reply reaches the call that waits for it.
Reply(m) ==
    /\ m \in up /\ call[m.cmd] = "sent"
    /\ up' = up \ {m}
    /\ CASE m.cmd = Get ->
              /\ call' = [call EXCEPT ![Get] = "idle"]
              /\ Commit(P, Reconciled(m.res)) /\ UNCHANGED answer
         [] m.cmd = P ->
              /\ call' = [call EXCEPT ![P] = "done"]
              /\ Commit(P, m.res) /\ UNCHANGED answer
         [] m.cmd = Retire ->
              /\ call' = [call EXCEPT ![Retire] = "answered"]
              /\ answer' = [answer EXCEPT ![Retire] = m.res]
              /\ UNCHANGED <<row, bound, run, told>>
         [] m.cmd \in Controls ->
              /\ call' = [call EXCEPT ![m.cmd] = "answered"]
              /\ answer' = [answer EXCEPT ![m.cmd] = m.res]
              /\ Commit(m.cmd, m.res)
    /\ UNCHANGED <<gone, seen, heard, work, conn, snap, down, recv, device, agent, bounds>>

\* What the reply says became of the operation.
Outcome(c) == answer[c].status

\* _control_result(): what the reply to a control says of the operation it controls.
ControlResult(c) ==
    /\ call[c] = "answered"
    /\ call' = [call EXCEPT ![c] = Back(c)]
    /\ CASE c \in Detaches /\ Outcome(c) = "completed" ->
              Detached /\ UNCHANGED bound
         [] c \notin Detaches /\ Outcome(c) \in {"completed", "cancelled"} ->
              /\ Commit(P, [snap[c] EXCEPT !.seq = answer[c].seq,
                                           !.status = Outcome(c)])
              /\ UNCHANGED gone
         [] OTHER -> UNCHANGED <<row, bound, gone, run, told>>
    /\ snap' = [snap EXCEPT ![c] = NoReceipt] /\ answer' = [answer EXCEPT ![c] = NoReceipt]
    /\ UNCHANGED <<seen, heard, work, conn, wire, device, agent, bounds>>

\* An event that is recorded already was only repeated.
Duplicate_Stale(e) == e.seq \in seen \/ e.seq <= row[P].seq
Duplicate(e) == e.seq \in seen

\* receive_events(): the next durable event in one transaction -- recorded once, the ids
\* bound, the receipt projected, and the Work given an input while P is still open.
ReceiveEvent ==
    /\ conn /\ recv < Len(jq)
    /\ LET e == jq[recv + 1] IN
       /\ recv' = recv + 1
       /\ seen' = seen \cup {e.seq}
       /\ IF Duplicate(e) \/ gone
          THEN UNCHANGED <<row, bound, run, told, heard>>
          ELSE /\ Commit(P, e)
               /\ heard' = IF ~Settled(e) /\ ~Settled(row[P]) /\ work = "active"
                           THEN heard \cup {e.seq} ELSE heard
    /\ UNCHANGED <<gone, work, process, down, up, device, agent, bounds>>

\* The acknowledgement follows the commit, and only then is the original dropped.
Acknowledge ==
    /\ conn /\ recv > 0
    /\ jq' = Tail(jq) /\ recv' = recv - 1
    /\ UNCHANGED <<server, process, down, up, jr, jcmd, jdet, clock, ex, live, driver,
                   recovery, agent, bounds>>

\* The Work ends: it completes, or somebody cancels it.
EndWork ==
    /\ work = "active" /\ work' = "ended"
    /\ UNCHANGED <<row, bound, gone, run, told, seen, heard, process, wire, device,
                   agent, bounds>>

(***************************************************************************)
(* The connector.                                                          *)
(***************************************************************************)

\* fold_receipt(): a terminal receipt only moves on in the order.
Fold(old, r, n) ==
    IF Settled(old) THEN [old EXCEPT !.seq = n]
    ELSE [r EXCEPT !.seq = n, !.exec = old.exec \/ r.exec, !.text = old.text \/ r.text,
                   !.sub = old.sub \/ r.sub]

\* The journal knows the command; P is still observed.
Recorded(c) == jr[c] # Absent
Observed == Recorded(P) /\ ~Settled(jr[P])
Doubtful == jr[P].status \in {"unconfirmed", "unknown"}

\* begin(): a command is recorded once; a repeated one is answered from the journal, and
\* one that differs from the recorded command is an error.
Begin(m) ==
    /\ m \in down /\ m.cmd # Get
    /\ down' = down \ {m}
    /\ IF ~Recorded(m.cmd)
       THEN /\ jr' = [jr EXCEPT ![m.cmd] = Initial]
            /\ jcmd' = [jcmd EXCEPT ![m.cmd] = Named(m)]
            /\ ex' = ex \cup {m.cmd} /\ live' = live \cup {m.cmd}
            /\ UNCHANGED up
       ELSE /\ up' = up \cup {[cmd |-> m.cmd,
                               res |-> IF jcmd[m.cmd] = Named(m) THEN jr[m.cmd] ELSE Refused]}
            /\ UNCHANGED <<jr, jcmd, ex, live>>
    /\ UNCHANGED <<server, process, recv, jdet, jq, clock, driver, recovery, agent, bounds>>

\* append(): a durable event and the receipt it leads to; nothing after a detach.
Append1(r) ==
    IF jdet \/ ~Recorded(P) THEN UNCHANGED <<jr, jq, clock>>
    ELSE /\ clock' = clock + 1
         /\ jr' = [jr EXCEPT ![P] = Fold(@, r, clock + 1)]
         /\ jq' = Append(jq, jr'[P])

\* A snapshot is dropped when the receipt has moved on since it was read.
AppendSnapshot(r) ==
    IF recovery.seq = jr[P].seq THEN Append1(r) ELSE UNCHANGED <<jr, jq, clock>>

\* The receipt of a command once its result is in: what events said already stays.
Own(c, r, n) ==
    IF jr[c].status # "unconfirmed"
    THEN [jr[c] EXCEPT !.seq = n, !.exec = @ \/ r.exec, !.sub = @ \/ r.sub]
    ELSE Fold(jr[c], r, n)

\* complete(): the result takes its place in the order, and a detachment, or a cancellation
\* that finds P over, settles P; the reply goes back on the connection the command came by,
\* if that still stands.
Complete(c, r, end) ==
    LET n   == clock + 1
        own == Own(c, r, n)
    IN
    /\ clock' = n
    /\ jr' = IF end # "none"
             THEN [jr EXCEPT ![c] = own, ![P] = Fold(@, Receipt(n, end, FALSE, FALSE), n)]
             ELSE [jr EXCEPT ![c] = own]
    /\ jdet' = (jdet \/ end = "detached")
    /\ ex' = ex \ {c} /\ live' = live \ {c}
    /\ up' = IF c \in live THEN up \cup {[cmd |-> c, res |-> own]} ELSE up
    /\ UNCHANGED <<server, process, down, recv, jcmd, driver, recovery>>

\* The agent takes P: a daemon queues the submission, a child runs it at once.
Start ==
    /\ P \in ex /\ native = "none" /\ driver = "attached"
    /\ native' = IF daemon THEN "queued" ELSE "running"
    /\ execs' = [execs EXCEPT ![P] = @ + 1]
    /\ UNCHANGED <<server, process, wire, device, daemon, asked, sends, progress, gets,
                   faults>>

\* What an admission says of P.
Taken ==
    [Receipt(0, IF native \in {"queued", "running"} THEN native ELSE "unknown", FALSE,
             native = "running") EXCEPT !.sub = daemon]

\* Its admission is answered, perhaps after events told more; or the agent's answer was
\* lost or not understood; or the command failed before it reached the agent.
Admitted ==
    /\ P \in ex
    /\ \/ native # "none" /\ driver = "attached" /\ Complete(P, Taken, "none")
       \/ Complete(P, Unknown, "none")
       \/ native = "none" /\ Complete(P, Failed, "none")
    /\ UNCHANGED <<jq, agent, bounds>>

\* A cancellation can stop P: the execution it names runs, or the submission still waits,
\* named by the command or remembered by the driver.
Stoppable(c) ==
    /\ driver # "lost"
    /\ \/ jcmd[c].exec /\ native = "running"
       \/ /\ ~jcmd[c].exec /\ native = "queued"
          /\ jcmd[c].sub \/ (driver = "attached" /\ ~jdet /\ P \notin ex)

\* A child that is still there says of an execution that is over how it ended.
Over(c) == ~daemon /\ driver = "attached" /\ jcmd[c].exec /\ native \in Ended

\* The driver cancels: the submission is withdrawn, or the execution interrupted; or it is
\* over; or the command fails, and without the agent its failure may not be certain (a
\* refusal by the agent is taken for certain: it tells only in the command's own receipt).
DoCancel(c) ==
    /\ c \in (ex \ asked) \cap (Cancels \cup {Retire})
    /\ execs' = [execs EXCEPT ![c] = @ + 1]
    /\ \/ /\ Stoppable(c)
          /\ asked' = asked \cup {c}
          /\ native' = IF jcmd[c].exec THEN native ELSE "withdrawn"
          /\ UNCHANGED <<server, process, wire, device, daemon>>
       \/ /\ Over(c)
          /\ Complete(c, Receipt(0, native, FALSE, FALSE), native)
          /\ UNCHANGED <<jq, agent>>
       \/ /\ ~(Stoppable(c) \/ Over(c)) \/ jcmd[c] = Named(Absent)
          /\ \E r \in {Failed} \cup (IF driver = "lost" THEN {Unknown} ELSE {}) :
                Complete(c, r, "none")
          /\ UNCHANGED <<jq, agent>>
    /\ UNCHANGED <<sends, progress, gets, faults>>

\* A child that is interrupted shows the state of its session, which may have ended since.
Shown == {"running"} \cup (IF daemon THEN {} ELSE {native} \cap {"completed", "failed"})

\* The agent has answered the cancellation: an interrupted execution goes on until it
\* ends; a withdrawal is reported, and settles P; an answer may be lost with the driver.
CancelAnswered(c) ==
    /\ c \in ex \cap asked
    /\ \/ /\ jcmd[c].exec
          /\ \E s \in Shown : Complete(c, Receipt(0, s, FALSE, FALSE), "none")
          /\ UNCHANGED jq
       \/ /\ ~jcmd[c].exec
          /\ LET r1  == Fold(jr[P], Receipt(0, "cancelled", FALSE, FALSE), clock + 1)
                 own == Receipt(clock + 2, "cancelled", FALSE, FALSE)
             IN /\ jq' = IF jdet THEN jq ELSE Append(jq, r1)
                /\ clock' = clock + 2
                /\ jr' = [jr EXCEPT ![P] = Fold(r1, r1, clock + 2), ![c] = own]
                /\ ex' = ex \ {c} /\ live' = live \ {c}
                /\ up' = IF c \in live THEN up \cup {[cmd |-> c, res |-> own]} ELSE up
          /\ UNCHANGED <<server, process, down, recv, jcmd, jdet, driver, recovery>>
       \/ driver = "lost" /\ Complete(c, Unknown, "none") /\ UNCHANGED jq
    /\ UNCHANGED <<agent, bounds>>

\* A detach lets go of the observation; an operation the journal never saw is an error.
DoDetach(c) ==
    /\ c \in ex \cap Detaches
    /\ execs' = [execs EXCEPT ![c] = @ + 1]
    /\ IF Recorded(P)
       THEN Complete(c, Receipt(0, "completed", FALSE, FALSE), "detached")
       ELSE Complete(c, Failed, "none")
    /\ UNCHANGED <<jq, agent, sends, progress, gets, faults>>

(***************************************************************************)
(* Recovery: after a restart or a lost connection to the daemon, and for a *)
(* query whose answer is not known, the driver looks for P at the agent.   *)
(***************************************************************************)

Reading(get) == [seq |-> jr[P].seq, found |-> native, get |-> get]

\* The driver is connected again, and starts to recover an operation that is observed.
Reconnect ==
    /\ driver = "lost" /\ recovery = Idle
    /\ IF Observed
       THEN driver' = "blind" /\ recovery' = Reading(FALSE)
       ELSE driver' = "attached" /\ UNCHANGED recovery
    /\ UNCHANGED <<server, process, wire, journal, ex, live, agent, bounds>>

\* A turn that had ended is reported, without its answer.  One that goes on is subscribed
\* to -- too late, if it went on meanwhile -- and anything else is not known.
Recover ==
    /\ recovery # Idle /\ recovery' = Idle
    /\ \/ /\ recovery.found \in Ended
          /\ Append1(Receipt(0, recovery.found, FALSE, TRUE))
          /\ UNCHANGED driver
       \/ /\ recovery.found \in {"queued", "running"} /\ driver # "lost"
          /\ AppendSnapshot(Receipt(0, recovery.found, FALSE, recovery.found = "running"))
          /\ driver' = IF native = recovery.found THEN "attached" ELSE driver
       \/ /\ AppendSnapshot([Unknown EXCEPT !.exec = recovery.found = "running"])
          /\ UNCHANGED driver
    /\ up' = IF recovery.get THEN up \cup {[cmd |-> Get, res |-> jr'[P]]} ELSE up
    /\ UNCHANGED <<server, process, down, recv, jcmd, jdet, ex, live, agent, bounds>>

\* A query is answered from the journal; while the receipt is in doubt, the driver first
\* recovers -- a daemon is read, a child only says again that nothing is known.
AnswerGet ==
    /\ \E m \in down : m.cmd = Get /\ down' = down \ {m}
    /\ \/ /\ ~Doubtful \/ driver = "lost" \/ (driver = "blind" /\ ~daemon)
          /\ up' = up \cup {[cmd |-> Get, res |-> jr[P]]}
          /\ UNCHANGED <<jr, jq, clock, recovery>>
       \/ /\ Doubtful /\ daemon /\ driver # "lost"
          /\ recovery' = IF recovery = Idle THEN Reading(TRUE)
                         ELSE [recovery EXCEPT !.get = TRUE]
          /\ UNCHANGED <<up, jr, jq, clock>>
       \/ /\ Doubtful /\ (driver = "lost" \/ (driver = "attached" /\ ~daemon))
          /\ Append1(Unknown)
          /\ up' = up \cup {[cmd |-> Get, res |-> jr'[P]]}
          /\ UNCHANGED recovery
    /\ UNCHANGED <<server, process, recv, jcmd, jdet, ex, live, driver, agent, bounds>>

(***************************************************************************)
(* The native agent, and what goes wrong.                                  *)
(***************************************************************************)

\* A notification becomes a durable event only if it reaches the driver.
Notify(r) ==
    /\ IF driver = "attached" THEN Append1(r) ELSE UNCHANGED <<jr, jq, clock>>
    /\ UNCHANGED <<server, process, wire, jcmd, jdet, ex, live, driver, recovery, daemon,
                   asked, sends, execs, gets, faults>>

\* A queued submission starts.
Turn ==
    /\ native = "queued" /\ native' = "running"
    /\ Notify(Receipt(0, "running", FALSE, TRUE))
    /\ UNCHANGED progress

\* A milestone: a file, a question, a tool call.  It says nothing of the status.
Milestone ==
    /\ native = "running" /\ progress < MaxProgress /\ progress' = progress + 1
    /\ Notify([jr[P] EXCEPT !.exec = TRUE])
    /\ UNCHANGED native

Interrupted == \E c \in asked : jcmd[c].exec

\* The execution ends, well or not, or because it was interrupted; its last words go with
\* the event.
Finish ==
    /\ native = "running"
    /\ \E s \in {"completed", "failed"} \cup (IF Interrupted THEN {"cancelled"} ELSE {}) :
          native' = s /\ Notify(Receipt(0, s, TRUE, TRUE))
    /\ UNCHANGED progress

\* The connection is lost, with everything on its way: a call whose command was sent
\* reports "uncertain" and records nothing.
Lost ==
    /\ conn' = FALSE /\ down' = {} /\ up' = {} /\ recv' = 0 /\ live' = {}
    /\ faults < MaxFaults /\ faults' = faults + 1

Disconnect ==
    /\ conn /\ Lost
    /\ call' = [c \in DOMAIN call |-> IF call[c] = "sent" THEN Back(c) ELSE call[c]]
    /\ recovery' = [recovery EXCEPT !.get = FALSE]
    /\ UNCHANGED <<server, snap, answer, journal, ex, driver, agent, sends, execs, progress,
                   gets>>

Connect ==
    /\ ~conn /\ conn' = TRUE
    /\ UNCHANGED <<server, call, snap, answer, wire, device, agent, bounds>>

\* The server restarts: its Works repeat the calls whose outcome they do not know.
ServerRestart ==
    /\ Lost
    /\ call' = [c \in DOMAIN call |-> IF call[c] = "done" THEN "done" ELSE "idle"]
    /\ recovery' = [recovery EXCEPT !.get = FALSE]
    /\ UNCHANGED <<server, snap, answer, journal, ex, driver, agent, sends, execs, progress,
                   gets>>

\* The connector restarts: the journal and a daemon survive it, an agent of its own does
\* not, and start_drivers() says of an open operation that its state is not known.
DeviceRestart ==
    /\ Lost /\ ex' = {} /\ recovery' = Idle
    /\ call' = [c \in DOMAIN call |-> IF call[c] = "sent" THEN Back(c) ELSE call[c]]
    /\ driver' = IF daemon THEN "lost" ELSE IF Recorded(P) THEN "blind" ELSE driver
    /\ native' = IF ~daemon /\ native = "running" THEN "lost" ELSE native
    /\ IF Observed /\ ~Doubtful THEN Append1(Unknown) ELSE UNCHANGED <<jr, jq, clock>>
    /\ UNCHANGED <<server, snap, answer, jcmd, jdet, daemon, asked, sends, execs,
                   progress, gets>>

\* The connector goes on, but loses the daemon or its child: what it observed is not known.
LoseOwner ==
    /\ faults < MaxFaults /\ faults' = faults + 1
    /\ Observed /\ driver # "lost"
    /\ IF daemon THEN driver' = "lost" /\ UNCHANGED native
       ELSE native = "running" /\ native' = "lost" /\ UNCHANGED driver
    /\ IF driver = "attached" THEN Append1(Unknown) ELSE UNCHANGED <<jr, jq, clock>>
    /\ UNCHANGED <<server, process, wire, jcmd, jdet, ex, live, recovery, daemon, asked,
                   sends, execs, progress, gets>>

Next ==
    \/ \E c \in {P} \cup Controls : Call(c) \/ Dispatch(c)
    \/ Query \/ Maintain
    \/ \E m \in up : Reply(m)
    \/ \E c \in Controls \cup {Retire} : ControlResult(c)
    \/ ReceiveEvent \/ Acknowledge \/ EndWork
    \/ \E m \in down : Begin(m)
    \/ AnswerGet \/ Start \/ Admitted
    \/ \E c \in Cancels \cup {Retire} : DoCancel(c) \/ CancelAnswered(c)
    \/ \E c \in Detaches : DoDetach(c)
    \/ Reconnect \/ Recover
    \/ Turn \/ Milestone \/ Finish
    \/ Disconnect \/ Connect \/ ServerRestart \/ DeviceRestart \/ LoseOwner

Spec == Init /\ [][Next]_vars

\* Both processes serve what reaches them, the connector dials the server and the daemon
\* again, maintenance returns, and an interrupted execution ends.  Nothing is assumed of an execution
\* that was left alone, nor of the Work.
Fairness ==
    /\ WF_vars(Connect) /\ WF_vars(ReceiveEvent) /\ WF_vars(Acknowledge)
    /\ WF_vars(\E m \in down : Begin(m)) /\ WF_vars(AnswerGet)
    /\ WF_vars(\E m \in up : Reply(m))
    /\ WF_vars(\E c \in {P} \cup Controls : Dispatch(c))
    /\ WF_vars(\E c \in Controls \cup {Retire} : ControlResult(c))
    /\ WF_vars(Start) /\ WF_vars(Admitted)
    /\ WF_vars(\E c \in Cancels \cup {Retire} : DoCancel(c) \/ CancelAnswered(c))
    /\ WF_vars(\E c \in Detaches : DoDetach(c))
    /\ WF_vars(Reconnect) /\ WF_vars(Recover) /\ WF_vars(Maintain)
    /\ WF_vars(Interrupted /\ Finish)

FairSpec == Spec /\ Fairness

(***************************************************************************)
(* Properties.                                                             *)
(***************************************************************************)

\* Types, and how the two ends are tied: the server counts no more events than the
\* journal holds, and a command runs only if the journal has it.
TypeOK ==
    /\ row \in [{P} \cup Controls -> Receipts]
    /\ bound \in BOOLEAN /\ gone \in BOOLEAN /\ conn \in BOOLEAN
    /\ run \in {"none", "waiting", "completed"} /\ work \in {"active", "ended"}
    /\ call \in [Journaled \cup {Get} -> {"idle", "prepared", "sent", "answered", "done"}]
    /\ jr \in [Journaled -> Receipts]
    /\ jcmd \in [Journaled -> [exec : BOOLEAN, sub : BOOLEAN]]
    /\ recv \in 0 .. Len(jq)
    /\ heard \subseteq seen
    /\ live \subseteq ex
    /\ \A c \in ex : jr[c] # Absent
    /\ driver \in {"attached", "blind", "lost"}
    /\ recovery \in [seq : Int, found : Natives, get : BOOLEAN]
    /\ daemon \in BOOLEAN /\ native \in Natives /\ asked \subseteq Cancels \cup {Retire}

\* However often the call is repeated after restarts, the server sends P's command once:
\* a missing answer never authorizes another dispatch.
SentOnce == sends <= 1

\* No command is carried out twice by the device, although maintenance sends the same
\* cancellation again and again.
ExecutedOnce == \A c \in Journaled : execs[c] <= 1

\* What the server believes of a settled P is what happened to it: "executed: False" only if
\* the device never got it and never will; "completed" only if the agent completed it;
\* "cancelled" only if the submission was withdrawn or the execution stopped; "failed" only
\* if the execution failed or the agent never took it; "detached" only if the device let go.
ReceiptIsTrue ==
    Known(P) =>
        /\ row[P] = Refused => jr[P] = Absent /\ \A m \in down : m.cmd # P
        /\ row[P].status = "completed" => native = "completed"
        /\ row[P].status = "cancelled" => native \in {"cancelled", "withdrawn"}
        /\ (row[P].status = "failed" /\ row[P] # Refused) =>
              native = "failed" \/ (native = "none" /\ P \notin ex)
        /\ row[P].status = "detached" => jdet

\* The Work is told of the end once, and exactly when the receipt is settled.
ToldOnce ==
    /\ Len(told) <= 1
    /\ (told # <<>>) <=> (run = "completed")
    /\ (run = "completed") <=> (Known(P) /\ Settled(row[P]))

\* The answer of a completed execution reaches the Work, even when the end overtakes the
\* admission.  It is lost only if the device never had it, because a connection broke and a
\* recovery found the end, or if the reply to a cancellation that crossed the end settled
\* the receipt before the event of the end arrived.
AnswerKept ==
    /\ (Known(P) /\ row[P].status = "completed" /\ ~row[P].text) =>
          ~jr[P].text \/ \E c \in Cancels \cup {Retire} : jr[c].seq = row[P].seq
    /\ (jr[P].status = "completed" /\ ~jr[P].text) => faults > 0

\* The server's receipt never goes back to an older state of the device, and never
\* changes once it is settled.
Forward ==
    (Known(P) /\ Known(P)') =>
        /\ row'[P].seq >= row[P].seq
        /\ Settled(row[P]) => row'[P] = row[P]
OrderIsKept == [][Forward]_vars

\* A command leaves the server and is carried out at most once.
OperationRunsOnce == TypeOK /\ SentOnce /\ ExecutedOnce

\* What the server and the Work believe of an operation is what happened.
OperationReceiptIsTrue == ReceiptIsTrue /\ ToldOnce /\ AnswerKept

\* Every end that the journal recorded as an event reaches the Work.
EndArrives ==
    (\E i \in DOMAIN jq : Settled(jq[i])) ~> (run = "completed")

\* Every milestone becomes an input of the Work, unless P is settled or the Work over.
MilestoneArrives ==
    \A n \in 1 .. (MaxProgress + 6) :
        (\E i \in DOMAIN jq : jq[i].seq = n /\ ~Settled(jq[i]))
            ~> (n \in heard \/ run = "completed" \/ work = "ended")

\* An execution of an ended Work is stopped, when its name is known before maintenance
\* first cancels it and the connector is there and does not restart in the middle of that.
AbandonedIsStopped ==
    (work = "ended" /\ native = "running" /\ bound /\ run = "waiting"
        /\ call[Retire] = "idle" /\ jr[Retire] = Absent /\ faults = MaxFaults
        /\ driver # "lost")
        ~> (native # "running" \/ run = "completed")

\* Maintenance keeps at it until the execution of an ended Work is stopped.
AbandonedIsCancelled ==
    (work = "ended" /\ native = "running" /\ run = "waiting" /\ daemon)
        ~> (native # "running" \/ run = "completed")
=============================================================================
