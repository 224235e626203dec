------------------------------- MODULE WorkWait -------------------------------
(* The durable waits of runtime/work_wait.py.  A running Work registers a   *)
(* wait on time, on messages of its conversation, on plugin events and on   *)
(* runs it owns; three writers race to resolve it: the poller of the work   *)
(* scheduler, the matcher of an inbound message and the publisher of a      *)
(* plugin event.  The poller and the matcher read first, and write in a     *)
(* later transaction after proving that what they read still holds.         *)
EXTENDS Integers, FiniteSets, Sequences

CONSTANTS
    Works,      \* the Works of one conversation
    Runs,       \* sandbox runs and child Works
    Owner,      \* the Work that started each run
    Requests,   \* the waits the model may ask for
    Granted,    \* plugins granted to publish into the conversation
    Plugins,
    Eligible,   \* {TRUE}, or BOOLEAN when suppressed and outbound events occur too
    PollSize,   \* bindings one poll takes; 128 in the code
    MaxWaits, MaxEvents, MaxTime, MaxBoundaries

Kinds == {"time_due", "conversation", "plugin_event", "owned_run"}

(* What normalize_conditions accepts: conditions of these kinds, at least one. *)
(* A time that is past already is due like one that is now.                 *)
Acceptable(q) ==
    /\ q.mode \in {"any", "all"} /\ q.deadline \in Nat
    /\ q.conds \in Seq({q.conds[i] : i \in DOMAIN q.conds}) /\ q.conds # <<>>
    /\ \A i \in DOMAIN q.conds :
         /\ q.conds[i] = [kind |-> q.conds[i].kind, arg |-> q.conds[i].arg]
         /\ q.conds[i].kind \in Kinds
         /\ q.conds[i].kind = "time_due" => q.conds[i].arg \in Nat

WaitAssumption ==
    /\ \A q \in Requests : Acceptable(q)
    /\ Owner \in [Runs -> Works]
    /\ Granted \subseteq Plugins /\ Eligible \subseteq BOOLEAN
    /\ PollSize \in Nat \ {0}
    /\ MaxWaits \in Nat /\ MaxEvents \in Nat /\ MaxTime \in Nat /\ MaxBoundaries \in Nat

VARIABLES
    clock,
    generation, \* of the conversation
    events,     \* the conversation's ledger: kind, plugin, eligible
    runs,       \* status of each run
    asked,      \* the requires-action input of each run
    work,       \* state, generation and accepted wait of each Work
    waits,      \* the bindings, by id
    signal,     \* the work_signal input of each binding
    matcher,    \* per message event: what its handler has read
    poller      \* what deliver_due has read

vars == <<clock, generation, events, runs, asked, work, waits, signal, matcher, poller>>

-----------------------------------------------------------------------------
Over == {"completed", "failed", "cancelled"}
Wait == 1 .. MaxWaits
Event == 1 .. MaxEvents

(* What a condition was matched by: a time, an event, or a run's status.   *)
Proof(k, e, s) == [kind |-> k, event |-> e, status |-> s]
Unmatched == Proof("none", 0, "none")
Statuses == {"running", "uncertain", "completed"}
Proofs == [kind : Kinds \cup {"none"}, event : 0 .. MaxEvents, status : Statuses \cup {"none"}]

(* Statuses of a run that satisfy an owned_run condition. *)
Reported == {"uncertain", "completed"}

NoWait == [status |-> "absent"]
Active == {b \in Wait : waits[b].status = "active"}
ActiveOf(w) == {b \in Active : waits[b].work = w}
Used == {b \in Wait : waits[b].status # "absent"}

Done(mode, m) ==
    IF mode = "any" THEN \E i \in DOMAIN m : m[i] # Unmatched
                    ELSE \A i \in DOMAIN m : m[i] # Unmatched

(* The Work is over or belongs to an earlier generation. *)
Gone(b) ==
    LET w == waits[b].work IN
    \/ generation # waits[b].gen
    \/ work[w].gen # waits[b].gen
    \/ work[w].state \in Over

(* The row _due_query returns for an active binding. *)
Row(b) == [matched |-> waits[b].matched, state |-> work[waits[b].work].state,
           gen |-> work[waits[b].work].gen, now |-> generation]

Rows(S) == [b \in S |-> Row(b)]

-----------------------------------------------------------------------------
(* _deliver and the partial update: one writer's verdict on some bindings.  *)
(* A verdict is [reason, matched]; "keep" leaves the binding alone.          *)

Keep == [reason |-> "keep", matched |-> <<>>]
Verdict(r, m) == [reason |-> r, matched |-> m]
Delivers(v) == v.reason \in {"signal", "deadline", "requires_action"}

(* _deliver refuses a binding whose Work is gone. *)
Checked(b, v) == IF Delivers(v) /\ Gone(b) THEN Verdict("invalidated", v.matched) ELSE v

Written(bind, v) ==
    CASE v.reason = "keep"        -> bind
      [] v.reason = "invalidated" -> [bind EXCEPT !.status = "invalidated"]
      [] v.reason = "partial"     -> [bind EXCEPT !.matched = v.matched]
      [] OTHER -> [bind EXCEPT !.status = IF v.reason = "deadline" THEN "expired" ELSE "delivered",
                               !.matched = v.matched, !.why = v.reason]

Waking(w, out) ==
    /\ work[w].state \in {"waiting_external", "waiting_user"}
    /\ \E b \in DOMAIN out : waits[b].work = w /\ Delivers(out[b])

Apply(out) ==
    /\ waits' = [b \in Wait |-> IF b \in DOMAIN out THEN Written(waits[b], out[b]) ELSE waits[b]]
    /\ signal' = [b \in Wait |-> IF b \in DOMAIN out /\ Delivers(out[b])
                                   THEN "pending" ELSE signal[b]]
    /\ work' = [w \in Works |-> IF Waking(w, out) THEN [work[w] EXCEPT !.state = "queued"]
                                ELSE work[w]]

-----------------------------------------------------------------------------
(* Registration *)

(* normalize_conditions: a delay is turned into a due time. *)
Normalized(c) == IF c.kind = "time_due" THEN [c EXCEPT !.arg = clock + c.arg] ELSE c

Binding(w, q) ==
    [status |-> "active", why |-> "none", work |-> w, gen |-> generation, mode |-> q.mode,
     conds |-> [i \in DOMAIN q.conds |-> Normalized(q.conds[i])], deadline |-> q.deadline,
     after |-> Len(events), matched |-> [i \in DOMAIN q.conds |-> Unmatched]]

Holds(w) == work[w].state = "running" /\ work[w].gen = generation

NamesRun(bind, r) ==
    \E i \in DOMAIN bind.conds : bind.conds[i].kind = "owned_run" /\ bind.conds[i].arg = r

Superseded(w) ==
    [b \in Wait |-> IF b \in ActiveOf(w) THEN [waits[b] EXCEPT !.status = "cancelled"] ELSE waits[b]]

(* A wait replaces the active one; a question of a named run that is still  *)
(* in the mailbox resolves it in the same transaction.                      *)
Register(w, q) ==
    LET n == Cardinality(Used) + 1
        bind == Binding(w, q)
        interrupted == \E r \in Runs : asked[r] = "pending" /\ Owner[r] = w /\ NamesRun(bind, r)
    IN  /\ Holds(w) /\ n \in Wait
        /\ \A i \in DOMAIN q.conds :
             /\ q.conds[i].kind = "plugin_event" => q.conds[i].arg \in Granted
             /\ q.conds[i].kind = "owned_run" => Owner[q.conds[i].arg] = w
        /\ waits' = [Superseded(w) EXCEPT ![n] =
                        IF interrupted THEN [bind EXCEPT !.status = "delivered", !.why = "requires_action"]
                        ELSE bind]
        /\ signal' = [signal EXCEPT ![n] = IF interrupted THEN "pending" ELSE "none"]
        /\ work' = [work EXCEPT ![w].wait = n]
        /\ UNCHANGED <<clock, generation, events, runs, asked, matcher, poller>>

(* cancel_wait of a running Work. *)
Cancel(w) ==
    /\ Holds(w) /\ ActiveOf(w) # {}
    /\ waits' = Superseded(w)
    /\ UNCHANGED <<clock, generation, events, runs, asked, work, signal, matcher, poller>>

-----------------------------------------------------------------------------
(* Events of the conversation *)

Fits(c, e) == c.kind = e.kind /\ (c.kind = "plugin_event" => c.arg = e.plugin)

(* apply_event on one binding, given the conditions the caller has read.    *)
Matched(b, m, id, e) ==
    [i \in DOMAIN m |->
        IF m[i] = Unmatched /\ Fits(waits[b].conds[i], e) /\ id > waits[b].after
          THEN Proof(e.kind, id, "none") ELSE m[i]]

EventVerdict(b, m, id, e) ==
    LET new == Matched(b, m, id, e) IN
    IF ~e.eligible \/ new = m \/ waits[b].gen # generation THEN Keep
    ELSE IF Done(waits[b].mode, new) THEN Checked(b, Verdict("signal", new))
    ELSE Verdict("partial", new)

Room == Len(events) < MaxEvents

(* A message is in the ledger before its handler looks for waits.           *)
Message(ok) ==
    /\ Room
    /\ events' = Append(events, [kind |-> "conversation", plugin |-> "none", eligible |-> ok])
    /\ UNCHANGED <<clock, generation, runs, asked, work, waits, signal, matcher, poller>>

(* publish: the event and its matches are one transaction, begun again      *)
(* unless the bindings prepared for it are still the current ones.          *)
Publish(p, ok) ==
    /\ Room
    /\ LET e == [kind |-> "plugin_event", plugin |-> p, eligible |-> ok] IN
       /\ events' = Append(events, e)
       /\ Apply([b \in Active |-> EventVerdict(b, waits[b].matched, Len(events) + 1, e)])
    /\ UNCHANGED <<clock, generation, runs, asked, matcher, poller>>

(* match_event reads the active bindings; without a condition this event    *)
(* could match there is nothing to write.                                   *)
Interesting(id) ==
    \E b \in Active : \E i \in DOMAIN waits[b].conds :
        /\ waits[b].conds[i].kind = "conversation" /\ waits[b].matched[i] = Unmatched
        /\ id > waits[b].after

MatchRead(id) ==
    /\ id \in DOMAIN events /\ events[id].kind = "conversation" /\ matcher[id].pc = "idle"
    /\ matcher' = [matcher EXCEPT ![id] =
                     IF Interesting(id) THEN [pc |-> "prepared", rows |-> Rows(Active)]
                     ELSE [pc |-> "done", rows |-> <<>>]]
    /\ UNCHANGED <<clock, generation, events, runs, asked, work, waits, signal, poller>>

(* event_waits_current *)
Current(id) == matcher[id].rows = Rows(Active)

(* Mutant: the writer trusts what was read before it. *)
MatchWriteStale(id) ==
    /\ matcher[id].pc = "prepared"
    /\ Apply([b \in Active \cap DOMAIN matcher[id].rows |->
                EventVerdict(b, matcher[id].rows[b].matched, id, events[id])])
    /\ matcher' = [matcher EXCEPT ![id] = [pc |-> "done", rows |-> <<>>]]
    /\ UNCHANGED <<clock, generation, events, runs, asked, poller>>

MatchWrite(id) ==
    /\ matcher[id].pc = "prepared"
    /\ \/ /\ Current(id)
          /\ Apply([b \in Active |-> EventVerdict(b, matcher[id].rows[b].matched, id, events[id])])
          /\ matcher' = [matcher EXCEPT ![id] = [pc |-> "done", rows |-> <<>>]]
       \/ /\ ~Current(id)
          /\ matcher' = [matcher EXCEPT ![id] = [pc |-> "idle", rows |-> <<>>]]
          /\ UNCHANGED <<work, waits, signal>>
    /\ UNCHANGED <<clock, generation, events, runs, asked, poller>>

-----------------------------------------------------------------------------
(* The poller: deliver_due *)

Observed(b, m, status) ==
    [i \in DOMAIN m |->
        LET c == waits[b].conds[i] IN
        IF m[i] # Unmatched THEN m[i]
        ELSE IF c.kind = "time_due" /\ c.arg <= clock THEN Proof("time_due", 0, "none")
        ELSE IF c.kind = "owned_run" /\ c.arg \in DOMAIN status /\ status[c.arg] \in Reported
          THEN Proof("owned_run", 0, status[c.arg])
        ELSE m[i]]

Expired(b) == waits[b].deadline # 0 /\ waits[b].deadline <= clock

(* Mutant: a deadline only counts when a condition moved as well. *)
ObserveDueChanged(b, m, status) ==
    LET new == Observed(b, m, status) IN
    IF Gone(b) THEN Verdict("invalidated", m)
    ELSE IF Done(waits[b].mode, new) THEN Verdict("signal", new)
    ELSE IF new # m /\ Expired(b) THEN Verdict("deadline", new)
    ELSE IF new # m THEN Verdict("partial", new)
    ELSE Keep

(* _observe_due *)
ObserveDue(b, m, status) ==
    LET new == Observed(b, m, status) IN
    IF Gone(b) THEN Verdict("invalidated", m)
    ELSE IF Done(waits[b].mode, new) THEN Verdict("signal", new)
    ELSE IF Expired(b) THEN Verdict("deadline", new)
    ELSE IF new # m THEN Verdict("partial", new)
    ELSE Keep

(* _requested_runs: the runs these bindings still wait for. *)
RequestedRuns(S) ==
    {r \in Runs : \E b \in S : \E i \in DOMAIN waits[b].conds :
        /\ waits[b].conds[i].kind = "owned_run" /\ waits[b].conds[i].arg = r
        /\ waits[b].matched[i] = Unmatched}

RunStates(S) == [r \in RequestedRuns(S) |-> runs[r]]

Due == {b \in Active : ObserveDue(b, waits[b].matched, RunStates(Active)) # Keep}

(* The oldest bindings with something to do, at most PollSize of them. *)
Taken == {b \in Due : Cardinality({c \in Due : c < b}) < PollSize}

IdlePoll == [pc |-> "idle", rows |-> <<>>, runs |-> <<>>]

PollRead ==
    /\ poller.pc = "idle" /\ Due # {}
    /\ poller' = [pc |-> "prepared", rows |-> [b \in Taken |-> waits[b].matched],
                  runs |-> RunStates(Taken)]
    /\ UNCHANGED <<clock, generation, events, runs, asked, work, waits, signal, matcher>>

(* _owned_runs_current *)
RunsCurrent == \A r \in DOMAIN poller.runs : poller.runs[r] = runs[r]

(* Bindings that are still active with the conditions that were read. *)
Unmoved == {b \in Active \cap DOMAIN poller.rows : waits[b].matched = poller.rows[b]}

Polled(S) == Apply([b \in S |-> Checked(b, ObserveDue(b, poller.rows[b], poller.runs))])

(* Mutant: a binding is resolved though it moved since it was read. *)
PollWriteStaleRows ==
    /\ poller.pc = "prepared"
    /\ IF RunsCurrent THEN Polled(DOMAIN poller.rows) ELSE UNCHANGED <<work, waits, signal>>
    /\ poller' = IdlePoll
    /\ UNCHANGED <<clock, generation, events, runs, asked, matcher>>

PollWrite ==
    /\ poller.pc = "prepared"
    /\ \/ RunsCurrent /\ Polled(Unmoved)
       \/ ~RunsCurrent /\ UNCHANGED <<work, waits, signal>>
    /\ poller' = IdlePoll
    /\ UNCHANGED <<clock, generation, events, runs, asked, matcher>>

-----------------------------------------------------------------------------
(* Owned runs *)

RunMoves(r, s) ==
    /\ \/ runs[r] = "running" /\ s \in Reported
       \/ runs[r] = "uncertain" /\ s = "completed"
    /\ runs' = [runs EXCEPT ![r] = s]
    /\ UNCHANGED <<clock, generation, events, asked, work, waits, signal, matcher, poller>>

Sleepy(w) == work[w].state \in Over \cup {"absent", "suspended", "waiting_user"}

(* signal_external_action: the question interrupts a wait on its run, or    *)
(* wakes a Work that waits without any binding.                             *)
SignalExternalAction(w, r) ==
    IF Sleepy(w) THEN UNCHANGED <<work, waits, signal>>
    ELSE IF ActiveOf(w) # {}
      THEN Apply([b \in {x \in ActiveOf(w) : NamesRun(waits[x], r)} |->
                    Checked(b, Verdict("requires_action", waits[b].matched))])
    ELSE /\ work' = IF work[w].state = "waiting_external"
                      THEN [work EXCEPT ![w].state = "queued"] ELSE work
         /\ UNCHANGED <<waits, signal>>

Asks(r) ==
    LET w == Owner[r] IN
    /\ runs[r] = "running" /\ asked[r] = "no"
    /\ work[w].state \notin Over \cup {"absent"} /\ work[w].gen = generation
    /\ asked' = [asked EXCEPT ![r] = "pending"]
    /\ SignalExternalAction(w, r)
    /\ UNCHANGED <<clock, generation, events, runs, matcher, poller>>

-----------------------------------------------------------------------------
(* The Work around its waits; WorkLifecycle has the details *)

Enters(w, s, n) == work' = [work EXCEPT ![w].state = s, ![w].wait = n]

Open(w) ==
    /\ work[w].state = "absent"
    /\ work' = [work EXCEPT ![w] = [state |-> "running", gen |-> generation, wait |-> 0]]
    /\ UNCHANGED <<clock, generation, events, runs, asked, waits, signal, matcher, poller>>

Activate(w) ==
    /\ work[w].state = "queued" /\ work[w].gen = generation
    /\ Enters(w, "running", work[w].wait)
    /\ UNCHANGED <<clock, generation, events, runs, asked, waits, signal, matcher, poller>>

(* The activation takes in what the mailbox holds; a new decision follows.  *)
Drain(w) ==
    LET mine == {b \in Used : waits[b].work = w /\ signal[b] = "pending"}
        questions == {r \in Runs : Owner[r] = w /\ asked[r] = "pending"}
    IN  /\ Holds(w) /\ (mine # {} \/ questions # {})
        /\ signal' = [b \in Wait |-> IF b \in mine THEN "consumed" ELSE signal[b]]
        /\ asked' = [r \in Runs |-> IF r \in questions THEN "consumed" ELSE asked[r]]
        /\ Enters(w, "running", 0)
        /\ UNCHANGED <<clock, generation, events, runs, waits, matcher, poller>>

(* commit_state of an accepted wait. *)
Settle(w) ==
    LET n == work[w].wait IN
    /\ Holds(w) /\ n # 0
    /\ \/ waits[n].status = "active" /\ Enters(w, "waiting_external", n)
       \/ waits[n].status # "active" /\ signal[n] = "pending" /\ Enters(w, "queued", 0)
       \/ waits[n].status # "active" /\ signal[n] # "pending" /\ Enters(w, "waiting_external", 0)
    /\ UNCHANGED <<clock, generation, events, runs, asked, waits, signal, matcher, poller>>

(* Asking the user, or being paused by the operator, leaves the wait bound. *)
Rest(w, s) ==
    /\ Holds(w) /\ s \in {"waiting_user", "suspended"}
    /\ Enters(w, s, 0)
    /\ UNCHANGED <<clock, generation, events, runs, asked, waits, signal, matcher, poller>>

(* The operator's resume starts over: it cancels the active wait.           *)
Resume(w) ==
    /\ work[w].state = "suspended" /\ work[w].gen = generation
    /\ Enters(w, "queued", 0)
    /\ waits' = Superseded(w)
    /\ UNCHANGED <<clock, generation, events, runs, asked, signal, matcher, poller>>

Finish(w) ==
    /\ Holds(w)
    /\ Enters(w, "completed", 0)
    /\ waits' = Superseded(w)
    /\ UNCHANGED <<clock, generation, events, runs, asked, signal, matcher, poller>>

(* cancel_in_session: the generation ends with its Works and their inputs;  *)
(* bindings are left for the poller to invalidate.                          *)
HardBoundary ==
    /\ generation <= MaxBoundaries
    /\ generation' = generation + 1
    /\ work' = [w \in Works |-> IF work[w].state \in Over \cup {"absent"} THEN work[w]
                                ELSE [work[w] EXCEPT !.state = "cancelled", !.wait = 0]]
    /\ signal' = [b \in Wait |-> IF signal[b] = "pending" THEN "cancelled" ELSE signal[b]]
    /\ asked' = [r \in Runs |-> IF asked[r] = "pending" THEN "consumed" ELSE asked[r]]
    /\ UNCHANGED <<clock, events, runs, waits, matcher, poller>>

Tick ==
    /\ clock < MaxTime
    /\ clock' = clock + 1
    /\ UNCHANGED <<generation, events, runs, asked, work, waits, signal, matcher, poller>>

-----------------------------------------------------------------------------
Init ==
    /\ clock = 0 /\ generation = 1 /\ events = <<>>
    /\ runs = [r \in Runs |-> "running"]
    /\ asked = [r \in Runs |-> "no"]
    /\ work = [w \in Works |-> [state |-> "absent", gen |-> 0, wait |-> 0]]
    /\ waits = [b \in Wait |-> NoWait]
    /\ signal = [b \in Wait |-> "none"]
    /\ matcher = [e \in Event |-> [pc |-> "idle", rows |-> <<>>]]
    /\ poller = IdlePoll

Owners ==
    \E w \in Works :
        \/ Open(w) \/ Activate(w) \/ Drain(w) \/ Settle(w) \/ Resume(w) \/ Finish(w) \/ Cancel(w)
        \/ \E q \in Requests : Register(w, q)
        \/ \E s \in {"waiting_user", "suspended"} : Rest(w, s)

World ==
    \/ \E ok \in Eligible : Message(ok) \/ \E p \in Plugins : Publish(p, ok)
    \/ \E r \in Runs : Asks(r) \/ \E s \in Reported : RunMoves(r, s)
    \/ HardBoundary \/ Tick

Matchers == \E id \in Event : MatchRead(id) \/ MatchWrite(id)
Poller == PollRead \/ PollWrite

Next == Owners \/ World \/ Matchers \/ Poller

Spec == Init /\ [][Next]_vars

(* The wait loop of the scheduler polls every two seconds and survives any  *)
(* error; nothing else has to happen.                                       *)
Fairness == WF_vars(PollRead) /\ WF_vars(PollWrite)

FairSpec == Spec /\ Fairness

-----------------------------------------------------------------------------
(* Properties *)

(* Every variable keeps its type, and a Work has at most one active wait.   *)
TypeOK ==
    /\ clock \in 0 .. MaxTime /\ generation \in 1 .. MaxBoundaries + 1
    /\ Len(events) <= MaxEvents
    /\ runs \in [Runs -> Statuses]
    /\ asked \in [Runs -> {"no", "pending", "consumed"}]
    /\ \A w \in Works : /\ work[w].state \in Over \cup {"absent", "queued", "running", "suspended",
                                                      "waiting_user", "waiting_external"}
                        /\ work[w].wait \in 0 .. MaxWaits
                        /\ Cardinality(ActiveOf(w)) <= 1
    /\ \A b \in Used : waits[b].status \in {"active", "delivered", "expired", "invalidated", "cancelled"}
                       /\ waits[b].work \in Works /\ Len(waits[b].matched) = Len(waits[b].conds)
                       /\ \A i \in DOMAIN waits[b].matched : waits[b].matched[i] \in Proofs
    /\ signal \in [Wait -> {"none", "pending", "consumed", "cancelled"}]
    /\ \A e \in Event : matcher[e].pc \in {"idle", "prepared", "done"}
    /\ poller.pc \in {"idle", "prepared"}

Handled(id) == events[id].kind = "plugin_event" \/ matcher[id].pc = "done"

(* No event is lost: once an eligible event after a wait's watermark has    *)
(* been handled, every condition of an active wait that it fits has been    *)
(* matched, by it or by another event.                                      *)
MatchComplete ==
    \A b \in Active, id \in DOMAIN events :
        (Handled(id) /\ events[id].eligible /\ id > waits[b].after /\ waits[b].gen = generation)
            => \A i \in DOMAIN waits[b].conds :
                 Fits(waits[b].conds[i], events[id])
                    => waits[b].matched[i].kind = events[id].kind

(* An active wait is never one that its own    *)
(* evidence already satisfies: whoever completes it also delivers it.       *)
SatisfiedIsDelivered ==
    \A b \in Active : ~Done(waits[b].mode, waits[b].matched)

(* A delivered signal of the wait a Work rests on has woken it: a Work is   *)
(* never left waiting beside the pending signal of its accepted wait.       *)
SignalWakes ==
    \A w \in Works : work[w].wait # 0 /\ work[w].state = "waiting_external"
        => signal[work[w].wait] # "pending"

(* Evidence a step adds is true when it is written: the time has come, the  *)
(* event is an eligible one after the watermark, and the run has exactly    *)
(* the status that the Work will be told.  Evidence is never taken back.    *)
Truthful(b, i, p) ==
    LET c == waits[b].conds[i] IN
    CASE p.kind = "time_due"  -> c.kind = "time_due" /\ c.arg <= clock
      [] p.kind = "owned_run" -> c.kind = "owned_run" /\ runs[c.arg] = p.status
      [] OTHER -> /\ p.event > waits[b].after /\ p.event \in DOMAIN events'
                  /\ events'[p.event].eligible /\ Fits(c, events'[p.event])

Evidence ==
    \A b \in Used : \A i \in DOMAIN waits[b].matched :
        waits'[b].matched[i] # waits[b].matched[i]
            => waits[b].matched[i] = Unmatched /\ Truthful(b, i, waits'[b].matched[i])
EvidenceTrue == [][Evidence]_vars

(* A wait that was resolved stays resolved and keeps its evidence, and a    *)
(* signal is put into the mailbox exactly when the wait is resolved by one: *)
(* no second wake-up, none for a wait that was cancelled in between.        *)
Resolution ==
    \A b \in Used :
        /\ waits[b].status # "active" => waits'[b] = waits[b]
        /\ signal'[b] = "pending" /\ signal[b] # "pending"
             => waits[b].status = "active" /\ waits'[b].status \in {"delivered", "expired"}
ResolvedOnce == [][Resolution]_vars

(* A wait expires only after its deadline and only when its conditions did  *)
(* not hold: a condition that is met at the deadline is reported as met.    *)
ExpiredIsUnmet ==
    \A b \in Used : waits[b].status = "expired"
        => Expired(b) /\ ~Done(waits[b].mode, waits[b].matched)
           /\ \A i \in DOMAIN waits[b].conds :
                (waits[b].mode = "any" /\ waits[b].conds[i].kind = "time_due")
                    => waits[b].conds[i].arg > waits[b].deadline

(* Due work is found: a wait past its deadline, or one whose time has come, *)
(* or whose Work is gone, is eventually resolved by the poller.             *)
Overdue(b) ==
    /\ b \in Active
    /\ \/ Expired(b) \/ Gone(b)
       \/ waits[b].mode = "any" /\ \E i \in DOMAIN waits[b].conds :
            waits[b].conds[i].kind = "time_due" /\ waits[b].conds[i].arg <= clock

DueResolved == \A b \in Wait : Overdue(b) ~> b \notin Active

=============================================================================
