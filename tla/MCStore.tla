------------------------------- MODULE MCStore --------------------------------
(***************************************************************************)
(* What a Work keeps in SQLite: the single writer (DatabaseWriter), the    *)
(* journal of the conversation with the model (WorkJournal) and the        *)
(* durable waits (WorkWait).  A behaviour of this specification is a       *)
(* behaviour of one instance, named by `instance`; the other components    *)
(* stay in their initial states.                                           *)
(***************************************************************************)
EXTENDS DatabaseWriter, TLC

CONSTANTS
    Works, Runs, Owner, Requests, Granted, Plugins, Eligible,   \* the waits of Works
    PollSize, MaxWaits, MaxEvents, MaxTime, MaxBoundaries,
    Messages, Signals, MaxCalls, MaxReplies, MaxContracts, MaxFaults   \* a Work's journal

VARIABLES instance,
          clock, generation, events, runs, asked, work, waits, signal, matcher, poller,
          inbox, journal, requests, begun, contract, decided, answered, replies, pc, mem,
          faults

waiting    == <<clock, generation, events, runs, asked, work, waits, signal, matcher,
                poller>>
journaling == <<inbox, journal, requests, begun, contract, decided, answered, replies, pc,
                mem, faults>>
all == <<instance, vars, waiting, journaling>>

-------------------------------------------------------------------------------
Waits == INSTANCE WorkWait
Journal == INSTANCE WorkJournal

ASSUME StoreAssumption ==
    /\ CloserAssumption /\ LimitAssumption /\ NoneAssumption
    /\ Waits!WaitAssumption /\ Journal!JournalAssumption

-------------------------------------------------------------------------------
\* The constants of the configuration.
Ask(m, cs, d) == [mode |-> m, conds |-> cs, deadline |-> d]
C(k, a) == [kind |-> k, arg |-> a]
Talk(p) == C("conversation", p)

\* Both a message and a plugin event; a message and a run.
OfEvents ==
    UNION {{Ask("all", <<Talk(p), C("plugin_event", p)>>, 0),
            Ask("all", <<Talk(p), C("owned_run", r)>>, 0)} : p \in Plugins, r \in Runs}

\* A run or a time; a message and a time by a deadline.
OfTime ==
    UNION {{Ask("any", <<C("owned_run", r), C("time_due", 1)>>, 1),
            Ask("all", <<Talk(p), C("time_due", 1)>>, 2)} : p \in Plugins, r \in Runs}

AllRequests == OfEvents \cup OfTime
OneOwner == [r \in Runs |-> CHOOSE x \in Works : TRUE]

-------------------------------------------------------------------------------
Instances == {"events", "suppressed", "deadlines", "writer", "long", "broken"}

\* The waits on events: two where every event counts, or one where messages may be
\* suppressed or outbound.  The waits on times: two, and changes of the generation.
OnEvents == clock' = 0 /\ generation' = 1 /\ \A b \in Waits!Used' : waits'[b].deadline = 0
OnTime   == events' = <<>> /\ \A b \in Waits!Used' : waits'[b].deadline # 0
OnlyEligible == \A id \in DOMAIN events' : events'[id].eligible
OneWait == Waits!Used' \subseteq {1}

Scoped ==
    \/ instance = "events" /\ OnEvents /\ OnlyEligible
    \/ instance = "suppressed" /\ OnEvents /\ OneWait
    \/ instance = "deadlines" /\ OnTime

\* A journal of three responses and a fault, or of two of each.
Long   == instance = "long" /\ faults' <= 1
Broken == instance = "broken" /\ replies' <= 2

InitAll == instance \in Instances /\ Init /\ Waits!Init /\ Journal!Init

NextAll ==
    \/ /\ instance = "writer" /\ Next
       /\ UNCHANGED <<instance, waiting, journaling>>
    \/ /\ UNCHANGED <<instance, vars, journaling>>
       /\ instance \in {"events", "suppressed", "deadlines"} /\ Waits!Next /\ Scoped
    \/ /\ UNCHANGED <<instance, vars, waiting>>
       /\ instance \in {"long", "broken"} /\ Journal!Next /\ (Long \/ Broken)

SpecAll == InitAll /\ [][NextAll]_all

\* The writers are interchangeable.
Symmetry == Permutations(Writers)

-------------------------------------------------------------------------------
\* WorkJournal: a request tells every message given out and every call dispatched, and
\* under one contract no provider answers two requests that tell it the same.
JournalTellsAll ==
    instance \in {"long", "broken"} =>
        Journal!TypeOK /\ Journal!RequestTellsAll /\ Journal!PaidOnce

\* WorkWait: an eligible event after a wait's watermark that was handled has matched each
\* condition it fits; a wait that is satisfied is delivered, and its signal wakes the Work
\* that rests on it; a wait expires only past its deadline and unmet.
WaitsMatch ==
    instance \in {"events", "suppressed", "deadlines"} =>
        /\ Waits!TypeOK /\ Waits!MatchComplete
        /\ Waits!SatisfiedIsDelivered /\ Waits!SignalWakes /\ Waits!ExpiredIsUnmet

\* WorkWait: evidence is true when it is written, although it was computed in an earlier
\* session, and is never taken back; a resolved wait stays as it is, and a signal is put
\* into the mailbox exactly when a wait is resolved by one.
WaitsResolveOnce ==
    [][(instance \in {"events", "suppressed", "deadlines"})
           => Waits!Evidence /\ Waits!Resolution]_all
===============================================================================
