------------------------------ MODULE MCWorkLive ------------------------------
(***************************************************************************)
(* Who goes on with a Work: the scheduler that resumes its scope           *)
(* (WorkScheduler), the activation that serves its input (WorkLifecycle)   *)
(* and the poller that resolves its waits (WorkWait).  A behaviour of this *)
(* specification is a fair behaviour of one instance, named by `instance`; *)
(* the other components stay in their initial states.                      *)
(***************************************************************************)
EXTENDS WorkScheduler

CONSTANTS w1, w2, p1

VARIABLES instance,
          work, accepted, inbox, last, handed, waits, run, ingress, place, mine, fresh,
          ending, pend, target, faults,
          clock, generation, events, runs, asked, works, bindings, signal, matcher, poller

living  == <<work, accepted, inbox, last, handed, waits, run, ingress, place, mine, fresh,
             ending, pend, target, faults>>
waiting == <<clock, generation, events, runs, asked, works, bindings, signal, matcher,
             poller>>
all == <<instance, vars, living, waiting>>

-------------------------------------------------------------------------------
\* The constants of the configuration: three scopes that compete for one activation.

\* Two messages and a fault.
Life == INSTANCE WorkLifecycle
    WITH MaxInputs <- 2, MaxWaits <- 0, MaxRuns <- 0, MaxFaults <- 1, pc <- place

\* A wait that its time satisfies and one that expires; a poll takes one of them.
C(k, a) == [kind |-> k, arg |-> a]
Ask(m, cs, d) == [mode |-> m, conds |-> cs, deadline |-> d]
Bindings == INSTANCE WorkWait
    WITH Works <- {w1, w2}, Runs <- {}, Owner <- [r \in {} |-> w1],
         Requests <- {Ask("any", <<C("conversation", p1), C("time_due", 1)>>, 0),
                      Ask("all", <<C("conversation", p1), C("time_due", 0)>>, 1)},
         Plugins <- {p1}, Granted <- {p1}, Eligible <- {TRUE}, PollSize <- 1,
         MaxWaits <- 2, MaxEvents <- 0, MaxTime <- 1, MaxBoundaries <- 0,
         work <- works, waits <- bindings

ASSUME /\ ScopesAssumption /\ LimitAssumption
       /\ Life!LifecycleAssumption /\ Bindings!WaitAssumption

-------------------------------------------------------------------------------
InitAll ==
    /\ instance \in {"scheduler", "life", "waits"}
    /\ Init /\ (instance # "scheduler" => head = [c \in Scopes |-> "idle"])
    /\ Life!Init /\ Bindings!Init

\* The Works are interchangeable, so the first wait may be the first Work's; the second is
\* of the other kind.
Paired ==
    /\ bindings'[1].status # "absent" => bindings'[1].work = w1
    /\ bindings'[2].status # "absent" => bindings'[2].mode # bindings'[1].mode

NextAll ==
    \/ instance = "scheduler" /\ Next          /\ UNCHANGED <<instance, living, waiting>>
    \/ instance = "life"      /\ Life!Next     /\ UNCHANGED <<instance, vars, waiting>>
    \/ instance = "waits"     /\ Bindings!Next /\ UNCHANGED <<instance, vars, living>>
                              /\ Paired

\* Each component under its own fairness.
FairAll ==
    \/ instance = "scheduler" /\ Fairness
    \/ instance = "life"      /\ Life!Fairness
    \/ instance = "waits"     /\ Bindings!Fairness

SpecAll == InitAll /\ [][NextAll]_all /\ FairAll

-------------------------------------------------------------------------------
\* WorkLifecycle: a prepared message is shown to the model, unless the Work is stopped or
\* suspended.
InputIsServed == instance = "life" => Life!InputServed

\* WorkScheduler: a scope that stays ready is resumed again and again, however many others
\* are ready.
ScopesAreServed == instance = "scheduler" => NoStarvation

\* WorkWait: the poller resolves every wait whose time or deadline has come, or whose Work is
\* gone.
DueResolved == instance = "waits" => Bindings!DueResolved
===============================================================================
