---------------------------- MODULE WorkScheduler ----------------------------
(***************************************************************************)
(* runtime/work_scheduler.py: the loop that selects persisted root Work    *)
(* and resumes at most one Work per conversation scope and at most         *)
(* MaxInFlight scopes at a time, walking the scopes round robin from a     *)
(* cursor kept in memory. Selection reads the database in two awaited      *)
(* queries (the scopes after the cursor, then the ones up to it) while     *)
(* activations, chat turns that hold a scope's lease and backoffs go on.   *)
(*                                                                         *)
(* A scope is what its head Work makes it: ready (a queued or running root *)
(* Work whose backoff is over), backoff, or idle. Scopes are ordered by    *)
(* their conversation id; 0 stands for "no cursor yet".                    *)
(***************************************************************************)
EXTENDS Naturals, FiniteSets, FiniteSetsExt

CONSTANTS Scopes,        \* conversation ids, positive numbers
          MaxInFlight    \* _MAX_IN_FLIGHT, eight in the code

ScopesAssumption == Scopes \subseteq Nat \ {0} /\ IsFiniteSet(Scopes)
LimitAssumption == MaxInFlight \in Nat \ {0}

VARIABLES
  head,       \* [Scopes -> what the scope's Works offer the scheduler]
  lease,      \* [Scopes -> who holds the scope's lease: free, a run, or a chat turn]
  tasks,      \* [Scopes -> live tasks of _run_scope for it]
  inFlight,   \* keys of _in_flight
  cursor,     \* _selection_cursor
  pc,         \* the selection loop: sleep, first, second, start, stopped
  capacity,   \* local: room found before the queries
  rows,       \* local: <<rows after the cursor, rows up to it>>
  accepting,  \* _accepting
  closing     \* close(): no, joining (the worker), draining (the tasks), closed

vars == <<head, lease, tasks, inFlight, cursor, pc, capacity, rows, accepting, closing>>

selection == <<cursor, pc, capacity, rows>>

TypeOK ==
  /\ head \in [Scopes -> {"ready", "backoff", "idle"}]
  /\ lease \in [Scopes -> {"free", "run", "chat"}]
  /\ tasks \in [Scopes -> Nat]
  /\ inFlight \in SUBSET Scopes
  /\ cursor \in Scopes \cup {0}
  /\ pc \in {"sleep", "first", "second", "start", "stopped"}
  /\ capacity \in 0..MaxInFlight
  /\ rows \in (SUBSET Scopes) \X (SUBSET Scopes)
  /\ accepting \in BOOLEAN
  /\ closing \in {"no", "joining", "draining", "closed"}

Init ==
  /\ head \in [Scopes -> {"ready", "idle"}]
  /\ lease = [c \in Scopes |-> "free"]
  /\ tasks = [c \in Scopes |-> 0]
  /\ inFlight = {}
  /\ cursor = 0
  /\ pc = "sleep"
  /\ capacity = 0
  /\ rows = <<{}, {}>>
  /\ accepting = TRUE
  /\ closing = "no"

-----------------------------------------------------------------------------
(* What the database says of a scope changes outside the scheduler.        *)

\* Accepted, woken, settled or failed Work; a backoff that is over.
HeadChanges(c) ==
  /\ head' \in {[head EXCEPT ![c] = h] : h \in {"ready", "backoff", "idle"} \ {head[c]}}
  /\ UNCHANGED <<lease, tasks, inFlight, selection, accepting, closing>>

\* A chat turn activates the scope on its own and leaves again.
ChatLeases(c) ==
  /\ lease[c] = "free"
  /\ lease' = [lease EXCEPT ![c] = "chat"]
  /\ UNCHANGED <<head, tasks, inFlight, selection, accepting, closing>>

ChatReleases(c) ==
  /\ lease[c] = "chat"
  /\ lease' = [lease EXCEPT ![c] = "free"]
  /\ UNCHANGED <<head, tasks, inFlight, selection, accepting, closing>>

-----------------------------------------------------------------------------
(* dispatch_once.                                                          *)

\* The n smallest of a set: ORDER BY the scope, LIMIT n.
Smallest(S, n) == {x \in S : Cardinality({y \in S : y < x}) < n}

\* Scopes whose head a query returns: ready, with nobody's lease, and no task of ours.
Candidates == {c \in Scopes : head[c] = "ready" /\ lease[c] = "free" /\ c \notin inFlight}

Room == MaxInFlight - Cardinality(inFlight)

\* Mutant: the scan restarts at the lowest scope every time.
SelectFromLowest ==
  /\ pc = "first"
  /\ rows' = <<Smallest(Candidates, capacity), {}>>
  /\ pc' = "start"
  /\ UNCHANGED <<head, lease, tasks, inFlight, cursor, capacity, accepting, closing>>

\* The room is taken before the queries; nothing else adds a task meanwhile. Without room
\* or when the scheduler no longer accepts, the scan ends here.
Maintain ==
  /\ pc = "sleep"
  /\ capacity' = Room
  /\ pc' = IF accepting /\ Room > 0 THEN "first" ELSE "sleep"
  /\ rows' = <<{}, {}>>
  /\ UNCHANGED <<head, lease, tasks, inFlight, cursor, accepting, closing>>

SelectAfter ==
  /\ pc = "first"
  /\ LET found == Smallest({c \in Candidates : c > cursor}, capacity) IN
       /\ rows' = <<found, {}>>
       /\ pc' = IF cursor = 0 \/ Cardinality(found) = capacity THEN "start" ELSE "second"
  /\ UNCHANGED <<head, lease, tasks, inFlight, cursor, capacity, accepting, closing>>

SelectWrapped ==
  /\ pc = "second"
  /\ rows' = [rows EXCEPT ![2] =
       Smallest({c \in Candidates : c <= cursor}, capacity - Cardinality(rows[1]))]
  /\ pc' = "start"
  /\ UNCHANGED <<head, lease, tasks, inFlight, cursor, capacity, accepting, closing>>

\* The scope of the last row: rows after the cursor come first.
LastRow == IF rows[2] # {} THEN Max(rows[2]) ELSE Max(rows[1])

Selected == rows[1] \cup rows[2]

\* No await between the end of the session and the last task: all tasks or none.
StartRuns ==
  /\ pc = "start"
  /\ cursor' = IF Selected = {} THEN cursor ELSE LastRow
  /\ tasks' = [c \in Scopes |-> IF c \in Selected THEN tasks[c] + 1 ELSE tasks[c]]
  /\ inFlight' = inFlight \cup Selected
  /\ pc' = "sleep"
  /\ capacity' = 0
  /\ rows' = <<{}, {}>>
  /\ UNCHANGED <<head, lease, accepting, closing>>

\* A repair, a query or the close of the session raises: the loop logs it and sleeps. The
\* cursor may already have moved past rows that then start nothing.
ScanFails ==
  /\ pc \in {"first", "second", "start"}
  /\ cursor' = IF pc = "start" /\ Selected # {} THEN LastRow ELSE cursor
  /\ pc' = "sleep"
  /\ capacity' = 0
  /\ rows' = <<{}, {}>>
  /\ UNCHANGED <<head, lease, tasks, inFlight, accepting, closing>>

-----------------------------------------------------------------------------
(* _run_scope.                                                             *)

RunAcquires(c) ==
  /\ tasks[c] > 0 /\ lease[c] = "free"
  /\ lease' = [lease EXCEPT ![c] = "run"]
  /\ UNCHANGED <<head, tasks, inFlight, selection, accepting, closing>>

\* The resume returns or raises: the Work settled, yielded, backed off or was left as it is,
\* when a chat turn holds the scope. The finally clause removes the entry.
RunEnds(c) ==
  /\ tasks[c] > 0 /\ lease[c] \in {"run", "chat"}
  /\ head' \in IF lease[c] = "run"
                 THEN {[head EXCEPT ![c] = h] : h \in {"ready", "backoff", "idle"}} ELSE {head}
  /\ lease' = [lease EXCEPT ![c] = IF @ = "run" THEN "free" ELSE @]
  /\ tasks' = [tasks EXCEPT ![c] = @ - 1]
  /\ inFlight' = inFlight \ {c}
  /\ UNCHANGED <<selection, accepting, closing>>

-----------------------------------------------------------------------------
(* close: stop the loop first, then the tasks it has started.              *)

CloseBegin ==
  /\ closing = "no"
  /\ closing' = "joining"
  /\ accepting' = FALSE
  /\ UNCHANGED <<head, lease, tasks, inFlight, selection>>

\* Mutant: the tasks are collected while the loop still runs.
CloseWithoutJoin ==
  /\ closing = "joining"
  /\ closing' = "draining"
  /\ UNCHANGED <<head, lease, tasks, inFlight, selection, accepting>>

\* The cancelled loop unwinds from whatever it awaits; tasks of a scan in progress are not
\* created.
CloseJoins ==
  /\ closing = "joining"
  /\ pc' = "stopped"
  /\ capacity' = 0
  /\ rows' = <<{}, {}>>
  /\ closing' = "draining"
  /\ UNCHANGED <<head, lease, tasks, inFlight, cursor, accepting>>

\* Every task in the dictionary is cancelled and awaited; its lease is released.
CloseDrains ==
  /\ closing = "draining"
  /\ tasks' = [c \in Scopes |-> IF c \in inFlight THEN 0 ELSE tasks[c]]
  /\ lease' = [c \in Scopes |-> IF c \in inFlight /\ lease[c] = "run" THEN "free" ELSE lease[c]]
  /\ inFlight' = {}
  /\ closing' = "closed"
  /\ UNCHANGED <<head, selection, accepting>>

\* start() once more in the same process: the cursor is kept.
Start ==
  /\ closing = "closed"
  /\ closing' = "no"
  /\ accepting' = TRUE
  /\ pc' = "sleep"
  /\ UNCHANGED <<head, lease, tasks, inFlight, cursor, capacity, rows>>

-----------------------------------------------------------------------------
Scan == Maintain \/ SelectAfter \/ SelectWrapped \/ StartRuns

Next ==
  \/ Scan \/ ScanFails
  \/ \E c \in Scopes : \/ HeadChanges(c) \/ ChatLeases(c) \/ ChatReleases(c)
                       \/ RunAcquires(c) \/ RunEnds(c)
  \/ CloseBegin \/ CloseJoins \/ CloseDrains \/ Start

Spec == Init /\ [][Next]_vars

\* The loop runs every two seconds; errors of the database are transient; every activation
\* ends (the turn loop bounds a segment and the lease bounds a turn).
Fairness ==
  /\ WF_vars(Scan)
  /\ <>[][~ScanFails]_vars
  /\ \A c \in Scopes : WF_vars(RunAcquires(c) \/ RunEnds(c))

FairSpec == Spec /\ Fairness

-----------------------------------------------------------------------------
(* Properties.                                                             *)

\* A scope never has two tasks: _in_flight names exactly the scopes with a live task, although
\* a scan reads the database and the dictionary at different times than it starts tasks.
OneTaskPerScope == \A c \in Scopes : tasks[c] = (IF c \in inFlight THEN 1 ELSE 0)

\* Never more than MaxInFlight activations, the wrapped half of a scan included.
BoundedInFlight == Cardinality(inFlight) <= MaxInFlight

\* After close() has returned no task of the scheduler is alive, and none appears until it
\* is started again: a scan interrupted between its reads starts nothing.
ClosedIsQuiet == closing = "closed" => \A c \in Scopes : tasks[c] = 0

\* Each scope is resumed by one task of a bounded number, and by none after close().
ScopesRunOnce == TypeOK /\ OneTaskPerScope /\ BoundedInFlight /\ ClosedIsQuiet

Runnable(c) == head[c] = "ready" /\ lease[c] # "chat" /\ closing = "no"

\* No starvation: a scope that stays ready is resumed again and again, however many other
\* scopes are always ready and however often they take all the room.
NoStarvation == \A c \in Scopes : <>[]Runnable(c) => []<>(c \in inFlight)
=============================================================================
