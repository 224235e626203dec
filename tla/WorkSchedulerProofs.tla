------------------------- MODULE WorkSchedulerProofs -------------------------
(***************************************************************************)
(* Proofs about WorkScheduler for any finite set of scopes and any limit:  *)
(* type correctness, OneTaskPerScope, BoundedInFlight and ClosedIsQuiet.   *)
(*                                                                         *)
(* The three depend on what a scan holds between its reads and its starts. *)
(* ScanInv says that the rows it holds are of scopes without a task, and   *)
(* that the room it found before the queries is still there: while a scan  *)
(* is under way other steps only remove entries from _in_flight.           *)
(***************************************************************************)
EXTENDS WorkScheduler, FiniteSetTheorems, WellFoundedInduction, TLAPS

Scanning == pc \in {"first", "second", "start"}

(* What a scan holds in its local variables. *)
ScanInv ==
  /\ pc = "first" => rows = <<{}, {}>>
  /\ pc \in {"second", "start"} => Selected \cap inFlight = {}
  /\ Scanning => Cardinality(inFlight) + capacity <= MaxInFlight
  /\ pc = "second" => rows[2] = {}
  /\ pc \in {"second", "start"} => Cardinality(Selected) <= capacity

(* close() joins the loop before it collects the tasks. *)
CloseInv ==
  /\ closing \in {"draining", "closed"} => pc = "stopped"
  /\ closing = "closed" => inFlight = {}

IInv == TypeOK /\ ScanInv /\ CloseInv /\ OneTaskPerScope /\ BoundedInFlight

-----------------------------------------------------------------------------
(* What a query returns.                                                   *)

(* A bounded query on a finite set of scopes returns at most its limit:    *)
(* the number of smaller candidates tells its rows apart.                  *)
LEMMA SmallestBounded ==
  ASSUME NEW S \in SUBSET Nat, IsFiniteSet(S), NEW n \in Nat
  PROVE  /\ Smallest(S, n) \subseteq S
         /\ IsFiniteSet(Smallest(S, n))
         /\ Cardinality(Smallest(S, n)) <= n
PROOF
  <1> DEFINE T == Smallest(S, n)
             below(x) == {y \in S : y < x}
             rank == [x \in T |-> Cardinality(below(x))]
  <1>1. T \subseteq S
    BY DEF Smallest
  <1>2. \A x \in S : IsFiniteSet(below(x)) /\ Cardinality(below(x)) \in Nat
    <2> TAKE x \in S
    <2>1. below(x) \in SUBSET S
      OBVIOUS
    <2> QED BY <2>1, FS_Subset, FS_CardinalityType
  <1>3. rank \in [T -> 0..(n - 1)]
    <2>1. ASSUME NEW x \in T  PROVE Cardinality(below(x)) \in 0..(n - 1)
      <3>1. Cardinality(below(x)) < n
        BY Zenon DEF Smallest
      <3>2. Cardinality(below(x)) \in Nat
        BY <1>1, <1>2
      <3> HIDE DEF below
      <3> QED BY <3>1, <3>2
    <2> HIDE DEF below, T
    <2> QED BY <2>1
  <1>4. ASSUME NEW x \in T, NEW y \in T, x < y  PROVE rank[x] < rank[y]
    <2>1. below(x) \cup {x} \in SUBSET below(y) /\ x \notin below(x)
      <3>1. x \in S /\ y \in S /\ x \in Nat /\ y \in Nat
        BY <1>1
      <3> HIDE DEF T, rank
      <3>2. \A z \in below(x) : z \in below(y)
        BY <1>4, <3>1
      <3>3. x \in below(y) /\ x \notin below(x)
        BY <1>4, <3>1
      <3> HIDE DEF below
      <3> QED BY <3>2, <3>3
    <2>2. Cardinality(below(x) \cup {x}) = Cardinality(below(x)) + 1
      BY <1>1, <1>2, <2>1, FS_AddElement
    <2>3. Cardinality(below(x) \cup {x}) <= Cardinality(below(y))
      BY <1>1, <1>2, <2>1, FS_Subset
    <2>4. Cardinality(below(x)) \in Nat /\ Cardinality(below(y)) \in Nat
      BY <1>1, <1>2
    <2> HIDE DEF below, T
    <2> QED BY <2>2, <2>3, <2>4
  <1>5. \A x, y \in T : rank[x] = rank[y] => x = y
    <2> SUFFICES ASSUME NEW x \in T, NEW y \in T, x # y  PROVE rank[x] # rank[y]
      OBVIOUS
    <2>1. x \in Nat /\ y \in Nat
      BY <1>1
    <2>2. rank[x] \in Int /\ rank[y] \in Int
      BY <1>3
    <2> HIDE DEF rank
    <2>3. CASE x < y
      BY <1>4, <2>2, <2>3
    <2>4. CASE y < x
      BY <1>4, <2>2, <2>4
    <2> QED BY <2>1, <2>3, <2>4
  <1>6. rank \in Injection(T, 0..(n - 1))
    <2> HIDE DEF rank
    <2> QED BY <1>3, <1>5 DEF Injection, IsInjective
  <1>7. IsFiniteSet(0..(n - 1)) /\ Cardinality(0..(n - 1)) = n
    BY FS_Interval
  <1>8. IsFiniteSet(T) /\ Cardinality(T) <= Cardinality(0..(n - 1))
    <2> HIDE DEF rank, T
    <2> QED BY <1>6, <1>7, FS_Injection
  <1> QED BY <1>1, <1>7, <1>8

(* The last row of a selection is one of its scopes: a finite set of       *)
(* conversation ids that is not empty has a greatest one, the one with the *)
(* fewest ids above it.                                                    *)
LEMMA MaxIsMember ==
  ASSUME NEW S \in SUBSET Nat, IsFiniteSet(S), S # {}
  PROVE  Max(S) \in S
PROOF
  <1> DEFINE above(x) == {y \in S : y > x}
             counts == {Cardinality(above(x)) : x \in S}
             less == OpToRel(<, Nat)
  <1>1. \A x \in S : IsFiniteSet(above(x)) /\ Cardinality(above(x)) \in Nat
    <2> TAKE x \in S
    <2>1. above(x) \in SUBSET S
      OBVIOUS
    <2> QED BY <2>1, FS_Subset, FS_CardinalityType
  <1>2. PICK k \in counts : \A j \in counts : <<j, k>> \notin less
    <2>1. counts \subseteq Nat /\ counts # {}
      <3> HIDE DEF above
      <3> QED BY <1>1
    <2> HIDE DEF counts, less
    <2>2. IsWellFoundedOn(less, Nat)
      BY NatLessThanWellFounded DEF less
    <2> QED BY <2>1, <2>2, WFMin
  <1>3. PICK x \in S : k = Cardinality(above(x))
    BY <1>2
  <1>4. \A y \in S : x >= y
    <2> SUFFICES ASSUME NEW y \in S, y > x  PROVE FALSE
      OBVIOUS
    <2>1. above(y) \in SUBSET above(x) /\ y \in above(x) /\ y \notin above(y)
      <3> HIDE DEF counts, less
      <3>1. x \in Nat /\ y \in Nat
        OBVIOUS
      <3>2. \A z \in above(y) : z \in above(x)
        BY <3>1
      <3>3. y \in above(x) /\ y \notin above(y)
        BY <3>1
      <3> HIDE DEF above
      <3> QED BY <3>2, <3>3
    <2>2. Cardinality(above(y)) <= Cardinality(above(x))
          /\ Cardinality(above(x)) # Cardinality(above(y))
      BY <1>1, <2>1, FS_Subset
    <2>3. Cardinality(above(y)) \in Nat /\ k \in Nat /\ Cardinality(above(y)) < k
      <3> HIDE DEF above
      <3> QED BY <1>1, <1>3, <2>2
    <2>4. <<Cardinality(above(y)), k>> \in less
      <3> HIDE DEF above
      <3> QED BY <2>3 DEF OpToRel
    <2> QED BY <1>2, <2>4
  <1> QED BY <1>4 DEF Max

-----------------------------------------------------------------------------
(* The sets of a state are finite.                                         *)
LEMMA FiniteParts ==
  ASSUME ScopesAssumption, NEW S \in SUBSET Scopes
  PROVE  S \in SUBSET Nat /\ IsFiniteSet(S) /\ Cardinality(S) \in Nat
PROOF BY FS_Subset, FS_CardinalityType DEF ScopesAssumption

(* _in_flight may lose an entry while a scan is under way: its room stays. *)
LEMMA RoomStays ==
  ASSUME ScopesAssumption, NEW S \in SUBSET Scopes, NEW T \in SUBSET S
  PROVE  /\ Cardinality(T) \in Nat /\ Cardinality(S) \in Nat
         /\ Cardinality(T) <= Cardinality(S)
PROOF
  <1>1. IsFiniteSet(S)
    BY FiniteParts
  <1> QED BY <1>1, FiniteParts, FS_Subset

(* No task, no row and the whole room: the scheduler starts in IInv.       *)
LEMMA InitIInv ==
  ASSUME ScopesAssumption, LimitAssumption
  PROVE  Init => IInv
PROOF
  <1> SUFFICES ASSUME Init  PROVE IInv
    OBVIOUS
  <1>1. TypeOK
    BY DEF Init, TypeOK, LimitAssumption
  <1>2. ScanInv /\ CloseInv /\ OneTaskPerScope
    BY DEF Init, ScanInv, Scanning, CloseInv, OneTaskPerScope
  <1>3. BoundedInFlight
    BY FS_EmptySet DEF Init, BoundedInFlight, LimitAssumption
  <1> QED BY <1>1, <1>2, <1>3 DEF IInv

-----------------------------------------------------------------------------
(* The steps, one group of actions at a time.                              *)

(* Steps of the database and of chat turns touch nothing of the scheduler. *)
LEMMA OutsideKeepsIInv ==
  ASSUME IInv, NEW c \in Scopes,
         HeadChanges(c) \/ ChatLeases(c) \/ ChatReleases(c) \/ RunAcquires(c)
  PROVE  IInv'
PROOF
  <1>1. UNCHANGED <<tasks, inFlight, selection, accepting, closing>>
    BY DEF HeadChanges, ChatLeases, ChatReleases, RunAcquires
  <1>2. TypeOK'
    BY <1>1 DEF IInv, TypeOK, HeadChanges, ChatLeases, ChatReleases, RunAcquires, selection
  <1>3. ScanInv' /\ CloseInv' /\ OneTaskPerScope' /\ BoundedInFlight'
    BY <1>1 DEF IInv, ScanInv, Scanning, Selected, CloseInv, OneTaskPerScope, BoundedInFlight,
                selection
  <1> QED BY <1>2, <1>3 DEF IInv

(* The room found before the queries.                                      *)
LEMMA MaintainKeepsIInv ==
  ASSUME ScopesAssumption, LimitAssumption, IInv, Maintain
  PROVE  IInv'
PROOF
  <1>1. Cardinality(inFlight) \in Nat
    BY FiniteParts DEF IInv, TypeOK
  <1>2. capacity' \in 0..MaxInFlight /\ Cardinality(inFlight) + capacity' <= MaxInFlight
    BY <1>1 DEF IInv, BoundedInFlight, Maintain, Room, LimitAssumption
  <1>3. TypeOK'
    BY <1>2 DEF IInv, TypeOK, Maintain
  <1>4. ScanInv'
    BY <1>2 DEF Maintain, ScanInv, Scanning
  <1>5. CloseInv' /\ OneTaskPerScope' /\ BoundedInFlight'
    BY DEF IInv, CloseInv, OneTaskPerScope, BoundedInFlight, Maintain
  <1> QED BY <1>3, <1>4, <1>5 DEF IInv

(* The query of the scopes after the cursor: rows without a task.          *)
LEMMA SelectAfterKeepsIInv ==
  ASSUME ScopesAssumption, LimitAssumption, IInv, SelectAfter
  PROVE  IInv'
PROOF
  <1> DEFINE source == {c \in Candidates : c > cursor}
             found == Smallest(source, capacity)
  <1>1. source \in SUBSET Scopes /\ source \cap inFlight = {}
    BY DEF Candidates
  <1>2. capacity \in Nat
    BY DEF IInv, TypeOK, LimitAssumption
  <1>3. found \subseteq source /\ Cardinality(found) <= capacity
    <2>1. source \in SUBSET Nat /\ IsFiniteSet(source)
      BY <1>1, FiniteParts
    <2> HIDE DEF source
    <2> QED BY <1>2, <2>1, SmallestBounded
  <1> HIDE DEF source, found
  <1>4. rows' = <<found, {}>> /\ pc' \in {"start", "second"}
    BY DEF SelectAfter, source, found
  <1>5. TypeOK'
    <2>1. rows' \in (SUBSET Scopes) \X (SUBSET Scopes)
      BY <1>1, <1>3, <1>4
    <2>2. UNCHANGED <<head, lease, tasks, inFlight, cursor, capacity, accepting, closing>>
      BY DEF SelectAfter
    <2> QED BY <1>4, <2>1, <2>2 DEF IInv, TypeOK
  <1>6. Selected' = found /\ rows'[2] = {}
    BY <1>4 DEF Selected
  <1>7. ScanInv'
    BY <1>1, <1>3, <1>4, <1>6 DEF IInv, ScanInv, Scanning, SelectAfter
  <1>8. CloseInv' /\ OneTaskPerScope' /\ BoundedInFlight'
    BY DEF IInv, CloseInv, OneTaskPerScope, BoundedInFlight, SelectAfter
  <1> QED BY <1>5, <1>7, <1>8 DEF IInv

(* The wrapped query asks for what the first has left of the room.         *)
LEMMA SelectWrappedKeepsIInv ==
  ASSUME ScopesAssumption, LimitAssumption, IInv, SelectWrapped
  PROVE  IInv'
PROOF
  <1> DEFINE source == {c \in Candidates : c <= cursor}
             rest == capacity - Cardinality(rows[1])
             found == Smallest(source, rest)
  <1>1. source \in SUBSET Scopes /\ source \cap inFlight = {}
    BY DEF Candidates
  <1>2. rows = <<rows[1], {}>> /\ rows[1] \in SUBSET Scopes /\ rows[1] \cap inFlight = {}
        /\ Cardinality(rows[1]) <= capacity
    BY DEF IInv, TypeOK, ScanInv, Selected, SelectWrapped
  <1>3. IsFiniteSet(rows[1]) /\ Cardinality(rows[1]) \in Nat
    BY <1>2, FiniteParts
  <1>4. capacity \in Nat /\ rest \in Nat
    BY <1>2, <1>3 DEF IInv, TypeOK, LimitAssumption
  <1>5. found \subseteq source /\ IsFiniteSet(found) /\ Cardinality(found) <= rest
    <2>1. source \in SUBSET Nat /\ IsFiniteSet(source)
      BY <1>1, FiniteParts
    <2> HIDE DEF source, rest
    <2> QED BY <1>4, <2>1, SmallestBounded
  <1>6. rows' = <<rows[1], found>> /\ pc' = "start"
    BY <1>2 DEF SelectWrapped
  <1>7. Selected' = rows[1] \cup found
    BY <1>6 DEF Selected
  <1>8. Cardinality(rows[1] \cup found) <= capacity
    <2>1. found \in SUBSET Scopes
      BY <1>1, <1>5
    <2>2. Cardinality(found) \in Nat /\ Cardinality(rows[1] \cap found) \in Nat
      BY <1>2, <2>1, FiniteParts
    <2>3. Cardinality(rows[1] \cup found)
            = Cardinality(rows[1]) + Cardinality(found) - Cardinality(rows[1] \cap found)
      <3> HIDE DEF found
      <3> QED BY <1>3, <1>5, FS_Union
    <2>4. Cardinality(found) <= capacity - Cardinality(rows[1])
      BY <1>5
    <2> HIDE DEF found, rest
    <2> QED BY <1>3, <1>4, <2>2, <2>3, <2>4
  <1> HIDE DEF source, rest, found
  <1>9. TypeOK'
    <2>1. rows' \in (SUBSET Scopes) \X (SUBSET Scopes)
      BY <1>1, <1>2, <1>5, <1>6
    <2>2. UNCHANGED <<head, lease, tasks, inFlight, cursor, capacity, accepting, closing>>
      BY DEF SelectWrapped
    <2> QED BY <1>6, <2>1, <2>2 DEF IInv, TypeOK
  <1>10. ScanInv'
    BY <1>1, <1>2, <1>5, <1>6, <1>7, <1>8 DEF IInv, ScanInv, Scanning, SelectWrapped
  <1>11. CloseInv' /\ OneTaskPerScope' /\ BoundedInFlight'
    BY DEF IInv, CloseInv, OneTaskPerScope, BoundedInFlight, SelectWrapped
  <1> QED BY <1>9, <1>10, <1>11 DEF IInv

(* What is selected is of conversation ids, so the cursor it leaves is one. *)
LEMMA LastRowIsScope ==
  ASSUME ScopesAssumption, TypeOK, Selected # {}
  PROVE  LastRow \in Scopes
PROOF
  <1>1. rows[1] \in SUBSET Scopes /\ rows[2] \in SUBSET Scopes
    BY DEF TypeOK
  <1>2. ASSUME NEW S \in SUBSET Scopes, S # {}  PROVE Max(S) \in Scopes
    BY <1>2, FiniteParts, MaxIsMember
  <1>3. CASE rows[2] # {}
    BY <1>1, <1>2, <1>3 DEF LastRow
  <1>4. CASE rows[2] = {}
    BY <1>1, <1>2, <1>4 DEF LastRow, Selected
  <1> QED BY <1>3, <1>4

(* The tasks of a scan are new, and there is room for all of them.         *)
LEMMA StartRunsKeepsIInv ==
  ASSUME ScopesAssumption, LimitAssumption, IInv, StartRuns
  PROVE  IInv'
PROOF
  <1>1. Selected \in SUBSET Scopes /\ inFlight \in SUBSET Scopes /\ Selected \cap inFlight = {}
        /\ pc = "start"
    BY DEF IInv, TypeOK, ScanInv, Selected, StartRuns
  <1>2. TypeOK'
    <2>1. cursor' \in Scopes \cup {0}
      BY LastRowIsScope DEF IInv, TypeOK, StartRuns
    <2>2. tasks' \in [Scopes -> Nat]
      BY DEF IInv, TypeOK, StartRuns
    <2>3. inFlight' \in SUBSET Scopes /\ pc' = "sleep" /\ capacity' = 0 /\ rows' = <<{}, {}>>
          /\ UNCHANGED <<head, lease, accepting, closing>>
      BY <1>1 DEF StartRuns
    <2>4. 0 \in 0..MaxInFlight
      BY DEF LimitAssumption
    <2> QED BY <2>1, <2>2, <2>3, <2>4 DEF IInv, TypeOK
  <1>3. OneTaskPerScope'
    BY <1>1 DEF IInv, TypeOK, OneTaskPerScope, StartRuns
  <1>4. BoundedInFlight'
    <2>1. IsFiniteSet(inFlight) /\ IsFiniteSet(Selected) /\ Cardinality({}) = 0
      BY <1>1, FiniteParts, FS_EmptySet
    <2>2. Cardinality(inFlight \cup Selected) = Cardinality(inFlight) + Cardinality(Selected)
      <3>1. Cardinality(inFlight) \in Nat /\ Cardinality(Selected) \in Nat
        BY <1>1, FiniteParts
      <3>2. Cardinality(inFlight \cup Selected)
              = Cardinality(inFlight) + Cardinality(Selected) - Cardinality(inFlight \cap Selected)
        BY <2>1, FS_Union
      <3>3. inFlight \cap Selected = {}
        BY <1>1
      <3>4. Cardinality(inFlight \cap Selected) = 0
        BY <2>1, <3>3
      <3> QED BY <3>1, <3>2, <3>4
    <2>3. Cardinality(inFlight) \in Nat /\ Cardinality(Selected) \in Nat /\ capacity \in Nat
      BY <1>1, FiniteParts DEF IInv, TypeOK, LimitAssumption
    <2>4. Cardinality(inFlight) + capacity <= MaxInFlight /\ Cardinality(Selected) <= capacity
      BY <1>1 DEF IInv, ScanInv, Scanning
    <2>5. inFlight' = inFlight \cup Selected
      BY DEF StartRuns
    <2> QED BY <2>2, <2>3, <2>4, <2>5 DEF BoundedInFlight, LimitAssumption
  <1>5. ScanInv'
    BY DEF StartRuns, ScanInv, Scanning
  <1>6. CloseInv'
    BY <1>1 DEF IInv, CloseInv, StartRuns
  <1> QED BY <1>2, <1>3, <1>4, <1>5, <1>6 DEF IInv

(* A scan that fails keeps nothing but the cursor.                         *)
LEMMA ScanFailsKeepsIInv ==
  ASSUME ScopesAssumption, LimitAssumption, IInv, ScanFails
  PROVE  IInv'
PROOF
  <1>1. cursor' \in Scopes \cup {0}
    BY LastRowIsScope DEF IInv, TypeOK, ScanFails
  <1>2. pc' = "sleep" /\ capacity' = 0 /\ rows' = <<{}, {}>> /\ 0 \in 0..MaxInFlight
        /\ UNCHANGED <<head, lease, tasks, inFlight, accepting, closing>>
    BY DEF ScanFails, LimitAssumption
  <1>3. TypeOK'
    BY <1>1, <1>2 DEF IInv, TypeOK
  <1>4. ScanInv' /\ OneTaskPerScope' /\ BoundedInFlight'
    BY <1>2 DEF IInv, ScanInv, Scanning, OneTaskPerScope, BoundedInFlight
  <1>5. CloseInv'
    BY <1>2 DEF IInv, CloseInv, ScanFails
  <1> QED BY <1>3, <1>4, <1>5 DEF IInv

(* An activation that ends takes its scope out of _in_flight.              *)
LEMMA RunEndsKeepsIInv ==
  ASSUME ScopesAssumption, LimitAssumption, IInv, NEW c \in Scopes, RunEnds(c)
  PROVE  IInv'
PROOF
  <1>1. inFlight \in SUBSET Scopes /\ inFlight' = inFlight \ {c} /\ tasks[c] \in Nat
    BY DEF IInv, TypeOK, RunEnds
  <1>2. tasks[c] = 1 /\ tasks' = [tasks EXCEPT ![c] = 0]
    <2>1. tasks[c] = 1
      BY <1>1 DEF IInv, OneTaskPerScope, RunEnds
    <2>2. tasks' = [tasks EXCEPT ![c] = tasks[c] - 1]
      BY DEF RunEnds
    <2> QED BY <2>1, <2>2
  <1>3. UNCHANGED <<cursor, pc, capacity, rows, accepting, closing>>
    BY DEF RunEnds, selection
  <1>4. TypeOK'
    <2>1. head' \in [Scopes -> {"ready", "backoff", "idle"}]
          /\ lease' \in [Scopes -> {"free", "run", "chat"}]
      BY DEF IInv, TypeOK, RunEnds
    <2> QED BY <1>1, <1>2, <1>3, <2>1 DEF IInv, TypeOK
  <1>5. OneTaskPerScope'
    BY <1>1, <1>2 DEF IInv, TypeOK, OneTaskPerScope
  <1>6. /\ Cardinality(inFlight') \in Nat /\ Cardinality(inFlight) \in Nat
        /\ Cardinality(inFlight') <= Cardinality(inFlight)
    BY <1>1, RoomStays
  <1>7. BoundedInFlight'
    BY <1>6 DEF IInv, BoundedInFlight, LimitAssumption
  <1>8. ScanInv'
    <2>1. Selected' = Selected /\ Scanning' = Scanning
      BY <1>3 DEF Selected, Scanning
    <2>2. capacity \in Nat /\ MaxInFlight \in Nat
      BY DEF IInv, TypeOK, LimitAssumption
    <2>3. Scanning => Cardinality(inFlight') + capacity <= MaxInFlight
      BY <1>6, <2>2 DEF IInv, ScanInv
    <2> QED BY <1>1, <1>3, <2>1, <2>3 DEF IInv, ScanInv
  <1>9. CloseInv'
    BY <1>1, <1>3 DEF IInv, CloseInv
  <1> QED BY <1>4, <1>5, <1>7, <1>8, <1>9 DEF IInv

(* Stopping joins the loop, then takes every task; starting finds none.    *)
LEMMA CloseKeepsIInv ==
  ASSUME ScopesAssumption, LimitAssumption, IInv,
         CloseBegin \/ CloseJoins \/ CloseDrains \/ Start
  PROVE  IInv'
PROOF
  <1>1. 0 \in 0..MaxInFlight /\ MaxInFlight \in Nat
    BY DEF LimitAssumption
  <1>2. CASE CloseBegin
    <2>1. TypeOK'
      BY <1>2 DEF IInv, TypeOK, CloseBegin, selection
    <2> QED BY <1>2, <2>1 DEF IInv, ScanInv, Scanning, Selected, CloseInv, OneTaskPerScope,
                              BoundedInFlight, CloseBegin, selection
  <1>3. CASE CloseJoins
    <2>1. TypeOK'
      BY <1>1, <1>3 DEF IInv, TypeOK, CloseJoins
    <2> QED BY <1>3, <2>1 DEF IInv, ScanInv, Scanning, CloseInv, OneTaskPerScope,
                              BoundedInFlight, CloseJoins
  <1>4. CASE CloseDrains
    <2>1. TypeOK'
      BY <1>4 DEF IInv, TypeOK, CloseDrains, selection
    <2>2. OneTaskPerScope'
      BY <1>4 DEF IInv, TypeOK, OneTaskPerScope, CloseDrains
    <2>3. BoundedInFlight'
      BY <1>1, <1>4, FS_EmptySet DEF BoundedInFlight, CloseDrains
    <2>4. pc' = "stopped" /\ inFlight' = {}
      BY <1>4 DEF IInv, CloseInv, CloseDrains, selection
    <2>5. ScanInv' /\ CloseInv'
      BY <2>4 DEF ScanInv, Scanning, CloseInv
    <2> QED BY <2>1, <2>2, <2>3, <2>5 DEF IInv
  <1>5. CASE Start
    <2>1. TypeOK'
      BY <1>5 DEF IInv, TypeOK, Start
    <2> QED BY <1>5, <2>1 DEF IInv, ScanInv, Scanning, CloseInv, OneTaskPerScope,
                              BoundedInFlight, Start
  <1> QED BY <1>2, <1>3, <1>4, <1>5

(* Every step of the scheduler and of what surrounds it keeps IInv.        *)
LEMMA NextKeepsIInv ==
  ASSUME ScopesAssumption, LimitAssumption
  PROVE  IInv /\ [Next]_vars => IInv'
PROOF
  <1> SUFFICES ASSUME IInv, [Next]_vars  PROVE IInv'
    OBVIOUS
  <1>1. CASE UNCHANGED vars
    BY <1>1 DEF IInv, TypeOK, ScanInv, Scanning, Selected, CloseInv, OneTaskPerScope,
                BoundedInFlight, vars
  <1>2. CASE Scan
    BY <1>2, MaintainKeepsIInv, SelectAfterKeepsIInv, SelectWrappedKeepsIInv, StartRunsKeepsIInv
       DEF Scan
  <1>3. CASE ScanFails
    BY <1>3, ScanFailsKeepsIInv
  <1>4. ASSUME NEW c \in Scopes,
               HeadChanges(c) \/ ChatLeases(c) \/ ChatReleases(c) \/ RunAcquires(c) \/ RunEnds(c)
        PROVE  IInv'
    BY <1>4, OutsideKeepsIInv, RunEndsKeepsIInv
  <1>5. CASE CloseBegin \/ CloseJoins \/ CloseDrains \/ Start
    BY <1>5, CloseKeepsIInv
  <1> QED BY <1>1, <1>2, <1>3, <1>4, <1>5 DEF Next

-----------------------------------------------------------------------------
(* The strengthened invariant holds in every reachable state.              *)
THEOREM SchedulerInvariant ==
  ASSUME ScopesAssumption, LimitAssumption
  PROVE  Spec => []IInv
PROOF
  <1>1. Init => IInv
    BY InitIInv
  <1>2. IInv /\ [Next]_vars => IInv'
    BY NextKeepsIInv
  <1> QED BY <1>1, <1>2, PTL DEF Spec

(* Every variable of the scheduler keeps its type; the cursor is one of    *)
(* the scopes (_selection_cursor).                                         *)
THEOREM TypeCorrect ==
  ASSUME ScopesAssumption, LimitAssumption
  PROVE  Spec => []TypeOK
PROOF
  <1>1. IInv => TypeOK
    BY DEF IInv
  <1> QED BY <1>1, SchedulerInvariant, PTL

(* No scope ever has two tasks: a scan reads _in_flight and the database   *)
(* at other times than it starts its tasks (dispatch_once).                *)
THEOREM OneTask ==
  ASSUME ScopesAssumption, LimitAssumption
  PROVE  Spec => []OneTaskPerScope
PROOF
  <1>1. IInv => OneTaskPerScope
    BY DEF IInv
  <1> QED BY <1>1, SchedulerInvariant, PTL

(* Never more than _MAX_IN_FLIGHT activations, whatever the two queries of *)
(* a scan return.                                                          *)
THEOREM Bounded ==
  ASSUME ScopesAssumption, LimitAssumption
  PROVE  Spec => []BoundedInFlight
PROOF
  <1>1. IInv => BoundedInFlight
    BY DEF IInv
  <1> QED BY <1>1, SchedulerInvariant, PTL

(* After close() no task lives until the scheduler is started again.       *)
THEOREM Quiet ==
  ASSUME ScopesAssumption, LimitAssumption
  PROVE  Spec => []ClosedIsQuiet
PROOF
  <1>1. IInv => ClosedIsQuiet
    BY DEF IInv, CloseInv, OneTaskPerScope, ClosedIsQuiet
  <1> QED BY <1>1, SchedulerInvariant, PTL

(* Each scope is resumed by at most one task, never more than              *)
(* _MAX_IN_FLIGHT, and none lives after close()                            *)
(* (WorkScheduler!ScopesRunOnce).                                          *)
THEOREM RunOnce ==
  ASSUME ScopesAssumption, LimitAssumption
  PROVE  Spec => []ScopesRunOnce
PROOF
  BY TypeCorrect, OneTask, Bounded, Quiet, PTL DEF ScopesRunOnce
=============================================================================
