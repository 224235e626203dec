----------------------------- MODULE FencedLease -----------------------------
(***************************************************************************)
(* What a conversation scope promises its activations, without clocks,     *)
(* rows or transactions: at any time at most one activation holds the      *)
(* scope, an activation that lost the scope never gets it back, and only   *)
(* the holder changes the durable data of the conversation.                *)
(*                                                                         *)
(* WorkLease.tla is the detailed specification; its refinement mapping     *)
(* shows that the scope row, the writer lock and SQL-time expiry keep this *)
(* promise.                                                                *)
(***************************************************************************)
CONSTANTS Activation, NoOwner

VARIABLES
    holder,     \* the activation that holds the scope, or NoOwner
    retired,    \* activations that held the scope and lost it
    data        \* the activation whose durable write is the latest one

vars == <<holder, retired, data>>

Init ==
    /\ holder = NoOwner
    /\ retired = {}
    /\ data = NoOwner

Retire == retired' = retired \cup ({holder} \ {NoOwner})

Grant(a) ==
    /\ a # holder
    /\ a \notin retired
    /\ holder' = a
    /\ Retire
    /\ UNCHANGED data

Revoke ==
    /\ holder # NoOwner
    /\ holder' = NoOwner
    /\ Retire
    /\ UNCHANGED data

Write(a) ==
    /\ holder = a
    /\ data' = a
    /\ UNCHANGED <<holder, retired>>

Next == \/ Revoke
        \/ \E a \in Activation : Grant(a) \/ Write(a)

Spec == Init /\ [][Next]_vars
=============================================================================
