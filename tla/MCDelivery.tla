------------------------------ MODULE MCDelivery ------------------------------
(***************************************************************************)
(* What leaves the process: messages to a platform (SocialSend) and        *)
(* operations delegated to a device (ExternalAgents).  The two share no    *)
(* state, and each is checked in several configurations: a behaviour of    *)
(* this specification is a behaviour of one instance, named by `instance`, *)
(* and the variables of the other component stay off.                      *)
(***************************************************************************)
EXTENDS ExternalAgents, TLC

CONSTANTS
    Callers, Activation,  \* executions of a call that may overlap; the one of a Work
    Artist,               \* the task that sends the illustration
    Short, Long,          \* text parts of a call
    MaxSends, MaxActivations, MaxTroubles, MaxInterruptions

VARIABLES instance,
          parent, op, delivery, ledger, sent, intent, woken, sender, allowed,
          recovered, calls, interruptions

sending == <<parent, op, delivery, ledger, sent, intent, woken, sender, allowed,
             recovered, calls, interruptions>>
all == <<instance, sending, vars>>

-------------------------------------------------------------------------------
\* Executions of a short call that go through a gateway, with an illustration.
Gateway == INSTANCE SocialSend
    WITH Caller <- Callers, Worker <- Artist, Parts <- Short, Local <- FALSE,
         Illustrated <- TRUE, Leased <- FALSE, MaxCalls <- MaxSends, MaxFaults <- MaxTroubles,
         run <- sender, up <- recovered, faults <- interruptions

\* A longer one through the local ledger, where the event is the message.
LocalSend == INSTANCE SocialSend
    WITH Caller <- Callers, Worker <- Artist, Parts <- Long, Local <- TRUE,
         Illustrated <- TRUE, Leased <- FALSE, MaxCalls <- MaxSends, MaxFaults <- MaxTroubles,
         run <- sender, up <- recovered, faults <- interruptions

\* The call of a Work, repeated by a later activation.
WorkSend == INSTANCE SocialSend
    WITH Caller <- {Activation}, Worker <- Artist, Parts <- Long, Local <- FALSE,
         Illustrated <- TRUE, Leased <- TRUE, MaxCalls <- MaxActivations,
         MaxFaults <- MaxInterruptions,
         run <- sender, up <- recovered, faults <- interruptions

ASSUME DeliveryAssumption ==
    /\ Gateway!SocialSendAssumption /\ LocalSend!SocialSendAssumption
    /\ WorkSend!SocialSendAssumption

-------------------------------------------------------------------------------
\* What a step of each instance of ExternalAgents leaves out: an execution is cancelled by
\* its Work, by the end of its Work, or by both without a fault; a child of the connector
\* is detached; and an execution is queried, a child after a milestone too.
Uncontrolled(C) == \A c \in C : call'[c] = "idle"
Unobserved == progress' = 0 /\ gets' = 0

Operations == {"cancelled", "retired", "both", "detached", "queried"}

InitAll ==
    /\ Init
    /\ \/ instance \in {"gateway"} \cup Operations /\ Gateway!Init
       \/ instance = "local" /\ LocalSend!Init
       \/ instance = "work"  /\ WorkSend!Init
    /\ instance \in {"retired", "both"} => daemon
    /\ instance \notin {"cancelled", "queried", "retired", "both"} => ~daemon

NextAll ==
    \/ /\ UNCHANGED <<instance, vars>>
       /\ \/ instance = "gateway" /\ Gateway!Next
          \/ instance = "local"   /\ LocalSend!Next
          \/ instance = "work"    /\ WorkSend!Next
    \/ /\ UNCHANGED <<instance, sending>>
       /\ Next
       /\ \/ instance = "cancelled" /\ Uncontrolled(Detaches) /\ Unobserved /\ UNCHANGED work
          \/ instance = "retired"   /\ Uncontrolled(Controls) /\ Unobserved /\ ~LoseOwner
          \/ instance = "both"      /\ Uncontrolled(Detaches) /\ Unobserved /\ UNCHANGED faults
          \/ instance = "detached"  /\ Uncontrolled(Cancels) /\ Unobserved
          \/ instance = "queried"   /\ Uncontrolled(Controls) /\ UNCHANGED work
                                    /\ (daemon => UNCHANGED progress)

SpecAll == InitAll /\ [][NextAll]_all

Symmetry == Permutations(Callers)

-------------------------------------------------------------------------------
\* SocialSend: no crash, retry or concurrent execution of the same call gives a platform, or
\* the local ledger, a part or the illustration twice, and a part leaves only after the part
\* before it was confirmed (_send_message_sequence).  A succeeded operation was given to the
\* platform and a failed or prepared one was not, outbound events are those of confirmed
\* operations, and what a Work records of a delivery is no better and no worse than its
\* receipt.
MessageIsTrue ==
    /\ instance = "gateway" => Gateway!MessageSentOnce /\ Gateway!MessageReceiptIsTrue
    /\ instance = "local" => LocalSend!MessageSentOnce /\ LocalSend!MessageReceiptIsTrue
    /\ instance = "work" => WorkSend!MessageSentOnce /\ WorkSend!MessageReceiptIsTrue

\* SocialSend: once the illustration is out no text of the call follows
\* (_text_dispatch_finished), when the executions of the call do not overlap.
PictureComesLast == [][instance = "work" => WorkSend!PictureIsLast]_all
===============================================================================
