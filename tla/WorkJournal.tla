------------------------------ MODULE WorkJournal ------------------------------
(* The protocol checkpoint of a Work: runtime/work_journal.py, work_session *)
(* .py and the request loop that writes it.  An activation takes inputs     *)
(* into its transcript, saves the journal before it sends a request, after  *)
(* the response and after the calls of the response are paired with their   *)
(* results.  It may die between any two of these transactions; the next     *)
(* activation restores what it may from the journal, the mailbox and the    *)
(* effect receipts.  Whether an effect runs twice under one key is the      *)
(* subject of EffectReceipts; here it is whether a paid response is bought  *)
(* again, and whether a request is ever sent that forgets a fact.           *)
EXTENDS Integers, FiniteSets, Sequences

CONSTANTS
    Messages,       \* user inputs of the Work
    Signals,        \* wait signals and completions
    MaxCalls,       \* tool calls in one response
    MaxReplies,     \* responses of a provider
    MaxContracts,   \* provider or manifest changes
    MaxFaults       \* crashes and failed requests

JournalAssumption ==
    /\ Messages \cap Signals = {}
    /\ MaxCalls \in Nat /\ MaxReplies \in Nat
    /\ MaxContracts \in Nat \ {0} /\ MaxFaults \in Nat

VARIABLES
    inbox,      \* state of each input
    journal,    \* the row of runtime_work_journal
    requests,   \* model_requests of the Work
    begun,      \* effect keys whose dispatch was recorded
    contract,   \* the static contract an activation would use now
    decided,    \* an accepted ending is stored
    answered,   \* what the answered requests told, and under which contract
    replies,    \* how many were answered
    pc,         \* where the activation is
    mem,        \* its session
    faults

vars == <<inbox, journal, requests, begun, contract, decided, answered, replies, pc, mem, faults>>

-----------------------------------------------------------------------------
Inputs == Messages \cup Signals

(* What a transcript tells the model: inputs and results of calls.          *)
Told(i) == [kind |-> "input", input |-> i, call |-> <<>>]
Result(k) == [kind |-> "result", input |-> "none", call |-> k]
ToldAll(S) == {Told(i) : i \in S}
Results(K) == {Result(k) : k \in K}

In(states) == {i \in Inputs : inbox[i] \in states}

(* direct_operation_id(chain, sequence, call): a call of the response that  *)
(* the given chain received at the given sequence number.                   *)
Key(chain, seq, c) == <<chain, seq, c>>
KeysOf(j) == {Key(j.chain, j.seq, c) : c \in 1 .. j.calls}

NoSession == [chain |-> 0, seq |-> 0, ids |-> {}, shown |-> {}, calls |-> 0, contract |-> 0]
Sessions(x) == x.calls \in 0 .. MaxCalls

Rows == {"none", "dispatched", "response", "paired"}

(* _save: the session becomes the row. *)
Saved(phase, m) ==
    [phase |-> phase, chain |-> m.chain, seq |-> m.seq, ids |-> m.ids,
     shown |-> m.shown, calls |-> m.calls, contract |-> m.contract]

NoJournal == Saved("none", NoSession)

-----------------------------------------------------------------------------
(* The world *)

Arrive(i) ==
    /\ inbox[i] = "absent" /\ ~decided
    /\ inbox' = [inbox EXCEPT ![i] = "pending"]
    /\ UNCHANGED <<journal, requests, begun, contract, decided, answered, replies, pc, mem, faults>>

ChangeContract ==
    /\ contract < MaxContracts /\ pc = "down"
    /\ contract' = contract + 1
    /\ UNCHANGED <<inbox, journal, requests, begun, decided, answered, replies, pc, mem, faults>>

(* The process dies; what it had in memory is gone. *)
Crash ==
    /\ faults < MaxFaults /\ pc \notin {"down", "end"}
    /\ faults' = faults + 1
    /\ pc' = "down" /\ mem' = NoSession
    /\ UNCHANGED <<inbox, journal, requests, begun, contract, decided, answered, replies>>

-----------------------------------------------------------------------------
(* Restoring: WorkJournal.load and WorkSession.restore *)

Business == In({"pending"}) \cap Messages

(* Every message ever taken in, from the ledger of inputs. *)
Material == ToldAll(In({"staged", "consumed"}) \cap Messages)

(* execution_evidence: the receipts of the Work, the unresolved ones all,   *)
(* as unknown outcomes, and up to 32 resolved ones.                         *)
Evidence == Results(begun)

NewChain == 1 + journal.chain

(* Mutant: a new chain that carries only the last round over. *)
FreshLastRound(ids, extra) ==
    [chain |-> NewChain, seq |-> journal.seq, ids |-> ids, calls |-> 0, contract |-> contract,
     shown |-> Material \cup extra]

(* A chain of its own that tells what the Work knows. *)
Fresh(ids, extra) ==
    [chain |-> NewChain, seq |-> journal.seq, ids |-> ids, calls |-> 0, contract |-> contract,
     shown |-> Material \cup Evidence \cup extra]

Restored(m) == mem' = m /\ pc' = "inputs"

LoadFresh ==
    /\ pc = "down" /\ ~decided
    /\ journal.phase = "none" /\ requests = 0
    /\ Restored(Fresh({}, {}))
    /\ UNCHANGED <<inbox, journal, requests, begun, contract, decided, answered, replies, faults>>

(* A request without a stored response: only new input goes on from here.   *)
(* Without any, work_response_not_persisted fails the activation.           *)
LoadLost ==
    /\ pc = "down" /\ ~decided
    /\ journal.phase = "dispatched" /\ journal.contract = contract /\ Business # {}
    /\ Restored(Fresh({}, {}))
    /\ UNCHANGED <<inbox, journal, requests, begun, contract, decided, answered, replies, faults>>

(* Calls of the old chain are audited by their keys, never taken over.      *)
LoadContractChanged ==
    /\ pc = "down" /\ ~decided
    /\ journal.phase # "none" /\ journal.contract # contract
    /\ Restored(Fresh({}, Results(KeysOf(journal))))
    /\ UNCHANGED <<inbox, journal, requests, begun, contract, decided, answered, replies, faults>>

(* Calls of a stored response that never were dispatched, and those after   *)
(* the first of them, remain to be executed.                                *)
Retained ==
    {c \in 1 .. journal.calls : \E d \in 1 .. c : Key(journal.chain, journal.seq, d) \notin begun}

Resumable ==
    /\ pc = "down" /\ ~decided
    /\ journal.phase \in {"response", "paired"} /\ journal.contract = contract

Continued(m) == [chain |-> m.chain, seq |-> m.seq, ids |-> m.ids, shown |-> m.shown,
                 calls |-> m.calls, contract |-> m.contract]

(* The batch goes on in its original chain. *)
LoadPending ==
    /\ Resumable /\ Retained # {}
    /\ Restored(Continued(journal))
    /\ UNCHANGED <<inbox, journal, requests, begun, contract, decided, answered, replies, faults>>

(* Pair what was recorded; a native checkpoint continues its chain, any     *)
(* other is retired for a new chain with the last round as evidence.        *)
LoadPaired(exact) ==
    LET paired == [Continued(journal) EXCEPT !.calls = 0, !.shown = @ \cup Results(KeysOf(journal))]
    IN  /\ Resumable /\ Retained = {}
        /\ journal' = IF journal.calls > 0 THEN Saved("paired", paired) ELSE journal
        /\ Restored(IF exact THEN paired ELSE Fresh(journal.ids, Results(KeysOf(journal))))
        /\ UNCHANGED <<inbox, requests, begun, contract, decided, answered, replies, faults>>

(* An accepted ending needs no further request. *)
LoadDecided ==
    /\ pc = "down" /\ decided
    /\ pc' = "end"
    /\ UNCHANGED <<inbox, journal, requests, begun, contract, decided, answered, replies, mem, faults>>

(* recovered_inputs: staged inputs of the restored transcript are consumed, *)
(* the others come again.                                                   *)
RecoverInputs ==
    /\ pc = "inputs"
    /\ inbox' = [i \in Inputs |-> IF inbox[i] # "staged" THEN inbox[i]
                                  ELSE IF i \in mem.ids THEN "consumed" ELSE "pending"]
    /\ pc' = IF mem.calls > 0 THEN "tools" ELSE "loop"
    /\ UNCHANGED <<journal, requests, begun, contract, decided, answered, replies, mem, faults>>

-----------------------------------------------------------------------------
(* One request *)

TakeInputs ==
    /\ pc = "loop" /\ In({"pending"}) # {}
    /\ inbox' = [i \in Inputs |-> IF inbox[i] = "pending" THEN "staged" ELSE inbox[i]]
    /\ mem' = [mem EXCEPT !.ids = @ \cup In({"pending"}), !.shown = @ \cup ToldAll(In({"pending"}))]
    /\ UNCHANGED <<journal, requests, begun, contract, decided, answered, replies, pc, faults>>

ReserveRequest ==
    /\ pc = "loop" /\ In({"pending"}) = {}
    /\ requests' = requests + 1
    /\ mem' = [mem EXCEPT !.seq = @ + 1]
    /\ pc' = "reserved"
    /\ UNCHANGED <<inbox, journal, begun, contract, decided, answered, replies, faults>>

(* The journal knows of the request before the provider does. *)
SaveDispatched ==
    /\ pc = "reserved"
    /\ journal' = Saved("dispatched", mem)
    /\ pc' = "sent"
    /\ UNCHANGED <<inbox, requests, begun, contract, decided, answered, replies, mem, faults>>

(* The request fails without a usable response: the boundary before it is   *)
(* stored again and the activation ends.                                    *)
RequestFails ==
    /\ pc = "sent" /\ faults < MaxFaults
    /\ faults' = faults + 1
    /\ journal' = Saved("paired", mem)
    /\ pc' = "down" /\ mem' = NoSession
    /\ UNCHANGED <<inbox, requests, begun, contract, decided, answered, replies>>

(* n calls, or a final answer. *)
Answer(n) ==
    /\ pc = "sent" /\ replies < MaxReplies
    /\ answered' = answered \cup {[contract |-> mem.contract, shown |-> mem.shown]}
    /\ replies' = replies + 1
    /\ mem' = [mem EXCEPT !.calls = n]
    /\ pc' = "answered"
    /\ UNCHANGED <<inbox, journal, requests, begun, contract, decided, faults>>

ConfirmInputs ==
    /\ pc = "answered"
    /\ inbox' = [i \in Inputs |-> IF inbox[i] = "staged" THEN "consumed" ELSE inbox[i]]
    /\ pc' = IF mem.calls > 0 THEN "calls" ELSE "final"
    /\ UNCHANGED <<journal, requests, begun, contract, decided, answered, replies, mem, faults>>

SaveResponse ==
    /\ pc = "calls"
    /\ journal' = Saved("response", mem)
    /\ pc' = "tools"
    /\ UNCHANGED <<inbox, requests, begun, contract, decided, answered, replies, mem, faults>>

(* The next call that is not dispatched yet; calls may be run in parallel.  *)
Invoke(c) ==
    LET k == Key(mem.chain, mem.seq, c) IN
    /\ pc = "tools" /\ c \in 1 .. mem.calls /\ k \notin begun
    /\ begun' = begun \cup {k}
    /\ UNCHANGED <<inbox, journal, requests, contract, decided, answered, replies, pc, mem, faults>>

(* finish_tool_turn: an unknown outcome left by an earlier activation is a  *)
(* result too.                                                              *)
SavePaired ==
    /\ pc = "tools" /\ KeysOf(mem) \subseteq begun
    /\ LET m == [mem EXCEPT !.calls = 0, !.shown = @ \cup Results(KeysOf(mem))]
       IN  mem' = m /\ journal' = Saved("paired", m)
    /\ pc' = "loop"
    /\ UNCHANGED <<inbox, requests, begun, contract, decided, answered, replies, faults>>

(* settle_final: input that came in meanwhile is looked at first. *)
SettleFinal ==
    /\ pc = "final"
    /\ \/ Business # {} /\ pc' = "loop" /\ UNCHANGED decided
       \/ Business = {} /\ pc' = "closing" /\ decided' = TRUE
    /\ UNCHANGED <<inbox, journal, requests, begun, contract, answered, replies, mem, faults>>

SaveFinal ==
    /\ pc = "closing"
    /\ journal' = Saved("paired", mem)
    /\ pc' = "end"
    /\ UNCHANGED <<inbox, requests, begun, contract, decided, answered, replies, mem, faults>>

-----------------------------------------------------------------------------
Init ==
    /\ inbox = [i \in Inputs |-> "absent"]
    /\ journal = NoJournal /\ requests = 0
    /\ begun = {}
    /\ contract = 1 /\ decided = FALSE /\ answered = {} /\ replies = 0
    /\ pc = "down" /\ mem = NoSession /\ faults = 0

Load ==
    \/ LoadFresh \/ LoadLost \/ LoadContractChanged \/ LoadPending \/ LoadDecided
    \/ \E exact \in BOOLEAN : LoadPaired(exact)

Request ==
    \/ TakeInputs \/ ReserveRequest \/ SaveDispatched \/ RequestFails
    \/ \E n \in 0 .. MaxCalls : Answer(n)
    \/ ConfirmInputs \/ SaveResponse \/ SavePaired \/ SettleFinal \/ SaveFinal
    \/ \E c \in 1 .. MaxCalls : Invoke(c)

Next ==
    \/ \E i \in Inputs : Arrive(i)
    \/ ChangeContract \/ Crash \/ Load \/ RecoverInputs \/ Request

Spec == Init /\ [][Next]_vars

-----------------------------------------------------------------------------
(* Properties *)

(* Types of the variables. *)
TypeOK ==
    /\ inbox \in [Inputs -> {"absent", "pending", "staged", "consumed"}]
    /\ journal.phase \in Rows /\ requests \in Nat
    /\ contract \in 1 .. MaxContracts /\ decided \in BOOLEAN
    /\ pc \in {"down", "inputs", "loop", "reserved", "sent", "answered", "calls", "tools",
               "final", "closing", "end"}
    /\ Sessions(mem) /\ mem.ids \subseteq Inputs /\ journal.ids \subseteq Inputs

(* No response is bought twice: under one contract a provider never answers *)
(* two requests that told it the same.                                      *)
PaidOnce == Cardinality(answered) = replies

(* A request tells everything: each message the mailbox gave out and each   *)
(* call ever dispatched, its outcome known or not, whatever chain it is in. *)
RequestTellsAll ==
    pc = "sent" => /\ ToldAll(In({"staged", "consumed"}) \cap Messages) \subseteq mem.shown
                   /\ Results(begun) \subseteq mem.shown

(* recovered_inputs says of the staged inputs it consumes that "the         *)
(* restored transcript contains" them: an input is consumed only when a     *)
(* provider was told of it or the transcript at hand tells of it.           *)
ConsumedWasTold ==
    pc = "loop" => \A i \in In({"consumed"}) :
        \/ Told(i) \in mem.shown
        \/ \E r \in answered : Told(i) \in r.shown

=============================================================================
