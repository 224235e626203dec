---------------------------- MODULE MCServicesLive ----------------------------
(***************************************************************************)
(* What must eventually happen to work that no person waits for: a part of *)
(* an event leaves the outbox, a plugin's job is served and follows its    *)
(* Work, a child of a Work settles and its result is reported.  The        *)
(* variables are those of MCServices, the bounds smaller; a behaviour is a *)
(* fair behaviour of one component, named by `instance`: two calls that    *)
(* publish one event each, each of one part, while grants stay; one job;   *)
(* two children that compete for one activation.                           *)
(***************************************************************************)
EXTENDS MCServices

-------------------------------------------------------------------------------
InitLive == InitAll /\ instance \in {"outbox", "turns", "children"}

FairLive ==
    \/ instance = "outbox"   /\ Fairness
    \/ instance = "turns"    /\ Turns!Fairness
    \/ instance = "children" /\ Children!Fairness

SpecLive == InitLive /\ [][NextAll]_all /\ FairLive

-------------------------------------------------------------------------------
\* PluginOutbox: every published part is sent, failed, cancelled or declared uncertain, past
\* failed sends and records, expired leases and a lost worker.
OutboxSettles == instance = "outbox" => PartsSettle

\* PluginTurns: a job does not stay without a Work, and is closed when its Work has ended,
\* whoever ran it to its end.
JobsAreServed == instance = "turns" => Turns!JobIsServed /\ Turns!JobFollowsWork

\* Subagents: a child that is queued, or whose executor died, is executed until it settles,
\* and its result reaches the parent's mailbox, through a crash between the two.
ChildrenReport == instance = "children" => Children!ChildSettles /\ Children!ResultIsReported
===============================================================================
