------------------------------- MODULE MCPaxos -------------------------------
(***************************************************************************)
(* Small instances of Multi-Paxos.                                         *)
(***************************************************************************)
EXTENDS PaxosSafety

MCNodes == 1 .. 3
MCFive == 1 .. 5
MCValues == {"a", "b", "c"}

None == [i \in 0 .. LastInstance |-> {}]
Each(v) == [i \in 0 .. LastInstance |-> {v}]

\* Nodes 1 and 2 have a client in every instance.
MCTwo == [n \in Nodes |-> IF n > 2 THEN None ELSE Each(<<"a", "b">>[n])]

\* Every node has one.
MCAll == [n \in Nodes |-> Each(<<"a", "b", "c">>[n])]

\* Node 1 has clients in every instance, node 2 only in the last.
MCTurns ==
  [n \in Nodes |-> [i \in 0 .. LastInstance |->
    IF n = 1 THEN {"a"} ELSE IF n = 2 /\ i = LastInstance THEN {"b"} ELSE {}]]

(***************************************************************************)
(* Specifications with fewer steps than Next: what happens in their        *)
(* behaviours happens in those of Spec.                                    *)
(*                                                                         *)
(* Voter: node 3 has the deciding vote.  It has no clients, it hears both  *)
(* proposers, they do not hear each other, and it alone restarts.  A       *)
(* node's clients come once its predecessor sent an accept.                *)
(***************************************************************************)
AcceptOut(n) == \E m \in msgs : m.type = "Accept" /\ m.from = n

Staggered ==
  \A n \in Nodes : busy'[n] /\ ~ busy[n] => n = 1 \/ AcceptOut(n - 1)

VoterNext ==
  \/ \E n \in Nodes : NewValue(n) /\ Staggered
  \/ \E n \in Nodes : PrepareTimeout(n) \/ AcceptTimeout(n) \/ CommitTimeout(n)
  \/ \E n \in Nodes : OnPrepareReply(n) \/ OnAcceptReply(n) \/ OnExpiredReply(n)
  \/ \E n \in Nodes : LearnFromOthers(n)
  \/ Vote(3) \/ Restart(3)

VoterSpec == Init /\ [][VoterNext]_vars

(***************************************************************************)
(* Reuse: staggered, node 3 hears no answer, node 2 hears no accept, and   *)
(* only node 2 times out.                                                  *)
(***************************************************************************)
ReuseNext ==
  \/ \E n \in Nodes : NewValue(n) /\ Staggered
  \/ \E n \in Nodes : OnPrepare(n)
  \/ OnAccept(1) \/ OnAccept(3)
  \/ OnPrepareReply(1) \/ OnPrepareReply(2)
  \/ AcceptTimeout(2) \/ OnAcceptReply(2)
  \/ OnProposerSendSuccess(1)

ReuseSpec == Init /\ [][ReuseNext]_vars

(***************************************************************************)
(* Forget: only node 1 times out, only node 3 restarts and it has no       *)
(* client, nodes 1 and 3 learn the first instance from node 2's log, and   *)
(* node 2 hears nothing of node 1's round.                                 *)
(***************************************************************************)
ForgetNext ==
  \/ NewValue(2) \/ (NewValue(1) /\ AcceptOut(2))
  \/ PrepareTimeout(1)
  \/ OnPrepare(1) \/ OnAccept(1) \/ OnPrepare(3) \/ (OnAccept(3) /\ restarts = 1)
  \/ OnPrepareReply(1) \/ OnPrepareReply(2) \/ OnAcceptReply(1) \/ OnAcceptReply(2)
  \/ OnSendLearnValue(1) \/ OnSendLearnValue(3)
  \/ Restart(3)

ForgetSpec == Init /\ [][ForgetNext]_vars

(***************************************************************************)
(* Announce: no timeout, no restart.  Node 1 hears no accept reply and no  *)
(* message of node 2, which starts after it, but asks it what was chosen.  *)
(***************************************************************************)
AnnounceNext ==
  \/ NewValue(1) \/ (NewValue(2) /\ AcceptOut(1))
  \/ \E n \in 3 .. 5 : Vote(n)
  \/ OnPrepareReply(1) \/ OnPrepareReply(2) \/ OnAcceptReply(2)
  \/ OnSendLearnValue(1)

AnnounceSpec == Init /\ [][AnnounceNext]_vars
==============================================================================
