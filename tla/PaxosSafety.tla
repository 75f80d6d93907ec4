----------------------------- MODULE PaxosSafety -----------------------------
(***************************************************************************)
(* What Multi-Paxos promises.                                              *)
(***************************************************************************)
EXTENDS Paxos

Ballots == (0 .. MaxId) \X ({0} \cup Nodes)
Contents == Values \cup {NoValue}

Records == [promise : Ballots, ballot : Ballots, value : Contents]

Acceptors == [inst : Instances, promise : Ballots, ballot : Ballots, value : Contents]

Proposers ==
  [id : 1 .. MaxId + 1, other : 0 .. MaxId, pre : Ballots, value : Contents,
   phase : {"idle", "prepare", "accept"}, skip : BOOLEAN, rejected : BOOLEAN,
   grants : SUBSET Nodes]

Messages ==
  [type : {"Prepare", "Success"}, inst : Instances, from : Nodes, id : 1 .. MaxId]
  \cup [type : {"Accept"}, inst : Instances, from : Nodes, id : 1 .. MaxId, value : Values]
  \cup [type : {"PrepareReply"}, inst : Instances, from : Nodes, to : Nodes,
        id : 1 .. MaxId, reject : 0 .. MaxId, pre : Ballots, value : Contents]
  \cup [type : {"AcceptReply"}, inst : Instances, from : Nodes, to : Nodes,
        id : 1 .. MaxId, reject : 0 .. MaxId]

\* The state is well-formed; in particular no empty value is ever proposed,
\* accepted by another node or executed.
TypeOK ==
  /\ acc \in [Nodes -> Acceptors]
  /\ prop \in [Nodes -> Proposers]
  /\ log \in [Nodes -> [Instances -> Records]]
  /\ busy \in [Nodes -> BOOLEAN]
  /\ msgs \subseteq Messages
  /\ executed \subseteq (0 .. LastInstance) \X Values
  /\ votes \subseteq [node : Nodes, inst : Instances, ballot : Ballots, value : Values]
  /\ mishaps \subseteq {"reused", "misheard", "forgot"}
  /\ timeouts \in 0 .. MaxTimeouts
  /\ restarts \in 0 .. MaxRestarts

(***************************************************************************)
(* Three steps of the code are not Paxos's, and the history variable       *)
(* mishaps names those that were taken: an acceptor came back from a       *)
(* restart with less than it had promised; a proposer prepared again the   *)
(* ballot of an Accept that its own acceptor rejected by then; a node      *)
(* learned by a message of the next instance what no majority had accepted.*)
(***************************************************************************)
Calm == mishaps \cap {"forgot", "reused"} = {}

\* No two values are ever handed to a state machine for one instance, by
\* two nodes, or by one node before and after a restart.
Agreement ==
  \A x, y \in executed : x[1] = y[1] => x[2] = y[2]

\* A ballot of an instance is never used for two values, though a proposer
\* goes on with its ballot into the next instance and after timeouts.
OneValuePerBallot ==
  \A m1, m2 \in {m \in msgs : m.type = "Accept"} :
    m1.inst = m2.inst /\ From(m1) = From(m2) => m1.value = m2.value

\* In no instance do majorities accept two values, under any ballots, though
\* a proposer may skip the prepare phase on promises of an earlier instance,
\* and repeats rounds that timed out.
ChosenOnce ==
  \A x, y \in votes :
    x.inst = y.inst /\ x.value # y.value =>
      ~ (ChosenUnder(x.inst, x.ballot, x.value) /\ ChosenUnder(y.inst, y.ballot, y.value))

\* What a node told a proposer it accepted is on its disk, until it accepts
\* a higher ballot there: a restart between two steps forgets no vote.
VoteOnDisk ==
  \A r \in {m \in msgs : m.type = "AcceptReply" /\ m.reject = 0},
     m \in {m \in msgs : m.type = "Accept"} :
    m.inst = r.inst /\ From(m) = <<r.id, r.to>> =>
      LET d == log[r.from][r.inst]
      IN  d.value = m.value \/ Above(d.ballot, From(m))

\* What a node would play to its state machine after a restart, for every
\* instance it is past, is what it was played before.
ReplaySame ==
  \A n \in Nodes : \A i \in 0 .. acc[n].inst - 1 :
    <<i, log[n][i].value>> \in executed

(***************************************************************************)
(* The group keeps the promise of PaxosLog: what its learners execute is   *)
(* the common log, and the instance a node is in is its position there.    *)
(***************************************************************************)
OneLog == INSTANCE PaxosLog WITH position <- [n \in Nodes |-> acc[n].inst]

\* Every step of acceptors, proposers and learners, and every restart, plays
\* the next entry of the common log on one node, takes one node back by one
\* entry, or changes nothing a state machine can see.
ImplementsLog == OneLog!Spec
==============================================================================
