-------------------------------- MODULE Paxos --------------------------------
(***************************************************************************)
(* The Multi-Paxos core of PhxPaxos (algorithm/acceptor.cpp, proposer.cpp, *)
(* instance.cpp, learner.cpp): instances decided one after the other by    *)
(* nodes that are proposer, acceptor and learner at once, and that skip    *)
(* the prepare phase as long as nobody rejects them.                       *)
(*                                                                         *)
(* One I/O loop per node runs the handlers, so each is one action.  A      *)
(* message a node sends to itself is handled inside the sending handler,   *)
(* as Base::SendMessage and BroadcastMessage do.  Paxos messages travel by *)
(* UDP: they are never removed from msgs, so that each may be lost,        *)
(* delayed, reordered and received twice; the queue of messages to retry   *)
(* is a later delivery.  The persistent log survives a restart and its     *)
(* writes do not fail.                                                     *)
(***************************************************************************)
EXTENDS Integers, FiniteSets

CONSTANTS
  Nodes,               \* the members of the group, as node ids
  Values,              \* the values of the clients
  ClientValues,        \* ClientValues[n][i]: those n's clients propose in instance i
  LastInstance,        \* bound of the model: the last instance that is used
  MaxId,               \* bound of the model: the largest proposal id
  MaxTimeouts,         \* bound of the model: timeouts of all nodes together
  MaxRestarts,         \* bound of the model: restarts of all nodes together
  QuietAcceptTimeouts  \* may an accept phase time out that nobody rejected?

ASSUME NodesAssumption ==
  /\ Nodes \subseteq Nat \ {0}
  /\ IsFiniteSet(Nodes)
  /\ Cardinality(Nodes) > 1

NoValue == "empty"     \* the empty string

ASSUME ValuesAssumption ==
  /\ NoValue \notin Values
  /\ ClientValues \in [Nodes -> [0 .. LastInstance -> SUBSET Values]]

ASSUME BoundsAssumption ==
  /\ {LastInstance, MaxId, MaxTimeouts, MaxRestarts} \subseteq Nat
  /\ QuietAcceptTimeouts \in BOOLEAN

Instances == 0 .. LastInstance + 1

VARIABLES
  acc,       \* the acceptor: instance, promise, accepted ballot and value
  prop,      \* the proposer; its instance is the acceptor's
  log,       \* the persistent record of each instance
  busy,      \* CommitCtx: a client's commit is under way
  msgs,      \* every message ever sent to another node
  executed,  \* history: <<instance, value>> handed to a state machine
  votes,     \* history: what each acceptor has accepted
  mishaps,   \* history: which of the three steps that Paxos does not have were taken
  timeouts,  \* number of timeouts so far
  restarts   \* number of restarts so far

vars == <<acc, prop, log, busy, msgs, executed, votes, mishaps, timeouts, restarts>>

------------------------------------------------------------------------------
(***************************************************************************)
(* Ballots (base.h): a proposal id with the proposer's node id behind it.  *)
(***************************************************************************)
Null == <<0, 0>>

AtLeast(a, b) == a[1] > b[1] \/ (a[1] = b[1] /\ a[2] >= b[2])
Above(a, b)   == a[1] > b[1] \/ (a[1] = b[1] /\ a[2] > b[2])

Majority(S) == 2 * Cardinality(S) > Cardinality(Nodes)

MaxOf(i, j) == IF i > j THEN i ELSE j

------------------------------------------------------------------------------
(***************************************************************************)
(* The acceptor's and the proposer's steps, as functions of their states.  *)
(***************************************************************************)
Record(a) == [promise |-> a.promise, ballot |-> a.ballot, value |-> a.value]

NoRecord == [promise |-> Null, ballot |-> Null, value |-> NoValue]

\* What OnPrepare and OnAccept leave of acceptor a; a rejection leaves it alone.
Promised(a, b) ==
  IF AtLeast(b, a.promise) THEN [a EXCEPT !.promise = b] ELSE a

Accepted(a, b, v) ==
  IF AtLeast(b, a.promise)
  THEN [a EXCEPT !.promise = b, !.ballot = b, !.value = v] ELSE a

RejectId(a, b) == IF AtLeast(b, a.promise) THEN 0 ELSE a.promise[1]

PrepareReply(a, from, b) ==
  [type |-> "PrepareReply", inst |-> a.inst, from |-> from, to |-> b[2], id |-> b[1],
   reject |-> RejectId(a, b),
   pre    |-> IF RejectId(a, b) = 0 THEN a.ballot ELSE Null,
   value  |-> IF RejectId(a, b) = 0 THEN a.value ELSE NoValue]

AcceptReply(a, from, b) ==
  [type |-> "AcceptReply", inst |-> a.inst, from |-> from, to |-> b[2], id |-> b[1],
   reject |-> RejectId(a, b)]

NextInstance(a) == [a EXCEPT !.inst = @ + 1, !.ballot = Null, !.value = NoValue]

\* Proposer::Prepare up to the broadcast; a rejection calls for a new id.
NewId(p) == IF p.rejected THEN MaxOf(p.id, p.other) + 1 ELSE p.id

StartPrepare(p) ==
  [p EXCEPT !.phase = "prepare", !.skip = FALSE, !.rejected = FALSE,
            !.pre = Null, !.grants = {}, !.id = NewId(p)]

StartAccept(p) == [p EXCEPT !.phase = "accept", !.grants = {}]

NewRound(p) ==
  [p EXCEPT !.phase = "idle", !.grants = {}, !.other = 0, !.value = NoValue]

Rejected(p, id) == [p EXCEPT !.rejected = TRUE, !.other = MaxOf(@, id)]

\* The counters and the value after a reply, before their threshold is tested.
CountEmptyPromise(p, r) ==   \* mutant
  IF r.reject # 0 THEN Rejected(p, r.reject)
  ELSE [p EXCEPT !.grants = @ \cup {r.from},
                 !.pre = IF AtLeast(r.pre, @) THEN r.pre ELSE @,
                 !.value = IF AtLeast(r.pre, p.pre) THEN r.value ELSE @]

CountPromise(p, r) ==
  IF r.reject # 0 THEN Rejected(p, r.reject)
  ELSE [p EXCEPT !.grants = @ \cup {r.from},
                 !.pre = IF Above(r.pre, @) THEN r.pre ELSE @,
                 !.value = IF Above(r.pre, p.pre) THEN r.value ELSE @]

CountAccept(p, r) ==
  IF r.reject # 0 THEN Rejected(p, r.reject)
  ELSE [p EXCEPT !.grants = @ \cup {r.from}]

------------------------------------------------------------------------------
(***************************************************************************)
(* Prepare(p) and Accept(p): broadcast, and handle the node's own copy.    *)
(* The node's own answer alone is no majority.                             *)
(***************************************************************************)
\* Acceptor a of n becomes a1 for ballot b; unless it rejects b it is persisted.
PersistOldInstance(n, a, b, a1) ==   \* mutant
  /\ acc' = [acc EXCEPT ![n] = a1]
  /\ log' = IF RejectId(a, b) = 0
            THEN [log EXCEPT ![n][acc[n].inst] = Record(a1)] ELSE log

PersistPromise(n, a, b, a1) ==   \* mutant
  /\ acc' = [acc EXCEPT ![n] = a1]
  /\ log' = IF RejectId(a, b) = 0 /\ a1.ballot = a.ballot
            THEN [log EXCEPT ![n][a.inst] = Record(a1)] ELSE log

Persist(n, a, b, a1) ==
  /\ acc' = [acc EXCEPT ![n] = a1]
  /\ log' = IF RejectId(a, b) = 0 THEN [log EXCEPT ![n][a.inst] = Record(a1)] ELSE log

\* Acceptor a of n accepts the value v for ballot b, unless it rejects b.
Voting(n, a, b, v) ==
  votes' = votes \cup
    IF RejectId(a, b) = 0 THEN {[node |-> n, inst |-> a.inst, ballot |-> b, value |-> v]} ELSE {}

\* History: n prepares again the ballot b under which it has already sent an
\* Accept, and which its own acceptor, that could tell it the value, now rejects.
Reuses(n, b) ==
  /\ RejectId(acc[n], b) # 0
  /\ \E m \in msgs : m.type = "Accept" /\ m.inst = acc[n].inst /\ <<m.id, m.from>> = b

Prepare(n, p) ==
  LET a  == acc[n]
      p1 == StartPrepare(p)
      b  == <<p1.id, n>>
      a1 == Promised(a, b)
  IN  /\ p1.id <= MaxId
      /\ Persist(n, a, b, a1)
      /\ prop' = [prop EXCEPT ![n] = CountPromise(p1, PrepareReply(a, n, b))]
      /\ msgs' = msgs \cup {[type |-> "Prepare", inst |-> a.inst, from |-> n, id |-> p1.id]}
      /\ mishaps' = IF Reuses(n, b) THEN mishaps \cup {"reused"} ELSE mishaps
      /\ UNCHANGED votes

Accept(n, p) ==
  LET a  == acc[n]
      b  == <<p.id, n>>
      a1 == Accepted(a, b, p.value)
  IN  /\ Persist(n, a, b, a1)
      /\ Voting(n, a, b, p.value)
      /\ prop' = [prop EXCEPT ![n] = CountAccept(StartAccept(p), AcceptReply(a, n, b))]
      /\ msgs' = msgs \cup {[type |-> "Accept", inst |-> a.inst, from |-> n, id |-> p.id,
                             value |-> p.value]}
      /\ UNCHANGED mishaps

(***************************************************************************)
(* Instance::CheckNewValue: the value of a new commit is proposed, or the  *)
(* one the proposer still has in this instance.                            *)
(***************************************************************************)
NewestValue(p, v) == [p EXCEPT !.value = v]   \* mutant

Proposing(p, v) == [p EXCEPT !.value = IF @ = NoValue THEN v ELSE @]

NewValue(n) ==
  /\ ~ busy[n] /\ acc[n].inst <= LastInstance
  /\ \E v \in ClientValues[n][acc[n].inst] :
       LET p == Proposing(prop[n], v)
       IN  IF p.skip /\ ~ p.rejected THEN Accept(n, p) ELSE Prepare(n, p)
  /\ busy' = [busy EXCEPT ![n] = TRUE]
  /\ UNCHANGED <<executed, timeouts, restarts>>

TimeOut == timeouts < MaxTimeouts /\ timeouts' = timeouts + 1

CommitTimeout(n) ==
  /\ TimeOut /\ busy[n]
  /\ busy' = [busy EXCEPT ![n] = FALSE]
  /\ prop' = [prop EXCEPT ![n].phase = "idle"]
  /\ UNCHANGED <<acc, log, msgs, executed, votes, mishaps, restarts>>

PrepareTimeout(n) ==
  /\ TimeOut /\ prop[n].phase = "prepare"
  /\ Prepare(n, prop[n])
  /\ UNCHANGED <<busy, executed, restarts>>

AcceptTimeout(n) ==
  /\ TimeOut /\ prop[n].phase = "accept"
  /\ QuietAcceptTimeouts \/ prop[n].rejected
  /\ Prepare(n, prop[n])
  /\ UNCHANGED <<busy, executed, restarts>>

------------------------------------------------------------------------------
(***************************************************************************)
(* Messages for the acceptor.  One of the next instance tells that the     *)
(* ballot of its sender was chosen in this one; if it is the ballot this   *)
(* node accepted, the node learns its value and moves on before it         *)
(* handles the message.                                                    *)
(***************************************************************************)
From(m) == <<m.id, m.from>>

\* SMExecute, SetResult, NewInstance: v is the value of the node's instance.
Learn(n, v) ==
  /\ executed' = executed \cup {<<acc[n].inst, v>>}
  /\ busy' = [busy EXCEPT ![n] = FALSE]
  /\ prop' = [prop EXCEPT ![n] = NewRound(@)]

Announces(m, a) == m.inst = a.inst + 1 /\ a.ballot # Null /\ From(m) = a.ballot

\* Under ballot b a majority has accepted the value v of instance i.
ChosenUnder(i, b, v) ==
  Majority({n \in Nodes : [node |-> n, inst |-> i, ballot |-> b, value |-> v] \in votes})

\* History: what n takes for the news that its value was chosen is not.
Mishears(n) == ~ ChosenUnder(acc[n].inst, acc[n].ballot, acc[n].value)

CatchUp(n, m) ==
  IF Announces(m, acc[n])
  THEN /\ Learn(n, acc[n].value)
       /\ mishaps' = IF Mishears(n) THEN mishaps \cup {"misheard"} ELSE mishaps
  ELSE UNCHANGED <<executed, busy, prop, mishaps>>

AcceptorFor(n, m) == IF Announces(m, acc[n]) THEN NextInstance(acc[n]) ELSE acc[n]

OnPrepare(n) ==
  /\ \E m \in msgs :
       LET a == AcceptorFor(n, m)  a1 == Promised(a, From(m))
       IN  /\ m.type = "Prepare" /\ m.from # n /\ m.inst = a.inst
           /\ CatchUp(n, m)
           /\ Persist(n, a, From(m), a1)
           /\ msgs' = msgs \cup {PrepareReply(a, n, From(m))}
  /\ UNCHANGED <<votes, timeouts, restarts>>

OnAccept(n) ==
  /\ \E m \in msgs :
       LET a == AcceptorFor(n, m)  a1 == Accepted(a, From(m), m.value)
       IN  /\ m.type = "Accept" /\ m.from # n /\ m.inst = a.inst
           /\ CatchUp(n, m)
           /\ Persist(n, a, From(m), a1)
           /\ Voting(n, a, From(m), m.value)
           /\ msgs' = msgs \cup {AcceptReply(a, n, From(m))}
  /\ UNCHANGED <<timeouts, restarts>>

------------------------------------------------------------------------------
(***************************************************************************)
(* Replies to the proposer.                                                *)
(***************************************************************************)
RepliesTo(n, type) == {m \in msgs : m.type = type /\ m.to = n}

OnPrepareReply(n) ==
  /\ \E m \in RepliesTo(n, "PrepareReply") :
       LET p == CountPromise(prop[n], m)
       IN  /\ m.inst = acc[n].inst
           /\ prop[n].phase = "prepare" /\ m.id = prop[n].id
           /\ IF Majority(p.grants)
              THEN Accept(n, [p EXCEPT !.skip = TRUE])
              ELSE prop' = [prop EXCEPT ![n] = p] /\ UNCHANGED <<acc, log, msgs, votes, mishaps>>
  /\ UNCHANGED <<busy, executed, timeouts, restarts>>

\* ProposerSendSuccess: the node's own learner hears it first.
Success(n, p) ==
  /\ msgs' = msgs \cup {[type |-> "Success", inst |-> acc[n].inst, from |-> n, id |-> p.id]}
  /\ IF acc[n].ballot = <<p.id, n>>
     THEN Learn(n, acc[n].value) /\ acc' = [acc EXCEPT ![n] = NextInstance(@)]
     ELSE /\ prop' = [prop EXCEPT ![n] = [p EXCEPT !.phase = "idle"]]
          /\ UNCHANGED <<acc, executed, busy>>

OnAcceptReply(n) ==
  /\ \E m \in RepliesTo(n, "AcceptReply") :
       LET p == CountAccept(prop[n], m)
       IN  /\ m.inst = acc[n].inst
           /\ prop[n].phase = "accept" /\ m.id = prop[n].id
           /\ IF Majority(p.grants)
              THEN Success(n, p)
              ELSE /\ prop' = [prop EXCEPT ![n] = p]
                   /\ UNCHANGED <<acc, msgs, executed, busy>>
  /\ UNCHANGED <<log, votes, mishaps, timeouts, restarts>>

\* A rejection that comes an instance too late still asks for a new id.
OnExpiredReply(n) ==
  /\ \E m \in RepliesTo(n, "PrepareReply") \cup RepliesTo(n, "AcceptReply") :
       /\ m.inst + 1 = acc[n].inst /\ m.reject # 0
       /\ prop' = [prop EXCEPT ![n] = Rejected(@, m.reject)]
  /\ UNCHANGED <<acc, log, busy, msgs, executed, votes, mishaps, timeouts, restarts>>

------------------------------------------------------------------------------
(***************************************************************************)
(* The learner.                                                            *)
(***************************************************************************)
OnProposerSendSuccess(n) ==
  /\ \E m \in msgs :
       /\ m.type = "Success" /\ m.from # n
       /\ m.inst = acc[n].inst /\ acc[n].ballot # Null /\ From(m) = acc[n].ballot
       /\ Learn(n, acc[n].value)
       /\ acc' = [acc EXCEPT ![n] = NextInstance(@)]
  /\ UNCHANGED <<log, msgs, votes, mishaps, timeouts, restarts>>

(***************************************************************************)
(* A node behind learns the instance it is in from the log of a node that  *)
(* is past it, which does not change any more while it travels.  LearnValue*)
(* overwrites the acceptor's record: the learned ballot becomes its        *)
(* promise on disk, whatever the acceptor has promised in memory.          *)
(***************************************************************************)
OnSendLearnValue(n) ==
  /\ \E k \in Nodes \ {n} :
       LET i == acc[n].inst  r == log[k][i]
       IN  /\ acc[k].inst > i /\ r # NoRecord
           /\ log' = [log EXCEPT ![n][i] = [r EXCEPT !.promise = r.ballot]]
           /\ Learn(n, r.value)
  /\ acc' = [acc EXCEPT ![n] = NextInstance(@)]
  /\ UNCHANGED <<msgs, votes, mishaps, timeouts, restarts>>

------------------------------------------------------------------------------
(***************************************************************************)
(* Restart: the record of the largest instance is the acceptor's state,    *)
(* the earlier ones are played to the state machine again.                 *)
(***************************************************************************)
Logged(n) == {i \in Instances : log[n][i] # NoRecord}

LastLogged(n) ==
  IF Logged(n) = {} THEN 0 ELSE CHOOSE i \in Logged(n) : \A j \in Logged(n) : j <= i

LoadedPromise(n) ==   \* mutant
  [inst |-> LastLogged(n), promise |-> log[n][LastLogged(n)].promise,
   ballot |-> Null, value |-> NoValue]

Loaded(n) ==
  LET r == log[n][LastLogged(n)]
  IN  [inst |-> LastLogged(n), promise |-> r.promise, ballot |-> r.ballot, value |-> r.value]

NewProposer(id) ==
  [id |-> id, other |-> 0, pre |-> Null, value |-> NoValue, phase |-> "idle",
   skip |-> FALSE, rejected |-> FALSE, grants |-> {}]

\* History: the acceptor comes back with less than it has promised.
Forgets(n) == ~ AtLeast(Loaded(n).promise, acc[n].promise)

Restart(n) ==
  /\ restarts < MaxRestarts
  /\ restarts' = restarts + 1
  /\ acc' = [acc EXCEPT ![n] = Loaded(n)]
  /\ prop' = [prop EXCEPT ![n] = NewProposer(Loaded(n).promise[1] + 1)]
  /\ busy' = [busy EXCEPT ![n] = FALSE]
  /\ executed' = executed \cup {<<i, log[n][i].value>> : i \in 0 .. LastLogged(n) - 1}
  /\ mishaps' = IF Forgets(n) THEN mishaps \cup {"forgot"} ELSE mishaps
  /\ UNCHANGED <<log, msgs, votes, timeouts>>

Init ==
  /\ acc = [n \in Nodes |-> [inst |-> 0, promise |-> Null, ballot |-> Null, value |-> NoValue]]
  /\ prop = [n \in Nodes |-> NewProposer(1)]
  /\ log = [n \in Nodes |-> [i \in Instances |-> NoRecord]]
  /\ busy = [n \in Nodes |-> FALSE]
  /\ msgs = {}
  /\ executed = {} /\ votes = {} /\ mishaps = {}
  /\ timeouts = 0
  /\ restarts = 0

Propose(n) ==
  \/ NewValue(n) \/ CommitTimeout(n) \/ PrepareTimeout(n) \/ AcceptTimeout(n)
  \/ OnPrepareReply(n) \/ OnAcceptReply(n) \/ OnExpiredReply(n)

Vote(n) == OnPrepare(n) \/ OnAccept(n)

LearnFromOthers(n) == OnProposerSendSuccess(n) \/ OnSendLearnValue(n)

Next == \E n \in Nodes : Propose(n) \/ Vote(n) \/ LearnFromOthers(n) \/ Restart(n)

Spec == Init /\ [][Next]_vars
==============================================================================
