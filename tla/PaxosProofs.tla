------------------------------ MODULE PaxosProofs -------------------------------
(***************************************************************************)
(* Proofs about Multi-Paxos in a group of any size, with any clients,      *)
(* instances and proposal ids, and with any restarts and timeouts:         *)
(*   - always: the types, and what a restart plays again;                  *)
(*   - as long as no restart forgot a promise and no ballot was used       *)
(*     again (Calm): one value for a ballot, and one chosen value for an   *)
(*     instance, the skipped prepare phases included;                      *)
(*   - as long as, besides, nobody misheard that its value was chosen:     *)
(*     agreement, votes that stay on disk, and that the group implements   *)
(*     PaxosLog.                                                           *)
(*                                                                         *)
(* The invariants of the first two parts take acceptors A, proposers P,    *)
(* votes V and messages M as parameters: a handler is several small steps  *)
(* one after the other, and each of them keeps the invariants.             *)
(***************************************************************************)
EXTENDS PaxosSafety, FiniteSetTheorems, TLAPS

Voted == [node : Nodes, inst : Instances, ballot : Ballots, value : Values]

TypesOK(A, P, V, M) ==
  /\ A \in [Nodes -> Acceptors]
  /\ P \in [Nodes -> Proposers]
  /\ V \subseteq Voted
  /\ M \subseteq Messages
  /\ \A n \in Nodes :
       /\ A[n].ballot # Null => A[n].value \in Values
       /\ P[n].phase # "idle" => P[n].value # NoValue /\ A[n].inst <= LastInstance
       /\ P[n].phase # "idle" \/ P[n].skip => P[n].id <= MaxId
  /\ \A m \in M :
       /\ m.type = "PrepareReply" /\ m.pre # Null => m.value \in Values
       /\ m.type = "Success" => m.inst <= LastInstance

------------------------------------------------------------------------------
Accepts(M) == {m \in M : m.type = "Accept"}

Sent(M, n, i, id) == \E m \in Accepts(M) : m.from = n /\ m.inst = i /\ m.id = id

Vote4(n, i, b, v) == [node |-> n, inst |-> i, ballot |-> b, value |-> v]

\* Below b the value v of instance i has no rival: for each lower ballot a
\* majority will not vote any more, and voted for nothing else.
SafeAt(A, V, i, b, v) ==
  \A c \in Ballots : Above(b, c) =>
    \E Q \in SUBSET Nodes : Majority(Q) /\
      \A k \in Q : /\ Above(A[k].promise, c)
                   /\ \A w \in V : w.node = k /\ w.inst = i /\ w.ballot = c => w.value = v

\* An Accept belongs to the proposer's past, or to the ballot it uses now.
AcceptsOK(A, P, V, M) ==
  \A m \in Accepts(M) :
    /\ m.id <= P[m.from].id
    /\ m.id = P[m.from].id => m.inst <= A[m.from].inst
    /\ SafeAt(A, V, m.inst, From(m), m.value)

\* What n has sent in its instance under the ballot of its round is the value
\* of the round p, also while it prepares that ballot again.
FitsAccepts(A, M, n, p) ==
  \A m \in Accepts(M) : m.from = n /\ m.inst = A[n].inst /\ m.id = p.id =>
    /\ m.value = p.value
    /\ p.phase = "prepare" => p.pre = From(m)

ValuesOK(A, P, M) == \A n \in Nodes : FitsAccepts(A, M, n, P[n])

OneValue(M) ==
  \A m1, m2 \in Accepts(M) : m1.inst = m2.inst /\ From(m1) = From(m2) => m1.value = m2.value

\* A vote is for a value that was proposed, and its acceptor remembers it.
VotesOK(A, V, M) ==
  \A w \in V :
    /\ \E m \in Accepts(M) : m.inst = w.inst /\ From(m) = w.ballot /\ m.value = w.value
    /\ w.inst <= A[w.node].inst
    /\ AtLeast(A[w.node].promise, w.ballot)
    /\ w.inst = A[w.node].inst => AtLeast(A[w.node].ballot, w.ballot)

\* Somebody voted for the value v of instance i under ballot b.
VotedFor(V, i, b, v) == \E w \in V : w.inst = i /\ w.ballot = b /\ w.value = v

\* What an acceptor holds somebody voted for, itself or whom it learned it from.
BallotsOK(A, V) ==
  \A n \in Nodes :
    /\ AtLeast(A[n].promise, A[n].ballot)
    /\ A[n].ballot # Null => VotedFor(V, A[n].inst, A[n].ballot, A[n].value)

\* The votes of k for ballots below b.
LowVotes(V, k, b) == {w \in V : w.node = k /\ ~ AtLeast(w.ballot, b)}

\* The acceptor k has promised b when it was in instance i and had voted for
\* no ballot below b there, but for such as are at most c.
HasPromised(A, V, k, i, b, c) ==
  /\ AtLeast(A[k].promise, b)
  /\ \A w \in LowVotes(V, k, b) : w.inst <= i /\ (w.inst = i => AtLeast(c, w.ballot))

PromisesOK(A, V, M) ==
  \A r \in M : r.type = "PrepareReply" /\ r.reject = 0 =>
    /\ HasPromised(A, V, r.from, r.inst, <<r.id, r.to>>, r.pre)
    /\ AtLeast(<<r.id, r.to>>, r.pre)
    /\ r.pre # Null => VotedFor(V, r.inst, r.pre, r.value)

PreparingOK(A, P, V) ==
  \A n \in Nodes : P[n].phase = "prepare" =>
    /\ \A k \in P[n].grants : HasPromised(A, V, k, A[n].inst, <<P[n].id, n>>, P[n].pre)
    /\ P[n].pre # Null => VotedFor(V, A[n].inst, P[n].pre, P[n].value)

\* What lets a proposer skip the prepare phase: a majority has promised its
\* ballot, and below it has voted in no later instance, nor in this one
\* before the proposer sends its value.
SkipOK(A, P, V, M) ==
  \A n \in Nodes : P[n].skip =>
    \E Q \in SUBSET Nodes : Majority(Q) /\
      \A k \in Q :
        /\ AtLeast(A[k].promise, <<P[n].id, n>>)
        /\ \A w \in LowVotes(V, k, <<P[n].id, n>>) :
             w.inst <= A[n].inst /\ (w.inst = A[n].inst => Sent(M, n, A[n].inst, P[n].id))

GrantsOK(A, P, V, M) ==
  \A n \in Nodes : P[n].phase = "accept" =>
    /\ Sent(M, n, A[n].inst, P[n].id)
    /\ \A k \in P[n].grants : Vote4(k, A[n].inst, <<P[n].id, n>>, P[n].value) \in V

RepliesOK(V, M) ==
  \A r \in M : r.type = "AcceptReply" /\ r.reject = 0 =>
    \E w \in V : w.node = r.from /\ w.inst = r.inst /\ w.ballot = <<r.id, r.to>>

Voters(V, i, b, v) == {n \in Nodes : Vote4(n, i, b, v) \in V}

SuccessOK(V, M) ==
  \A m \in M : m.type = "Success" => \E v \in Values : Majority(Voters(V, m.inst, From(m), v))

SafetyOK(A, P, V, M) ==
  /\ AcceptsOK(A, P, V, M) /\ ValuesOK(A, P, M) /\ OneValue(M)
  /\ VotesOK(A, V, M) /\ BallotsOK(A, V)
  /\ PromisesOK(A, V, M) /\ PreparingOK(A, P, V) /\ SkipOK(A, P, V, M)
  /\ GrantsOK(A, P, V, M) /\ RepliesOK(V, M) /\ SuccessOK(V, M)

Core(A, P, V, M) == TypesOK(A, P, V, M) /\ (Calm => SafetyOK(A, P, V, M))

\* The record of an acceptor's instance is its state; those of earlier
\* instances are what was executed, and there are no later ones.
RecordsOK(a, l, e) ==
  /\ l[a.inst] = Record(a) \/ (l[a.inst] = NoRecord /\ a.ballot = Null /\ a.value = NoValue)
  /\ \A i \in Instances :
       /\ i > a.inst => l[i] = NoRecord
       /\ i < a.inst => l[i].value \in Values /\ <<i, l[i].value>> \in e

Rec(A, L, E) ==
  /\ L \in [Nodes -> [Instances -> Records]]
  /\ E \subseteq (0 .. LastInstance) \X Values
  /\ \A n \in Nodes : RecordsOK(A[n], L[n], E)

CountersOK ==
  busy \in [Nodes -> BOOLEAN] /\ timeouts \in 0 .. MaxTimeouts /\ restarts \in 0 .. MaxRestarts

PBase ==
  /\ Core(acc, prop, votes, msgs) /\ Rec(acc, log, executed) /\ CountersOK
  /\ mishaps \subseteq {"reused", "misheard", "forgot"}

\* The acceptor of a proposer has promised what the proposer sent, and while the
\* ballot of the round is its promise, it has accepted what was sent under it.
OwnOK(A, P, M) ==
  \A m \in Accepts(M) :
    /\ AtLeast(A[m.from].promise, From(m))
    /\ m.inst = A[m.from].inst /\ m.id = P[m.from].id /\ A[m.from].promise = From(m)
       => A[m.from].ballot = From(m)

\* The record d of an instance that acceptor n, with votes V, is past: somebody
\* voted for what it holds, and n voted for no higher ballot, unless its promise
\* was lowered to the ballot by LearnValue.
DiskFits(V, n, i, d) ==
  /\ AtLeast(d.promise, d.ballot)
  /\ VotedFor(V, i, d.ballot, d.value)
  /\ d.promise = d.ballot \/ \A w \in V : w.node = n /\ w.inst = i => AtLeast(d.ballot, w.ballot)

DiskOK(A, V, L) ==
  \A n \in Nodes : \A i \in Instances : i < A[n].inst => DiskFits(V, n, i, L[n][i])

KeptOK == OwnOK(acc, prop, msgs) /\ DiskOK(acc, votes, log)

PInv == PBase /\ (Calm => KeptOK)

------------------------------------------------------------------------------
(***************************************************************************)
(* Ballots are totally ordered.                                            *)
(***************************************************************************)
LEMMA BallotsArePairs == \A b \in Ballots : b = <<b[1], b[2]>> /\ b[1] \in Nat /\ b[2] \in Nat
<1>1. MaxId \in Nat /\ {0} \cup Nodes \subseteq Nat
  BY NodesAssumption, BoundsAssumption
<1> SUFFICES ASSUME NEW b \in (0 .. MaxId) \X ({0} \cup Nodes)
             PROVE  b = <<b[1], b[2]>> /\ b[1] \in Nat /\ b[2] \in Nat
  BY DEF Ballots
<1>2. b = <<b[1], b[2]>> /\ b[1] \in 0 .. MaxId /\ b[2] \in {0} \cup Nodes
  OBVIOUS
<1>. QED  BY <1>1, <1>2

LEMMA AboveIsNotAtMost ==
  ASSUME NEW a \in Ballots, NEW b \in Ballots
  PROVE  Above(a, b) <=> ~ AtLeast(b, a)
BY BallotsArePairs DEF Above, AtLeast

LEMMA AtLeastIsTotal ==
  ASSUME NEW a \in Ballots, NEW b \in Ballots
  PROVE  /\ AtLeast(a, b) \/ AtLeast(b, a)
         /\ AtLeast(a, b) /\ AtLeast(b, a) => a = b
         /\ AtLeast(a, a)
BY BallotsArePairs DEF AtLeast

LEMMA AtLeastIsTransitive ==
  ASSUME NEW a \in Ballots, NEW b \in Ballots, NEW c \in Ballots,
         AtLeast(a, b), AtLeast(b, c)
  PROVE  AtLeast(a, c)
BY BallotsArePairs DEF AtLeast

LEMMA NullIsLeast ==
  /\ Null \in Ballots
  /\ \A b \in Ballots : AtLeast(b, Null)
BY BallotsArePairs, BoundsAssumption DEF Ballots, AtLeast, Null

\* The ballot of a node's round.
LEMMA RoundBallot ==
  ASSUME NEW id \in 1 .. MaxId, NEW n \in Nodes
  PROVE  <<id, n>> \in Ballots /\ <<id, n>> # Null
BY BoundsAssumption DEF Ballots, Null

------------------------------------------------------------------------------
(***************************************************************************)
(* Majorities meet.                                                        *)
(***************************************************************************)
LEMMA NodesFinite == IsFiniteSet(Nodes) /\ Cardinality(Nodes) \in Nat
BY NodesAssumption, FS_CardinalityType

LEMMA MajoritiesMeet ==
  ASSUME NEW Q \in SUBSET Nodes, NEW R \in SUBSET Nodes, Majority(Q), Majority(R)
  PROVE  \E k \in Nodes : k \in Q /\ k \in R
<1>1. /\ Cardinality(Q) \in Nat /\ Cardinality(R) \in Nat
      /\ Cardinality(Q) + Cardinality(R) > Cardinality(Nodes)
  BY NodesFinite, FS_Subset, FS_CardinalityType DEF Majority
<1>2. Q \cap R # {}
  BY <1>1, NodesFinite, FS_MajoritiesIntersect
<1>. QED  BY <1>2

LEMMA MajorityGrows ==
  ASSUME NEW Q \in SUBSET Nodes, NEW R \in SUBSET Nodes, Majority(Q), Q \subseteq R
  PROVE  Majority(R)
<1>1. /\ Cardinality(Q) \in Nat /\ Cardinality(R) \in Nat /\ Cardinality(Q) <= Cardinality(R)
  BY NodesFinite, FS_Subset, FS_CardinalityType
<1>. QED  BY <1>1, NodesFinite DEF Majority

LEMMA MajorityHasMember ==
  ASSUME NEW Q \in SUBSET Nodes, Majority(Q)
  PROVE  \E k \in Nodes : k \in Q
BY MajoritiesMeet

------------------------------------------------------------------------------
(***************************************************************************)
(* The acceptor's steps, field by field.                                   *)
(***************************************************************************)
LEMMA PromisedIs ==
  ASSUME NEW a \in Acceptors, NEW b \in Ballots
  PROVE  /\ Promised(a, b) \in Acceptors
         /\ Promised(a, b).inst = a.inst
         /\ Promised(a, b).ballot = a.ballot
         /\ Promised(a, b).value = a.value
         /\ AtLeast(Promised(a, b).promise, a.promise)
         /\ AtLeast(b, a.promise) => Promised(a, b).promise = b
<1>1. a.promise \in Ballots
  BY DEF Acceptors
<1>2. AtLeast(a.promise, a.promise)
  BY <1>1, AtLeastIsTotal
<1>. QED  BY <1>2 DEF Promised, Acceptors

LEMMA AcceptedIs ==
  ASSUME NEW a \in Acceptors, NEW b \in Ballots, NEW v \in Values, AtLeast(b, a.promise)
  PROVE  /\ Accepted(a, b, v) \in Acceptors
         /\ Accepted(a, b, v).inst = a.inst
         /\ Accepted(a, b, v).ballot = b
         /\ Accepted(a, b, v).value = v
         /\ Accepted(a, b, v).promise = b
BY DEF Accepted, Acceptors, Contents

LEMMA NextIs ==
  ASSUME NEW a \in Acceptors, a.inst <= LastInstance
  PROVE  /\ NextInstance(a) \in Acceptors
         /\ NextInstance(a).inst = a.inst + 1
         /\ NextInstance(a).ballot = Null
         /\ NextInstance(a).value = NoValue
         /\ NextInstance(a).promise = a.promise
<1>1. a.inst + 1 \in Instances
  BY BoundsAssumption DEF Acceptors, Instances
<1>. QED  BY <1>1, NullIsLeast DEF NextInstance, Acceptors, Contents

LEMMA RejectIdOf ==
  ASSUME NEW a \in Acceptors, NEW id \in 1 .. MaxId, NEW k \in Nodes
  PROVE  /\ RejectId(a, <<id, k>>) \in 0 .. MaxId
         /\ RejectId(a, <<id, k>>) = 0 <=> AtLeast(<<id, k>>, a.promise)
<1>1. a.promise \in Ballots /\ MaxId \in Nat
  BY BoundsAssumption DEF Acceptors
<1>2. a.promise[1] \in 0 .. MaxId
  BY <1>1 DEF Ballots
<1>3. ~ AtLeast(<<id, k>>, a.promise) => a.promise[1] >= id
  BY <1>1, <1>2 DEF AtLeast
<1>. QED  BY <1>1, <1>2, <1>3 DEF RejectId

LEMMA MaxOfIs ==
  ASSUME NEW i \in Nat, NEW j \in Nat
  PROVE  MaxOf(i, j) \in Nat /\ MaxOf(i, j) >= i /\ MaxOf(i, j) >= j /\ MaxOf(i, j) \in {i, j}
BY DEF MaxOf

------------------------------------------------------------------------------
(***************************************************************************)
(* What the past promises is kept when acceptors only raise their promises *)
(* and vote for ballots that are at least what they had promised.          *)
(***************************************************************************)
PastKept(A, V, A1, V1) ==
  /\ A \in [Nodes -> Acceptors] /\ A1 \in [Nodes -> Acceptors]
  /\ V \subseteq V1 /\ V1 \subseteq Voted
  /\ \A k \in Nodes : AtLeast(A1[k].promise, A[k].promise)
  /\ \A w \in V1 : w \in V \/ AtLeast(w.ballot, A[w.node].promise)

LEMMA PromiseTypes ==
  ASSUME NEW A, A \in [Nodes -> Acceptors], NEW k \in Nodes
  PROVE  A[k].promise \in Ballots /\ A[k].ballot \in Ballots
BY DEF Acceptors

LEMMA VoteTypes ==
  ASSUME NEW V, V \subseteq Voted, NEW w \in V
  PROVE  w.node \in Nodes /\ w.inst \in Instances /\ w.ballot \in Ballots /\ w.value \in Values
BY DEF Voted

LEMMA LowVotesStay ==
  ASSUME NEW A, NEW V, NEW A1, NEW V1, PastKept(A, V, A1, V1),
         NEW k \in Nodes, NEW b \in Ballots, AtLeast(A[k].promise, b)
  PROVE  AtLeast(A1[k].promise, b) /\ LowVotes(V1, k, b) = LowVotes(V, k, b)
<1>1. A[k].promise \in Ballots /\ A1[k].promise \in Ballots
  BY PromiseTypes DEF PastKept
<1>2. AtLeast(A1[k].promise, b)
  BY <1>1, AtLeastIsTransitive DEF PastKept
<1>3. ASSUME NEW w \in V1, w.node = k, ~ AtLeast(w.ballot, b)
      PROVE  w \in V
  <2>1. w.ballot \in Ballots
    BY VoteTypes DEF PastKept
  <2>2. ~ AtLeast(w.ballot, A[k].promise)
    BY <1>1, <1>3, <2>1, AtLeastIsTransitive
  <2>. QED  BY <1>3, <2>2 DEF PastKept
<1>4. V \subseteq V1
  BY DEF PastKept
<1>. QED  BY <1>2, <1>3, <1>4 DEF LowVotes

LEMMA PromiseStays ==
  ASSUME NEW A, NEW V, NEW A1, NEW V1, PastKept(A, V, A1, V1),
         NEW k \in Nodes, NEW b \in Ballots, NEW i, NEW c, HasPromised(A, V, k, i, b, c)
  PROVE  HasPromised(A1, V1, k, i, b, c)
BY LowVotesStay DEF HasPromised

LEMMA SafeStays ==
  ASSUME NEW A, NEW V, NEW A1, NEW V1, PastKept(A, V, A1, V1),
         NEW i, NEW b, NEW v, SafeAt(A, V, i, b, v)
  PROVE  SafeAt(A1, V1, i, b, v)
<1> SUFFICES ASSUME NEW c \in Ballots, Above(b, c)
             PROVE  \E Q \in SUBSET Nodes : Majority(Q) /\
                      \A k \in Q : /\ Above(A1[k].promise, c)
                                   /\ \A w \in V1 : w.node = k /\ w.inst = i /\ w.ballot = c => w.value = v
  BY DEF SafeAt
<1>1. PICK Q \in SUBSET Nodes : Majority(Q) /\
         \A k \in Q : /\ Above(A[k].promise, c)
                      /\ \A w \in V : w.node = k /\ w.inst = i /\ w.ballot = c => w.value = v
  BY DEF SafeAt
<1>2. ASSUME NEW k \in Q
      PROVE  /\ Above(A1[k].promise, c)
             /\ \A w \in V1 : w.node = k /\ w.inst = i /\ w.ballot = c => w.value = v
  <2>1. A[k].promise \in Ballots /\ A1[k].promise \in Ballots
    BY <1>2, PromiseTypes DEF PastKept
  <2>2. ~ AtLeast(c, A[k].promise) /\ AtLeast(A1[k].promise, A[k].promise)
    BY <1>1, <1>2, <2>1, AboveIsNotAtMost DEF PastKept
  <2>3. Above(A1[k].promise, c)
    BY <2>1, <2>2, AboveIsNotAtMost, AtLeastIsTransitive
  <2>4. \A w \in V1 : w.node = k /\ w.ballot = c => w \in V
    BY <2>2 DEF PastKept
  <2>. QED  BY <1>1, <1>2, <2>3, <2>4
<1>. QED  BY <1>1, <1>2

------------------------------------------------------------------------------
(***************************************************************************)
(* Messages.                                                               *)
(***************************************************************************)
LEMMA MsgTypes ==
  ASSUME NEW m \in Messages
  PROVE  /\ m.from \in Nodes /\ m.inst \in Instances /\ m.id \in 1 .. MaxId
         /\ m.type = "Accept" => m.value \in Values
         /\ m.type = "PrepareReply" =>
              m.to \in Nodes /\ m.reject \in 0 .. MaxId /\ m.pre \in Ballots /\ m.value \in Contents
         /\ m.type = "AcceptReply" => m.to \in Nodes /\ m.reject \in 0 .. MaxId
BY DEF Messages

LEMMA PrepareReplyIs ==
  ASSUME NEW a \in Acceptors, a.ballot # Null => a.value \in Values,
         NEW n \in Nodes, NEW from \in Nodes, NEW id \in 1 .. MaxId
  PROVE  LET r == PrepareReply(a, n, <<id, from>>)
         IN  /\ r \in Messages
             /\ r.type = "PrepareReply" /\ r.inst = a.inst /\ r.from = n /\ r.to = from /\ r.id = id
             /\ r.reject = RejectId(a, <<id, from>>)
             /\ r.reject = 0 => r.pre = a.ballot /\ r.value = a.value
             /\ r.pre # Null => r.value \in Values
<1> DEFINE b == <<id, from>>
           rej == RejectId(a, b)
           pre == IF rej = 0 THEN a.ballot ELSE Null
           val == IF rej = 0 THEN a.value ELSE NoValue
<1>1. rej \in 0 .. MaxId /\ pre \in Ballots /\ val \in Contents /\ a.inst \in Instances
  BY RejectIdOf, NullIsLeast DEF Acceptors, Contents
<1>2. pre # Null => val \in Values
  OBVIOUS
<1>3. b[1] = id /\ b[2] = from
  OBVIOUS
<1>4. PrepareReply(a, n, b) =
        [type |-> "PrepareReply", inst |-> a.inst, from |-> n, to |-> from, id |-> id,
         reject |-> rej, pre |-> pre, value |-> val]
  BY <1>3 DEF PrepareReply
<1> HIDE DEF rej, pre, val
<1>5. PrepareReply(a, n, b) \in Messages
  BY <1>1, <1>4 DEF Messages
<1>. QED  BY <1>2, <1>4, <1>5 DEF rej, pre, val

LEMMA AcceptReplyIs ==
  ASSUME NEW a \in Acceptors, NEW n \in Nodes, NEW from \in Nodes, NEW id \in 1 .. MaxId
  PROVE  LET r == AcceptReply(a, n, <<id, from>>)
         IN  /\ r \in Messages
             /\ r.type = "AcceptReply" /\ r.inst = a.inst /\ r.from = n /\ r.to = from /\ r.id = id
             /\ r.reject = RejectId(a, <<id, from>>)
<1> DEFINE b == <<id, from>>
           rej == RejectId(a, b)
<1>1. rej \in 0 .. MaxId /\ a.inst \in Instances
  BY RejectIdOf DEF Acceptors
<1>3. b[1] = id /\ b[2] = from
  OBVIOUS
<1>4. AcceptReply(a, n, b) =
        [type |-> "AcceptReply", inst |-> a.inst, from |-> n, to |-> from, id |-> id, reject |-> rej]
  BY <1>3 DEF AcceptReply
<1> HIDE DEF rej
<1>5. AcceptReply(a, n, b) \in Messages
  BY <1>1, <1>4 DEF Messages
<1>. QED  BY <1>4, <1>5 DEF rej

\* Of an acceptor that other steps leave alone, and of the one that steps.
LEMMA UpdateIs ==
  ASSUME NEW S, NEW T, NEW f \in [S -> T], NEW n \in S, NEW x
  PROVE  /\ [f EXCEPT ![n] = x][n] = x
         /\ \A k \in S : k # n => [f EXCEPT ![n] = x][k] = f[k]
         /\ x \in T => [f EXCEPT ![n] = x] \in [S -> T]
OBVIOUS

------------------------------------------------------------------------------
(***************************************************************************)
(* What each part of SafetyOK needs of a step to be kept.                  *)
(***************************************************************************)
LEMMA ProposerTypes ==
  ASSUME NEW A, NEW P, NEW V, NEW M, TypesOK(A, P, V, M), NEW k \in Nodes
  PROVE  /\ P[k] \in Proposers
         /\ P[k].id \in Nat /\ P[k].other \in 0 .. MaxId /\ P[k].grants \subseteq Nodes
         /\ P[k].pre \in Ballots /\ P[k].value \in Contents
         /\ P[k].phase # "idle" \/ P[k].skip => P[k].id \in 1 .. MaxId /\ <<P[k].id, k>> \in Ballots
<1>1. P[k] \in Proposers
  BY DEF TypesOK
<1>2. P[k].phase # "idle" \/ P[k].skip => P[k].id <= MaxId
  BY DEF TypesOK
<1>3. P[k].id \in 1 .. MaxId + 1 /\ P[k].other \in 0 .. MaxId /\ P[k].grants \subseteq Nodes
      /\ P[k].pre \in Ballots /\ P[k].value \in Contents
  BY <1>1 DEF Proposers
<1>4. P[k].phase # "idle" \/ P[k].skip => P[k].id \in 1 .. MaxId
  BY <1>2, <1>3, BoundsAssumption
<1>. QED  BY <1>1, <1>3, <1>4, RoundBallot, BoundsAssumption

LEMMA AcceptorTypes ==
  ASSUME NEW A, NEW P, NEW V, NEW M, TypesOK(A, P, V, M), NEW k \in Nodes
  PROVE  /\ A[k] \in Acceptors /\ A[k].inst \in Nat
         /\ A[k].promise \in Ballots /\ A[k].ballot \in Ballots
BY BoundsAssumption DEF TypesOK, Acceptors, Instances

LEMMA AcceptTypes ==
  ASSUME NEW M, M \subseteq Messages, NEW m \in Accepts(M)
  PROVE  /\ m \in M /\ m.from \in Nodes /\ m.inst \in Nat /\ m.id \in 1 .. MaxId
         /\ m.value \in Values /\ From(m) \in Ballots /\ From(m) # Null
<1>1. m \in Messages /\ m.type = "Accept"
  BY DEF Accepts
<1>. QED  BY <1>1, MsgTypes, RoundBallot, BoundsAssumption DEF Accepts, From, Instances

\* Nodes go on, or start again under ids that they have not used.
LEMMA AcceptsStay ==
  ASSUME NEW A, NEW P, NEW V, NEW M, TypesOK(A, P, V, M), AcceptsOK(A, P, V, M),
         NEW A1, NEW P1, NEW V1, NEW M1, TypesOK(A1, P1, V1, M1),
         PastKept(A, V, A1, V1), Accepts(M1) = Accepts(M),
         \A k \in Nodes :
           \/ A1[k].inst >= A[k].inst /\ P1[k].id >= P[k].id
           \/ \A m \in Accepts(M) : m.from = k => m.id < P1[k].id
  PROVE  AcceptsOK(A1, P1, V1, M1)
<1> SUFFICES ASSUME NEW m \in Accepts(M)
    PROVE  /\ m.id <= P1[m.from].id
           /\ m.id = P1[m.from].id => m.inst <= A1[m.from].inst
           /\ SafeAt(A1, V1, m.inst, From(m), m.value)
  BY DEF AcceptsOK
<1> DEFINE k == m.from
<1>1. k \in Nodes /\ m.inst \in Nat /\ m.id \in Nat
  BY AcceptTypes, BoundsAssumption DEF TypesOK
<1>2. /\ A[k].inst \in Nat /\ A1[k].inst \in Nat /\ P[k].id \in Nat /\ P1[k].id \in Nat
  BY <1>1, AcceptorTypes, ProposerTypes
<1>3. /\ m.id <= P[k].id
      /\ m.id = P[k].id => m.inst <= A[k].inst
      /\ SafeAt(A, V, m.inst, From(m), m.value)
  BY DEF AcceptsOK
<1>4. SafeAt(A1, V1, m.inst, From(m), m.value)
  BY <1>3, SafeStays
<1>5. CASE A1[k].inst >= A[k].inst /\ P1[k].id >= P[k].id
  BY <1>1, <1>2, <1>3, <1>4, <1>5
<1>6. CASE m.id < P1[k].id
  BY <1>1, <1>2, <1>4, <1>6
<1>. QED  BY <1>1, <1>5, <1>6

\* A round that keeps its ballot and value, or moves on to another instance or
\* ballot, where nothing has been sent.
LEMMA ValuesStay ==
  ASSUME NEW A, NEW P, NEW V, NEW M, TypesOK(A, P, V, M),
         AcceptsOK(A, P, V, M), ValuesOK(A, P, M),
         NEW A1, NEW P1, NEW V1, NEW M1, TypesOK(A1, P1, V1, M1), Accepts(M1) = Accepts(M),
         NEW k \in Nodes, A1[k].inst >= A[k].inst, P1[k].id >= P[k].id,
         A1[k].inst = A[k].inst /\ P1[k].id = P[k].id =>
           /\ P1[k].value = P[k].value
           /\ P1[k].phase = "prepare" => P[k].phase = "prepare" /\ P1[k].pre = P[k].pre
  PROVE  FitsAccepts(A1, M1, k, P1[k])
<1> SUFFICES ASSUME NEW m \in Accepts(M), m.from = k, m.inst = A1[k].inst, m.id = P1[k].id
             PROVE  /\ m.value = P1[k].value
                    /\ P1[k].phase = "prepare" => P1[k].pre = From(m)
  BY DEF FitsAccepts
<1>1. /\ A[k].inst \in Nat /\ A1[k].inst \in Nat /\ P[k].id \in Nat /\ P1[k].id \in Nat
      /\ m.inst \in Nat /\ m.id \in Nat
  <2>1. M1 \subseteq Messages /\ m \in Accepts(M1)
    BY DEF TypesOK
  <2>2. m.inst \in Nat /\ m.id \in Nat
    BY <2>1, AcceptTypes, BoundsAssumption
  <2>3. A[k].inst \in Nat /\ P[k].id \in Nat
    BY AcceptorTypes, ProposerTypes
  <2>4. A1[k].inst \in Nat /\ P1[k].id \in Nat
    BY AcceptorTypes, ProposerTypes
  <2>. QED  BY <2>2, <2>3, <2>4
<1>2. m.id <= P[k].id /\ (m.id = P[k].id => m.inst <= A[k].inst)
  <2>1. m.id <= P[m.from].id /\ (m.id = P[m.from].id => m.inst <= A[m.from].inst)
    BY DEF AcceptsOK
  <2>. QED  BY <2>1
<1>3. A1[k].inst = A[k].inst /\ P1[k].id = P[k].id
  <2>1. m.inst = A1[k].inst /\ m.id = P1[k].id
    OBVIOUS
  <2>. QED  BY <1>1, <1>2, <2>1
<1>4. m.value = P[k].value /\ (P[k].phase = "prepare" => P[k].pre = From(m))
  BY <1>3 DEF ValuesOK, FitsAccepts
<1>. QED  BY <1>3, <1>4

LEMMA VotesStay ==
  ASSUME NEW A, NEW P, NEW V, NEW M, TypesOK(A, P, V, M), VotesOK(A, V, M),
         NEW A1, NEW P1, NEW M1, TypesOK(A1, P1, V, M1),
         PastKept(A, V, A1, V), Accepts(M) \subseteq Accepts(M1),
         \A k \in Nodes :
           /\ A1[k].inst >= A[k].inst
           /\ A1[k].inst = A[k].inst => A1[k].ballot = A[k].ballot
  PROVE  VotesOK(A1, V, M1)
<1> SUFFICES ASSUME NEW w \in V
    PROVE  /\ \E m \in Accepts(M) : m.inst = w.inst /\ From(m) = w.ballot /\ m.value = w.value
           /\ w.inst <= A1[w.node].inst
           /\ AtLeast(A1[w.node].promise, w.ballot)
           /\ w.inst = A1[w.node].inst => AtLeast(A1[w.node].ballot, w.ballot)
  BY DEF VotesOK
<1>1. w.node \in Nodes /\ w.ballot \in Ballots /\ w.inst \in Nat
  BY VoteTypes, BoundsAssumption DEF TypesOK, Instances
<1>2. /\ A[w.node].inst \in Nat /\ A1[w.node].inst \in Nat
      /\ A[w.node].promise \in Ballots /\ A1[w.node].promise \in Ballots
  BY <1>1, AcceptorTypes
<1>3. /\ \E m \in Accepts(M) : m.inst = w.inst /\ From(m) = w.ballot /\ m.value = w.value
      /\ w.inst <= A[w.node].inst
      /\ AtLeast(A[w.node].promise, w.ballot)
      /\ w.inst = A[w.node].inst => AtLeast(A[w.node].ballot, w.ballot)
  BY DEF VotesOK
<1>4. AtLeast(A1[w.node].promise, w.ballot)
  BY <1>1, <1>2, <1>3, AtLeastIsTransitive DEF PastKept
<1>5. /\ A1[w.node].inst >= A[w.node].inst
      /\ A1[w.node].inst = A[w.node].inst => A1[w.node].ballot = A[w.node].ballot
  BY <1>1
<1>6. w.inst <= A1[w.node].inst
  BY <1>1, <1>2, <1>3, <1>5
<1>7. w.inst = A1[w.node].inst => w.inst = A[w.node].inst
  BY <1>1, <1>2, <1>3, <1>5
<1>. QED  BY <1>3, <1>4, <1>5, <1>6, <1>7

LEMMA PromisesStay ==
  ASSUME NEW A, NEW V, NEW M, M \subseteq Messages, PromisesOK(A, V, M),
         NEW A1, NEW V1, NEW M1, PastKept(A, V, A1, V1),
         \A r \in M1 : r.type = "PrepareReply" /\ r.reject = 0 => r \in M
  PROVE  PromisesOK(A1, V1, M1)
<1> SUFFICES ASSUME NEW r \in M, r.type = "PrepareReply", r.reject = 0
    PROVE  /\ HasPromised(A1, V1, r.from, r.inst, <<r.id, r.to>>, r.pre)
           /\ AtLeast(<<r.id, r.to>>, r.pre)
           /\ r.pre # Null => VotedFor(V1, r.inst, r.pre, r.value)
  BY DEF PromisesOK
<1>1. r.from \in Nodes /\ <<r.id, r.to>> \in Ballots
  BY MsgTypes, RoundBallot
<1>2. r.pre # Null => VotedFor(V1, r.inst, r.pre, r.value)
  BY DEF PromisesOK, PastKept, VotedFor
<1>. QED  BY <1>1, <1>2, PromiseStays DEF PromisesOK

LEMMA PreparingStays ==
  ASSUME NEW A, NEW P, NEW V, NEW M, TypesOK(A, P, V, M), PreparingOK(A, P, V),
         NEW A1, NEW P1, NEW V1, PastKept(A, V, A1, V1),
         NEW k \in Nodes, P[k].phase = "prepare",
         A1[k].inst = A[k].inst, P1[k].id = P[k].id, P1[k].grants = P[k].grants,
         P1[k].pre = P[k].pre, P1[k].value = P[k].value
  PROVE  /\ \A g \in P1[k].grants : HasPromised(A1, V1, g, A1[k].inst, <<P1[k].id, k>>, P1[k].pre)
         /\ P1[k].pre # Null => VotedFor(V1, A1[k].inst, P1[k].pre, P1[k].value)
<1>1. P[k].grants \subseteq Nodes /\ <<P[k].id, k>> \in Ballots
  BY ProposerTypes
<1>2. \A g \in P[k].grants : HasPromised(A1, V1, g, A[k].inst, <<P[k].id, k>>, P[k].pre)
  BY <1>1, PromiseStays DEF PreparingOK
<1>3. P[k].pre # Null => VotedFor(V1, A[k].inst, P[k].pre, P[k].value)
  BY DEF PreparingOK, PastKept, VotedFor
<1>. QED  BY <1>2, <1>3

\* What SkipOK says of node k.
SkipFor(A, P, V, M, k) ==
  \E Q \in SUBSET Nodes : Majority(Q) /\
    \A g \in Q :
      /\ AtLeast(A[g].promise, <<P[k].id, k>>)
      /\ \A w \in LowVotes(V, g, <<P[k].id, k>>) :
           w.inst <= A[k].inst /\ (w.inst = A[k].inst => Sent(M, k, A[k].inst, P[k].id))

LEMMA SkipIsFor ==
  \A A, P, V, M : SkipOK(A, P, V, M) <=> \A k \in Nodes : P[k].skip => SkipFor(A, P, V, M, k)
BY DEF SkipOK, SkipFor

LEMMA SkipStays ==
  ASSUME NEW A, NEW P, NEW V, NEW M, TypesOK(A, P, V, M), SkipOK(A, P, V, M),
         NEW A1, NEW P1, NEW V1, NEW M1, PastKept(A, V, A1, V1), Accepts(M) \subseteq Accepts(M1),
         NEW k \in Nodes, P[k].skip, P1[k].id = P[k].id,
         A1[k].inst \in Nat, A1[k].inst >= A[k].inst
  PROVE  SkipFor(A1, P1, V1, M1, k)
<1>1. PICK Q \in SUBSET Nodes : Majority(Q) /\
         \A g \in Q :
           /\ AtLeast(A[g].promise, <<P[k].id, k>>)
           /\ \A w \in LowVotes(V, g, <<P[k].id, k>>) :
                w.inst <= A[k].inst /\ (w.inst = A[k].inst => Sent(M, k, A[k].inst, P[k].id))
  BY DEF SkipOK
<1>2. <<P[k].id, k>> \in Ballots
  BY ProposerTypes
<1>3. ASSUME NEW g \in Q
      PROVE  /\ AtLeast(A1[g].promise, <<P[k].id, k>>)
             /\ LowVotes(V1, g, <<P[k].id, k>>) = LowVotes(V, g, <<P[k].id, k>>)
  BY <1>1, <1>2, LowVotesStay
<1>4. Sent(M, k, A[k].inst, P[k].id) => Sent(M1, k, A[k].inst, P[k].id)
  BY DEF Sent
<1>5. ASSUME NEW g \in Q, NEW w \in LowVotes(V, g, <<P[k].id, k>>)
      PROVE  w.inst <= A1[k].inst /\ (w.inst = A1[k].inst => Sent(M1, k, A1[k].inst, P[k].id))
  <2>1. w.inst \in Nat /\ A[k].inst \in Nat
    <3>1. w \in Voted /\ Instances \subseteq Nat
      BY BoundsAssumption DEF TypesOK, LowVotes, Instances
    <3>. QED  BY <3>1, AcceptorTypes DEF Voted
  <2>2. w.inst <= A[k].inst /\ (w.inst = A[k].inst => Sent(M, k, A[k].inst, P[k].id))
    BY <1>1
  <2>3. w.inst <= A1[k].inst
    BY <2>1, <2>2
  <2>4. w.inst = A1[k].inst => w.inst = A[k].inst /\ A1[k].inst = A[k].inst
    BY <2>1, <2>2
  <2>. QED  BY <1>4, <2>2, <2>3, <2>4
<1>. QED  BY <1>1, <1>3, <1>5 DEF SkipFor

LEMMA GrantsStay ==
  ASSUME NEW A, NEW P, NEW V, NEW M, GrantsOK(A, P, V, M),
         NEW A1, NEW P1, NEW V1, NEW M1, V \subseteq V1, Accepts(M) \subseteq Accepts(M1),
         NEW k \in Nodes, P[k].phase = "accept",
         A1[k].inst = A[k].inst, P1[k].id = P[k].id, P1[k].grants \subseteq P[k].grants,
         P1[k].value = P[k].value
  PROVE  /\ Sent(M1, k, A1[k].inst, P1[k].id)
         /\ \A g \in P1[k].grants : Vote4(g, A1[k].inst, <<P1[k].id, k>>, P1[k].value) \in V1
<1>1. Sent(M, k, A[k].inst, P[k].id) => Sent(M1, k, A[k].inst, P[k].id)
  BY DEF Sent
<1>. QED  BY <1>1 DEF GrantsOK

LEMMA SuccessStays ==
  ASSUME NEW V, NEW M, SuccessOK(V, M), NEW V1, NEW M1, V \subseteq V1,
         \A m \in M1 : m.type = "Success" => m \in M
  PROVE  SuccessOK(V1, M1)
<1> SUFFICES ASSUME NEW m \in M, m.type = "Success"
    PROVE  \E v \in Values : Majority(Voters(V1, m.inst, From(m), v))
  BY DEF SuccessOK
<1>1. PICK v \in Values : Majority(Voters(V, m.inst, From(m), v))
  BY DEF SuccessOK
<1>2. Voters(V, m.inst, From(m), v) \subseteq Voters(V1, m.inst, From(m), v)
  BY DEF Voters
<1>3. Majority(Voters(V1, m.inst, From(m), v))
  BY <1>1, <1>2, MajorityGrows DEF Voters
<1>. QED  BY <1>3

------------------------------------------------------------------------------
(***************************************************************************)
(* Acceptor::OnPrepare: the promise, and the answer that tells it.         *)
(***************************************************************************)
LEMMA PromiseStep ==
  ASSUME NEW A, NEW P, NEW V, NEW M, Core(A, P, V, M),
         NEW n \in Nodes, NEW from \in Nodes, NEW id \in 1 .. MaxId
  PROVE  Core([A EXCEPT ![n] = Promised(A[n], <<id, from>>)], P, V,
              M \cup {PrepareReply(A[n], n, <<id, from>>)})
<1> DEFINE b == <<id, from>>
           a1 == Promised(A[n], b)
           A1 == [A EXCEPT ![n] = a1]
           r == PrepareReply(A[n], n, b)
           M1 == M \cup {r}
<1>0. TypesOK(A, P, V, M)
  BY DEF Core
<1>1. /\ A \in [Nodes -> Acceptors] /\ V \subseteq Voted /\ M \subseteq Messages
      /\ A[n] \in Acceptors /\ b \in Ballots
      /\ A[n].ballot # Null => A[n].value \in Values
  BY RoundBallot DEF Core, TypesOK
<1>2. /\ a1 \in Acceptors /\ a1.inst = A[n].inst /\ a1.ballot = A[n].ballot /\ a1.value = A[n].value
      /\ AtLeast(a1.promise, A[n].promise)
      /\ AtLeast(b, A[n].promise) => a1.promise = b
  BY <1>1, PromisedIs
<1>3. /\ r \in Messages
      /\ r.type = "PrepareReply" /\ r.inst = A[n].inst /\ r.from = n /\ r.to = from /\ r.id = id
      /\ r.reject = 0 => r.pre = A[n].ballot /\ r.value = A[n].value
      /\ r.pre # Null => r.value \in Values
      /\ r.reject = 0 <=> AtLeast(b, A[n].promise)
  BY <1>1, PrepareReplyIs, RejectIdOf
<1> HIDE DEF a1, r, b
<1>4. /\ A1 \in [Nodes -> Acceptors]
      /\ \A k \in Nodes : A1[k].inst = A[k].inst /\ A1[k].ballot = A[k].ballot /\ A1[k].value = A[k].value
      /\ \A k \in Nodes : AtLeast(A1[k].promise, A[k].promise)
      /\ A1[n].promise = a1.promise
  <2>1. ASSUME NEW k \in Nodes
        PROVE  /\ A1[k].inst = A[k].inst /\ A1[k].ballot = A[k].ballot /\ A1[k].value = A[k].value
               /\ AtLeast(A1[k].promise, A[k].promise)
    <3>1. CASE k = n  BY <1>1, <1>2, <3>1
    <3>2. CASE k # n
      BY <1>1, <3>2, PromiseTypes, AtLeastIsTotal
    <3>. QED  BY <3>1, <3>2
  <2>. QED  BY <1>1, <1>2, <2>1
<1>5. PastKept(A, V, A1, V)
  BY <1>1, <1>4 DEF PastKept
<1>6. Accepts(M1) = Accepts(M)
  BY <1>3 DEF Accepts
<1> HIDE DEF A1
<1>7. TypesOK(A1, P, V, M1)
  <2>1. M1 \subseteq Messages
    BY <1>1, <1>3
  <2>2. \A n1 \in Nodes :
       /\ A1[n1].ballot # Null => A1[n1].value \in Values
       /\ P[n1].phase # "idle" => P[n1].value # NoValue /\ A1[n1].inst <= LastInstance
       /\ P[n1].phase # "idle" \/ P[n1].skip => P[n1].id <= MaxId
    BY <1>4 DEF Core, TypesOK
  <2>3. \A m \in M1 :
       /\ m.type = "PrepareReply" /\ m.pre # Null => m.value \in Values
       /\ m.type = "Success" => m.inst <= LastInstance
    BY <1>3 DEF Core, TypesOK
  <2>4. P \in [Nodes -> Proposers] /\ V \subseteq Voted
    BY DEF Core, TypesOK
  <2> HIDE DEF M1
  <2>. QED  BY <1>4, <2>1, <2>2, <2>3, <2>4 DEF TypesOK
<1>8. ASSUME Calm
      PROVE  SafetyOK(A1, P, V, M1)
  <2>1. SafetyOK(A, P, V, M)
    BY <1>8 DEF Core
  <2>2. AcceptsOK(A1, P, V, M1)
    <3>1. ASSUME NEW k \in Nodes
          PROVE  A1[k].inst >= A[k].inst /\ P[k].id >= P[k].id
      <4>1. A[k].inst \in Nat /\ P[k].id \in Nat /\ A1[k].inst = A[k].inst
        BY <1>0, <1>4, AcceptorTypes, ProposerTypes
      <4>. QED  BY <4>1
    <3>. QED  BY <1>0, <1>5, <1>6, <1>7, <2>1, <3>1, AcceptsStay DEF SafetyOK
  <2>3. OneValue(M1)
    BY <1>6, <2>1 DEF SafetyOK, OneValue
  <2>3a. ValuesOK(A1, P, M1)
    BY <1>4, <1>6, <2>1 DEF SafetyOK, ValuesOK, FitsAccepts
  <2>4. VotesOK(A1, V, M1)
    <3>1. \A k \in Nodes : A1[k].inst >= A[k].inst
      BY <1>0, <1>4, AcceptorTypes
    <3>. QED  BY <1>0, <1>4, <1>5, <1>6, <1>7, <2>1, <3>1, VotesStay DEF SafetyOK
  <2>5. BallotsOK(A1, V)
    <3>1. ASSUME NEW k \in Nodes
          PROVE  AtLeast(A1[k].promise, A[k].ballot)
      BY <1>0, <1>4, <1>7, <2>1, AcceptorTypes, AtLeastIsTransitive DEF SafetyOK, BallotsOK
    <3>. QED  BY <1>4, <2>1, <3>1 DEF SafetyOK, BallotsOK
  <2>6. PromisesOK(A1, V, M1)
    <3>1. ASSUME r.reject = 0
          PROVE  /\ HasPromised(A1, V, n, A[n].inst, b, A[n].ballot)
                 /\ AtLeast(b, A[n].ballot)
                 /\ A[n].ballot # Null => VotedFor(V, A[n].inst, A[n].ballot, A[n].value)
      <4>1. AtLeast(A1[n].promise, b)
        BY <1>1, <1>2, <1>3, <1>4, <3>1, AtLeastIsTotal
      <4>2. \A w \in V : w.node = n =>
              w.inst <= A[n].inst /\ (w.inst = A[n].inst => AtLeast(A[n].ballot, w.ballot))
        BY <2>1 DEF SafetyOK, VotesOK
      <4>3. AtLeast(b, A[n].promise) /\ AtLeast(A[n].promise, A[n].ballot)
        BY <1>3, <2>1, <3>1 DEF SafetyOK, BallotsOK
      <4>4. AtLeast(b, A[n].ballot)
        BY <1>0, <1>1, <4>3, AcceptorTypes, AtLeastIsTransitive
      <4>. QED  BY <2>1, <4>1, <4>2, <4>4 DEF HasPromised, LowVotes, SafetyOK, BallotsOK
    <3>2. PromisesOK(A1, V, M)
      BY <1>1, <1>5, <2>1, PromisesStay DEF SafetyOK
    <3>. QED  BY <1>3, <3>1, <3>2 DEF PromisesOK, b
  <2>7. PreparingOK(A1, P, V)
    BY <1>0, <1>4, <1>5, <2>1, PreparingStays DEF SafetyOK, PreparingOK
  <2>8. SkipOK(A1, P, V, M1)
    <3>1. \A k \in Nodes : A1[k].inst \in Nat /\ A1[k].inst >= A[k].inst
      BY <1>0, <1>4, AcceptorTypes
    <3>. QED  BY <1>0, <1>5, <1>6, <2>1, <3>1, SkipStays, SkipIsFor DEF SafetyOK
  <2>9. GrantsOK(A1, P, V, M1)
    BY <1>4, <1>6, <2>1 DEF SafetyOK, GrantsOK, Sent
  <2>10. RepliesOK(V, M1)
    BY <1>3, <2>1 DEF SafetyOK, RepliesOK
  <2>11. SuccessOK(V, M1)
    BY <1>3, <2>1, SuccessStays DEF SafetyOK
  <2>. QED  BY <2>2, <2>3, <2>3a, <2>4, <2>5, <2>6, <2>7, <2>8, <2>9, <2>10, <2>11 DEF SafetyOK
<1>. QED  BY <1>7, <1>8 DEF Core, A1, a1, b, r

------------------------------------------------------------------------------
(***************************************************************************)
(* A proposer that changes its own state only.                             *)
(***************************************************************************)
\* What the types and the safety ask of the state p of proposer n.
FitsTypes(A, n, p) ==
  /\ p \in Proposers
  /\ p.phase # "idle" => p.value # NoValue /\ A[n].inst <= LastInstance
  /\ p.phase # "idle" \/ p.skip => p.id <= MaxId

FitsPreparing(A, V, n, p) ==
  p.phase = "prepare" =>
    /\ \A g \in p.grants : HasPromised(A, V, g, A[n].inst, <<p.id, n>>, p.pre)
    /\ p.pre # Null => VotedFor(V, A[n].inst, p.pre, p.value)

FitsGrants(A, V, M, n, p) ==
  p.phase = "accept" =>
    /\ Sent(M, n, A[n].inst, p.id)
    /\ \A g \in p.grants : Vote4(g, A[n].inst, <<p.id, n>>, p.value) \in V

\* The round of p1 is that of p or a later one, which it prepares.
FollowsOn(p, p1) ==
  /\ p1.id >= p.id
  /\ p1.skip => p.skip /\ p1.id = p.id

LEMMA NothingChanges ==
  ASSUME NEW A, NEW P, NEW V, NEW M, TypesOK(A, P, V, M)
  PROVE  PastKept(A, V, A, V)
<1>1. \A k \in Nodes : AtLeast(A[k].promise, A[k].promise)
  BY AcceptorTypes, AtLeastIsTotal
<1>. QED  BY <1>1 DEF PastKept, TypesOK

LEMMA ProposerMove ==
  ASSUME NEW A, NEW P, NEW V, NEW M, TypesOK(A, P, V, M), NEW n \in Nodes, NEW p1,
         FitsTypes(A, n, p1)
  PROVE  /\ TypesOK(A, [P EXCEPT ![n] = p1], V, M)
         /\ /\ SafetyOK(A, P, V, M) /\ FollowsOn(P[n], p1) /\ FitsAccepts(A, M, n, p1)
            /\ FitsPreparing(A, V, n, p1) /\ FitsGrants(A, V, M, n, p1)
            => SafetyOK(A, [P EXCEPT ![n] = p1], V, M)
<1> DEFINE P1 == [P EXCEPT ![n] = p1]
<1>0. TypesOK(A, P, V, M)
  OBVIOUS
<1>1. P1[n] = p1 /\ P1 \in [Nodes -> Proposers] /\ \A k \in Nodes : k # n => P1[k] = P[k]
  <2>1. P \in [Nodes -> Proposers] /\ p1 \in Proposers
    BY <1>0 DEF TypesOK, FitsTypes
  <2>. QED  BY <2>1
<1> HIDE DEF P1
<1>2. TypesOK(A, P1, V, M)
  <2>1. \A k \in Nodes :
       /\ A[k].ballot # Null => A[k].value \in Values
       /\ P1[k].phase # "idle" => P1[k].value # NoValue /\ A[k].inst <= LastInstance
       /\ P1[k].phase # "idle" \/ P1[k].skip => P1[k].id <= MaxId
    BY <1>0, <1>1 DEF TypesOK, FitsTypes
  <2>. QED  BY <1>0, <1>1, <2>1 DEF TypesOK
<1>3. PastKept(A, V, A, V)
  BY <1>0, NothingChanges
<1>4. ASSUME SafetyOK(A, P, V, M), FollowsOn(P[n], p1), FitsAccepts(A, M, n, p1),
             FitsPreparing(A, V, n, p1), FitsGrants(A, V, M, n, p1)
      PROVE  SafetyOK(A, P1, V, M)
  <2>1. /\ SafetyOK(A, P, V, M) /\ FollowsOn(P[n], p1) /\ FitsAccepts(A, M, n, p1)
        /\ FitsPreparing(A, V, n, p1) /\ FitsGrants(A, V, M, n, p1)
    BY <1>4
  <2>2. AcceptsOK(A, P1, V, M)
    <3>1. ASSUME NEW k \in Nodes
          PROVE  A[k].inst >= A[k].inst /\ P1[k].id >= P[k].id
      <4>1. A[k].inst \in Nat /\ P[k].id \in Nat
        BY <1>0, AcceptorTypes, ProposerTypes
      <4>2. CASE k = n  BY <1>1, <2>1, <4>1, <4>2 DEF FollowsOn
      <4>3. CASE k # n  BY <1>1, <4>1, <4>3
      <4>. QED  BY <4>2, <4>3
    <3>2. AcceptsOK(A, P, V, M)
      BY <2>1 DEF SafetyOK
    <3>. QED  BY <1>0, <1>2, <1>3, <3>1, <3>2, AcceptsStay
  <2>2a. ValuesOK(A, P1, M)
    BY <1>1, <2>1 DEF SafetyOK, ValuesOK
  <2>3. PreparingOK(A, P1, V)
    BY <1>1, <2>1 DEF SafetyOK, PreparingOK, FitsPreparing
  <2>4. SkipOK(A, P1, V, M)
    <3>1. SkipOK(A, P, V, M)
      BY <2>1 DEF SafetyOK
    <3>2. ASSUME NEW k \in Nodes, P1[k].skip
          PROVE  SkipFor(A, P1, V, M, k)
      <4>1. P[k].skip /\ P1[k].id = P[k].id
        BY <1>1, <2>1, <3>2 DEF FollowsOn
      <4>2. A[k].inst \in Nat /\ A[k].inst >= A[k].inst
        BY <1>0, AcceptorTypes
      <4>. QED  BY <1>0, <1>3, <3>1, <4>1, <4>2, SkipStays
    <3>. QED  BY <3>2, SkipIsFor
  <2>5. GrantsOK(A, P1, V, M)
    BY <1>1, <2>1 DEF SafetyOK, GrantsOK, FitsGrants
  <2>. QED  BY <2>1, <2>2, <2>2a, <2>3, <2>4, <2>5 DEF SafetyOK
<1>. QED  BY <1>2, <1>4 DEF P1

LEMMA ProposerStep ==
  ASSUME NEW A, NEW P, NEW V, NEW M, Core(A, P, V, M), NEW n \in Nodes, NEW p1,
         FitsTypes(A, n, p1),
         SafetyOK(A, P, V, M) =>
           /\ FollowsOn(P[n], p1) /\ FitsAccepts(A, M, n, p1)
           /\ FitsPreparing(A, V, n, p1) /\ FitsGrants(A, V, M, n, p1)
  PROVE  Core(A, [P EXCEPT ![n] = p1], V, M)
BY ProposerMove DEF Core

\* What of a round is left alone by a step that turns p into p1.
SameRound(p, p1) ==
  /\ p1.id = p.id /\ p1.skip = p.skip /\ p1.value = p.value
  /\ p1.phase \in {"idle", p.phase}
  /\ p1.pre = p.pre /\ p1.grants = p.grants

LEMMA SameRoundStep ==
  ASSUME NEW A, NEW P, NEW V, NEW M, Core(A, P, V, M), NEW n \in Nodes,
         NEW p1 \in Proposers, SameRound(P[n], p1)
  PROVE  Core(A, [P EXCEPT ![n] = p1], V, M)
<1>0. TypesOK(A, P, V, M)
  BY DEF Core
<1>1. FitsTypes(A, n, p1)
  BY <1>0 DEF TypesOK, FitsTypes, SameRound
<1>2. ASSUME SafetyOK(A, P, V, M)
      PROVE  /\ FollowsOn(P[n], p1) /\ FitsAccepts(A, M, n, p1)
             /\ FitsPreparing(A, V, n, p1) /\ FitsGrants(A, V, M, n, p1)
  <2>1. P[n].id \in Nat
    BY <1>0, ProposerTypes
  <2>2. FollowsOn(P[n], p1)
    BY <2>1 DEF FollowsOn, SameRound
  <2>3. FitsPreparing(A, V, n, p1)
    BY <1>2 DEF SafetyOK, PreparingOK, FitsPreparing, SameRound
  <2>4. FitsGrants(A, V, M, n, p1)
    BY <1>2 DEF SafetyOK, GrantsOK, FitsGrants, SameRound
  <2>5. FitsAccepts(A, M, n, p1)
    BY <1>2 DEF SafetyOK, ValuesOK, FitsAccepts, SameRound
  <2>. QED  BY <2>2, <2>3, <2>4, <2>5
<1>. QED  BY <1>1, <1>2, ProposerStep

\* ExitPrepare and ExitAccept.
LEMMA IdleStep ==
  ASSUME NEW A, NEW P, NEW V, NEW M, Core(A, P, V, M), NEW n \in Nodes
  PROVE  Core(A, [P EXCEPT ![n] = [P[n] EXCEPT !.phase = "idle"]], V, M)
<1> DEFINE p1 == [P[n] EXCEPT !.phase = "idle"]
<1>1. P[n] \in Proposers
  BY DEF Core, TypesOK
<1>2. p1 \in Proposers /\ SameRound(P[n], p1)
  BY <1>1 DEF Proposers, SameRound
<1>. QED  BY <1>2, SameRoundStep

LEMMA RejectedIs ==
  ASSUME NEW p \in Proposers, NEW id \in 0 .. MaxId
  PROVE  Rejected(p, id) \in Proposers /\ SameRound(p, Rejected(p, id))
<1> DEFINE o == MaxOf(p.other, id)
           p1 == [p EXCEPT !.rejected = TRUE]
           p2 == [p1 EXCEPT !.other = o]
<1>1. o \in 0 .. MaxId
  BY BoundsAssumption DEF Proposers, MaxOf
<1>2. p1 \in Proposers /\ SameRound(p, p1) /\ p1.other = p.other
  BY DEF Proposers, SameRound
<1>3. Rejected(p, id) = p2
  BY DEF Rejected, Proposers
<1> HIDE DEF p1, o
<1>4. p2 \in Proposers /\ SameRound(p, p2)
  BY <1>1, <1>2 DEF Proposers, SameRound
<1>. QED  BY <1>3, <1>4

LEMMA RejectedStep ==
  ASSUME NEW A, NEW P, NEW V, NEW M, Core(A, P, V, M), NEW n \in Nodes, NEW id \in 0 .. MaxId
  PROVE  Core(A, [P EXCEPT ![n] = Rejected(P[n], id)], V, M)
<1>1. P[n] \in Proposers
  BY DEF Core, TypesOK
<1>. QED  BY <1>1, RejectedIs, SameRoundStep

\* A value is set when there is none; the proposer is idle then.
LEMMA ProposingStep ==
  ASSUME NEW A, NEW P, NEW V, NEW M, Core(A, P, V, M), NEW n \in Nodes, NEW v \in Values
  PROVE  Core(A, [P EXCEPT ![n] = Proposing(P[n], v)], V, M)
<1> DEFINE p == P[n]
           p1 == Proposing(p, v)
<1>0. TypesOK(A, P, V, M) /\ p \in Proposers
  BY DEF Core, TypesOK
<1>1. CASE p.value # NoValue
  <2>1. p1 = p
    BY <1>0, <1>1 DEF Proposing, Proposers
  <2>2. SameRound(p, p)
    BY DEF SameRound
  <2>. QED  BY <1>0, <2>1, <2>2, SameRoundStep
<1>2. CASE p.value = NoValue
  <2>1. p.phase = "idle"
    BY <1>0, <1>2 DEF TypesOK
  <2>2. /\ p1 \in Proposers /\ p1.phase = p.phase /\ p1.id = p.id /\ p1.skip = p.skip
    BY <1>0, <1>2 DEF Proposing, Proposers, Contents
  <2>3. FitsTypes(A, n, p1)
    BY <1>0, <2>1, <2>2 DEF TypesOK, FitsTypes
  <2>4. FollowsOn(p, p1) /\ FitsPreparing(A, V, n, p1) /\ FitsGrants(A, V, M, n, p1)
    <3>1. p.id \in Nat
      BY <1>0, ProposerTypes
    <3>. QED  BY <1>2, <2>1, <2>2, <3>1 DEF FollowsOn, FitsPreparing, FitsGrants
  <2>5. ASSUME SafetyOK(A, P, V, M)
        PROVE  FitsAccepts(A, M, n, p1)
    <3>1. \A m \in Accepts(M) : m.value # NoValue
      BY <1>0, AcceptTypes, ValuesAssumption DEF TypesOK
    <3>2. FitsAccepts(A, M, n, p)
      BY <2>5 DEF SafetyOK, ValuesOK
    <3>. QED  BY <1>2, <2>1, <2>2, <3>1, <3>2 DEF FitsAccepts
  <2>. QED  BY <2>3, <2>4, <2>5, ProposerStep
<1>. QED  BY <1>1, <1>2

------------------------------------------------------------------------------
(***************************************************************************)
(* Proposer::Prepare: a new round, under a new id if the last one was      *)
(* rejected, under the same otherwise.                                     *)
(***************************************************************************)
LEMMA StartPrepareIs ==
  ASSUME NEW p \in Proposers, NewId(p) \in 1 .. MaxId
  PROVE  /\ StartPrepare(p) \in Proposers
         /\ StartPrepare(p).phase = "prepare" /\ ~ StartPrepare(p).skip
         /\ StartPrepare(p).pre = Null /\ StartPrepare(p).grants = {}
         /\ StartPrepare(p).id = NewId(p) /\ StartPrepare(p).value = p.value
<1> DEFINE i == NewId(p)
           p1 == [p EXCEPT !.phase = "prepare"]
           p2 == [p1 EXCEPT !.skip = FALSE]
           p3 == [p2 EXCEPT !.rejected = FALSE]
           p4 == [p3 EXCEPT !.pre = Null]
           p5 == [p4 EXCEPT !.grants = {}]
           p6 == [p5 EXCEPT !.id = i]
<1>0. i \in 1 .. MaxId + 1 /\ Null \in Ballots
  BY BoundsAssumption, NullIsLeast
<1>7. StartPrepare(p) = p6
  BY DEF StartPrepare
<1> HIDE DEF i
<1>1. p1 \in Proposers /\ p1.phase = "prepare" /\ p1.value = p.value
  BY DEF Proposers
<1> HIDE DEF p1
<1>2. p2 \in Proposers /\ p2.phase = "prepare" /\ p2.value = p.value /\ ~ p2.skip
  BY <1>1 DEF Proposers
<1> HIDE DEF p2
<1>3. p3 \in Proposers /\ p3.phase = "prepare" /\ p3.value = p.value /\ ~ p3.skip
  BY <1>2 DEF Proposers
<1> HIDE DEF p3
<1>4. p4 \in Proposers /\ p4.phase = "prepare" /\ p4.value = p.value /\ ~ p4.skip /\ p4.pre = Null
  BY <1>0, <1>3 DEF Proposers
<1> HIDE DEF p4
<1>5. /\ p5 \in Proposers /\ p5.phase = "prepare" /\ p5.value = p.value /\ ~ p5.skip /\ p5.pre = Null
      /\ p5.grants = {}
  BY <1>4 DEF Proposers
<1> HIDE DEF p5
<1>6. /\ p6 \in Proposers /\ p6.phase = "prepare" /\ p6.value = p.value /\ ~ p6.skip /\ p6.pre = Null
      /\ p6.grants = {} /\ p6.id = i
  BY <1>0, <1>5 DEF Proposers
<1>. QED  BY <1>6, <1>7 DEF i

LEMMA NewIdIs ==
  ASSUME NEW p \in Proposers, NewId(p) <= MaxId
  PROVE  /\ NewId(p) \in 1 .. MaxId /\ NewId(p) >= p.id
         /\ p.rejected => NewId(p) > p.id
         /\ ~ p.rejected => NewId(p) = p.id
<1>1. p.id \in 1 .. MaxId + 1 /\ p.other \in 0 .. MaxId
  BY DEF Proposers
<1>. QED  BY <1>1, BoundsAssumption DEF NewId, MaxOf

------------------------------------------------------------------------------
(***************************************************************************)
(* Counting a reply.                                                       *)
(***************************************************************************)
LEMMA CountPromiseIs ==
  ASSUME NEW p \in Proposers, NEW r \in Messages, r.type = "PrepareReply", r.reject = 0
  PROVE  /\ CountPromise(p, r) \in Proposers
         /\ CountPromise(p, r).phase = p.phase /\ CountPromise(p, r).skip = p.skip
         /\ CountPromise(p, r).id = p.id /\ CountPromise(p, r).grants = p.grants \cup {r.from}
         /\ CountPromise(p, r).pre = IF Above(r.pre, p.pre) THEN r.pre ELSE p.pre
         /\ CountPromise(p, r).value = IF Above(r.pre, p.pre) THEN r.value ELSE p.value
<1> DEFINE g == p.grants \cup {r.from}
           q == IF Above(r.pre, p.pre) THEN r.pre ELSE p.pre
           v == IF Above(r.pre, p.pre) THEN r.value ELSE p.value
           p1 == [p EXCEPT !.grants = g]
           p2 == [p1 EXCEPT !.pre = q]
           p3 == [p2 EXCEPT !.value = v]
<1>1. /\ r.from \in Nodes /\ r.pre \in Ballots /\ r.value \in Contents
      /\ p.grants \subseteq Nodes /\ p.pre \in Ballots /\ p.value \in Contents
  BY MsgTypes DEF Proposers
<1>2. g \subseteq Nodes /\ q \in Ballots /\ v \in Contents
  BY <1>1
<1>3. /\ p1 \in Proposers /\ p1.phase = p.phase /\ p1.skip = p.skip /\ p1.id = p.id
      /\ p1.grants = g /\ p1.pre = p.pre /\ p1.value = p.value
  BY <1>2 DEF Proposers
<1>4. CountPromise(p, r) = p3
  BY DEF CountPromise, Proposers
<1> HIDE DEF g, q, v, p1
<1>5. /\ p2 \in Proposers /\ p2.phase = p.phase /\ p2.skip = p.skip /\ p2.id = p.id
      /\ p2.grants = g /\ p2.pre = q /\ p2.value = p.value
  BY <1>2, <1>3 DEF Proposers
<1> HIDE DEF p2
<1>6. /\ p3 \in Proposers /\ p3.phase = p.phase /\ p3.skip = p.skip /\ p3.id = p.id
      /\ p3.grants = g /\ p3.pre = q /\ p3.value = v
  BY <1>2, <1>5 DEF Proposers
<1>. QED  BY <1>4, <1>6 DEF g, q, v

LEMMA HasPromisedMore ==
  ASSUME NEW A, NEW V, V \subseteq Voted, NEW k, NEW i, NEW b, NEW c \in Ballots, NEW d \in Ballots,
         HasPromised(A, V, k, i, b, c), AtLeast(d, c)
  PROVE  HasPromised(A, V, k, i, b, d)
<1>1. \A w \in LowVotes(V, k, b) : w.ballot \in Ballots
  BY DEF LowVotes, Voted
<1>. QED  BY <1>1, AtLeastIsTransitive DEF HasPromised

LEMMA CountPromiseStep ==
  ASSUME NEW A, NEW P, NEW V, NEW M, Core(A, P, V, M), NEW n \in Nodes,
         NEW r \in M, r.type = "PrepareReply", r.to = n, r.inst = A[n].inst,
         P[n].phase = "prepare", r.id = P[n].id
  PROVE  Core(A, [P EXCEPT ![n] = CountPromise(P[n], r)], V, M)
<1> DEFINE p == P[n]
           p1 == CountPromise(p, r)
<1>0. TypesOK(A, P, V, M) /\ p \in Proposers /\ r \in Messages
  BY DEF Core, TypesOK
<1>1. CASE r.reject # 0
  <2>1. p1 = Rejected(p, r.reject) /\ r.reject \in 0 .. MaxId
    BY <1>0, <1>1, MsgTypes DEF CountPromise
  <2>. QED  BY <2>1, RejectedStep
<1>2. CASE r.reject = 0
  <2>1. /\ p1 \in Proposers /\ p1.phase = p.phase /\ p1.skip = p.skip /\ p1.id = p.id
        /\ p1.grants = p.grants \cup {r.from}
        /\ p1.pre = IF Above(r.pre, p.pre) THEN r.pre ELSE p.pre
        /\ p1.value = IF Above(r.pre, p.pre) THEN r.value ELSE p.value
    BY <1>0, <1>2, CountPromiseIs
  <2>2. r.pre \in Ballots /\ p.pre \in Ballots /\ p.id \in Nat
    BY <1>0, MsgTypes, ProposerTypes
  <2>3. Above(r.pre, p.pre) => r.pre # Null
    BY <2>2, NullIsLeast, AboveIsNotAtMost
  <2>4. FitsTypes(A, n, p1)
    <3>1. r.pre # Null => r.value \in Values
      BY <1>0 DEF TypesOK
    <3>2. p1.value # NoValue
      BY <1>0, <2>1, <2>3, <3>1, ValuesAssumption DEF TypesOK
    <3>. QED  BY <1>0, <2>1, <3>2 DEF TypesOK, FitsTypes
  <2>5. ASSUME SafetyOK(A, P, V, M)
        PROVE  /\ FollowsOn(p, p1) /\ FitsAccepts(A, M, n, p1)
               /\ FitsPreparing(A, V, n, p1) /\ FitsGrants(A, V, M, n, p1)
    <3>1. FollowsOn(p, p1) /\ FitsGrants(A, V, M, n, p1)
      BY <2>1, <2>2 DEF FollowsOn, FitsGrants
    <3>2. V \subseteq Voted /\ p1.pre \in Ballots
      BY <1>0, <2>1, <2>2 DEF TypesOK
    <3>3. AtLeast(p1.pre, p.pre) /\ AtLeast(p1.pre, r.pre)
      BY <2>1, <2>2, AboveIsNotAtMost, AtLeastIsTotal
    <3>4. /\ \A g \in p.grants : HasPromised(A, V, g, A[n].inst, <<p.id, n>>, p.pre)
          /\ p.pre # Null => VotedFor(V, A[n].inst, p.pre, p.value)
      BY <2>5 DEF SafetyOK, PreparingOK
    <3>5. /\ HasPromised(A, V, r.from, A[n].inst, <<p.id, n>>, r.pre)
          /\ r.pre # Null => VotedFor(V, A[n].inst, r.pre, r.value)
          /\ AtLeast(<<p.id, n>>, r.pre)
      BY <1>2, <2>5 DEF SafetyOK, PromisesOK
    <3>6. \A g \in p1.grants : HasPromised(A, V, g, A[n].inst, <<p.id, n>>, p1.pre)
      BY <2>1, <2>2, <3>2, <3>3, <3>4, <3>5, HasPromisedMore
    <3>7. p1.pre # Null => VotedFor(V, A[n].inst, p1.pre, p1.value)
      BY <2>1, <2>3, <3>4, <3>5
    <3>8. ASSUME NEW m \in Accepts(M), m.from = n, m.inst = A[n].inst, m.id = p1.id
          PROVE  m.value = p1.value /\ p1.pre = From(m)
      <4>1. m.value = p.value /\ p.pre = From(m) /\ From(m) = <<p.id, n>>
        BY <2>1, <2>5, <3>8 DEF SafetyOK, ValuesOK, FitsAccepts, From
      <4>2. ~ Above(r.pre, p.pre)
        BY <2>2, <3>5, <4>1, AboveIsNotAtMost
      <4>. QED  BY <2>1, <4>1, <4>2
    <3>. QED  BY <2>1, <3>1, <3>6, <3>7, <3>8 DEF FitsPreparing, FitsAccepts
  <2>. QED  BY <2>4, <2>5, ProposerStep
<1>. QED  BY <1>1, <1>2

\* A round is prepared and the first promise counted.  When the ballot is that
\* of an Accept sent before, that promise must bring its value back.
Recovers(A, M, n, id, r) ==
  \A m \in Accepts(M) : m.from = n /\ m.inst = A[n].inst /\ m.id = id =>
    r.reject = 0 /\ r.pre = From(m) /\ r.value = m.value

LEMMA PreparedStep ==
  ASSUME NEW A, NEW P, NEW V, NEW M, TypesOK(A, P, V, M), NEW n \in Nodes,
         P[n].value # NoValue, A[n].inst <= LastInstance, NewId(P[n]) <= MaxId,
         NEW r \in M, r.type = "PrepareReply", r.to = n, r.inst = A[n].inst, r.id = NewId(P[n])
  PROVE  LET P1 == [P EXCEPT ![n] = CountPromise(StartPrepare(P[n]), r)]
         IN  /\ TypesOK(A, P1, V, M)
             /\ SafetyOK(A, P, V, M) /\ Recovers(A, M, n, NewId(P[n]), r) => SafetyOK(A, P1, V, M)
<1> DEFINE p == P[n]
           p1 == StartPrepare(p)
           q == CountPromise(p1, r)
<1>0. p \in Proposers /\ r \in Messages /\ V \subseteq Voted
  BY DEF TypesOK
<1>1. /\ p1 \in Proposers /\ p1.phase = "prepare" /\ ~ p1.skip /\ p1.pre = Null /\ p1.grants = {}
      /\ p1.id = NewId(p) /\ p1.value = p.value /\ p1.id \in 1 .. MaxId /\ p1.id >= p.id
  BY <1>0, StartPrepareIs, NewIdIs
<1> HIDE DEF p1
<1>2. r.pre \in Ballots /\ r.reject \in 0 .. MaxId /\ (Above(r.pre, Null) <=> r.pre # Null)
  <2>1. r.pre \in Ballots /\ r.reject \in 0 .. MaxId
    BY <1>0, MsgTypes
  <2>. QED  BY <2>1, NullIsLeast, AboveIsNotAtMost, AtLeastIsTotal
<1>3. /\ q \in Proposers /\ q.phase = "prepare" /\ ~ q.skip /\ q.id = p1.id
      /\ r.reject # 0 => q.grants = {} /\ q.pre = Null /\ q.value = p.value
      /\ r.reject = 0 => /\ q.grants = {r.from} /\ q.pre = r.pre
                         /\ q.value = IF r.pre # Null THEN r.value ELSE p.value
  <2>1. CASE r.reject # 0
    <3>1. q = Rejected(p1, r.reject)
      BY <2>1 DEF CountPromise
    <3>2. q \in Proposers /\ SameRound(p1, q)
      BY <1>1, <1>2, <3>1, RejectedIs
    <3>3. Rejected(p1, r.reject).phase = p1.phase
      BY <1>1 DEF Rejected, Proposers
    <3>. QED  BY <1>1, <2>1, <3>1, <3>2, <3>3 DEF SameRound
  <2>2. CASE r.reject = 0
    <3>1. /\ q \in Proposers /\ q.phase = p1.phase /\ q.skip = p1.skip /\ q.id = p1.id
          /\ q.grants = p1.grants \cup {r.from}
          /\ q.pre = IF Above(r.pre, p1.pre) THEN r.pre ELSE p1.pre
          /\ q.value = IF Above(r.pre, p1.pre) THEN r.value ELSE p1.value
      BY <1>0, <1>1, <2>2, CountPromiseIs
    <3>. QED  BY <1>1, <1>2, <2>2, <3>1
  <2>. QED  BY <2>1, <2>2
<1> HIDE DEF q
<1>4. FitsTypes(A, n, q)
  <2>1. r.pre # Null => r.value \in Values
    BY DEF TypesOK
  <2>. QED  BY <1>1, <1>3, <2>1, ValuesAssumption, BoundsAssumption DEF FitsTypes
<1>5. ASSUME SafetyOK(A, P, V, M), Recovers(A, M, n, NewId(p), r)
      PROVE  /\ FollowsOn(p, q) /\ FitsAccepts(A, M, n, q)
             /\ FitsPreparing(A, V, n, q) /\ FitsGrants(A, V, M, n, q)
  <2>1. FollowsOn(p, q) /\ FitsGrants(A, V, M, n, q)
    BY <1>1, <1>3 DEF FollowsOn, FitsGrants
  <2>2. FitsAccepts(A, M, n, q)
    <3>1. \A m \in Accepts(M) : From(m) # Null
      BY AcceptTypes DEF TypesOK
    <3>. QED  BY <1>1, <1>3, <1>5, <3>1 DEF FitsAccepts, Recovers
  <2>3. FitsPreparing(A, V, n, q)
    <3>1. CASE r.reject # 0
      BY <1>3, <3>1 DEF FitsPreparing
    <3>2. CASE r.reject = 0
      <4>1. /\ HasPromised(A, V, r.from, A[n].inst, <<q.id, n>>, r.pre)
            /\ r.pre # Null => VotedFor(V, A[n].inst, r.pre, r.value)
        BY <1>1, <1>3, <1>5, <3>2 DEF SafetyOK, PromisesOK
      <4>. QED  BY <1>3, <3>2, <4>1 DEF FitsPreparing
    <3>. QED  BY <3>1, <3>2
  <2>. QED  BY <2>1, <2>2, <2>3
<1>. QED  BY <1>4, <1>5, ProposerMove DEF q, p1

LEMMA CountAcceptStep ==
  ASSUME NEW A, NEW P, NEW V, NEW M, Core(A, P, V, M), NEW n \in Nodes,
         NEW r \in M, r.type = "AcceptReply", r.to = n, r.inst = A[n].inst,
         P[n].phase = "accept", r.id = P[n].id
  PROVE  Core(A, [P EXCEPT ![n] = CountAccept(P[n], r)], V, M)
<1> DEFINE p == P[n]
           p1 == CountAccept(p, r)
<1>0. TypesOK(A, P, V, M) /\ p \in Proposers /\ r \in Messages
  BY DEF Core, TypesOK
<1>1. CASE r.reject # 0
  <2>1. p1 = Rejected(p, r.reject) /\ r.reject \in 0 .. MaxId
    BY <1>0, <1>1, MsgTypes DEF CountAccept
  <2>. QED  BY <2>1, RejectedStep
<1>2. CASE r.reject = 0
  <2>1. /\ p1 \in Proposers /\ p1.phase = p.phase /\ p1.skip = p.skip /\ p1.id = p.id
        /\ p1.value = p.value /\ p1.grants = p.grants \cup {r.from}
    <3>1. r.from \in Nodes
      BY <1>0, MsgTypes
    <3>. QED  BY <1>0, <1>2, <3>1 DEF CountAccept, Proposers
  <2>2. p.id \in Nat
    BY <1>0, ProposerTypes
  <2>3. FitsTypes(A, n, p1)
    BY <1>0, <2>1 DEF TypesOK, FitsTypes
  <2>4. ASSUME SafetyOK(A, P, V, M)
        PROVE  /\ FollowsOn(p, p1) /\ FitsAccepts(A, M, n, p1)
               /\ FitsPreparing(A, V, n, p1) /\ FitsGrants(A, V, M, n, p1)
    <3>1. FollowsOn(p, p1) /\ FitsPreparing(A, V, n, p1) /\ FitsAccepts(A, M, n, p1)
      BY <1>0, <2>1, <2>2, <2>4 DEF FollowsOn, FitsPreparing, FitsAccepts, SafetyOK, ValuesOK, TypesOK
    <3>2. PICK w \in V : w.node = r.from /\ w.inst = A[n].inst /\ w.ballot = <<p.id, n>>
      BY <1>2, <2>4 DEF SafetyOK, RepliesOK
    <3>3. PICK m \in Accepts(M) : m.inst = w.inst /\ From(m) = w.ballot /\ m.value = w.value
      BY <2>4 DEF SafetyOK, VotesOK
    <3>4. m.from = n /\ m.id = p.id /\ m.inst = A[n].inst
      BY <3>2, <3>3 DEF From
    <3>5. m.value = p.value
      BY <2>4, <3>4 DEF SafetyOK, ValuesOK, FitsAccepts
    <3>6. w = Vote4(r.from, A[n].inst, <<p.id, n>>, p.value)
      BY <1>0, <3>2, <3>3, <3>5 DEF TypesOK, Voted, Vote4
    <3>7. FitsGrants(A, V, M, n, p1)
      BY <2>1, <2>4, <3>6 DEF SafetyOK, GrantsOK, FitsGrants
    <3>. QED  BY <3>1, <3>7
  <2>. QED  BY <2>3, <2>4, ProposerStep
<1>. QED  BY <1>1, <1>2

------------------------------------------------------------------------------
(***************************************************************************)
(* Instance::NewInstance: the acceptor and the proposer start the next     *)
(* instance; promise, proposal id and the skipped prepare phase stay.      *)
(***************************************************************************)
LEMMA NewRoundIs ==
  ASSUME NEW p \in Proposers
  PROVE  /\ NewRound(p) \in Proposers
         /\ NewRound(p).phase = "idle" /\ NewRound(p).value = NoValue
         /\ NewRound(p).id = p.id /\ NewRound(p).skip = p.skip /\ NewRound(p).rejected = p.rejected
<1> DEFINE p1 == [p EXCEPT !.phase = "idle"]
           p2 == [p1 EXCEPT !.grants = {}]
           p3 == [p2 EXCEPT !.other = 0]
           p4 == [p3 EXCEPT !.value = NoValue]
<1>0. 0 \in 0 .. MaxId /\ NoValue \in Contents
  BY BoundsAssumption DEF Contents
<1>1. NewRound(p) = p4
  BY DEF NewRound
<1>2. p1 \in Proposers /\ p1.phase = "idle" /\ p1.id = p.id /\ p1.skip = p.skip /\ p1.rejected = p.rejected
  BY DEF Proposers
<1> HIDE DEF p1
<1>3. p2 \in Proposers /\ p2.phase = "idle" /\ p2.id = p.id /\ p2.skip = p.skip /\ p2.rejected = p.rejected
  BY <1>2 DEF Proposers
<1> HIDE DEF p2
<1>4. p3 \in Proposers /\ p3.phase = "idle" /\ p3.id = p.id /\ p3.skip = p.skip /\ p3.rejected = p.rejected
  BY <1>0, <1>3 DEF Proposers
<1> HIDE DEF p3
<1>5. /\ p4 \in Proposers /\ p4.phase = "idle" /\ p4.id = p.id /\ p4.skip = p.skip /\ p4.rejected = p.rejected
      /\ p4.value = NoValue
  BY <1>0, <1>4 DEF Proposers
<1>. QED  BY <1>1, <1>5

LEMMA NextStep ==
  ASSUME NEW A, NEW P, NEW V, NEW M, Core(A, P, V, M), NEW n \in Nodes, A[n].inst <= LastInstance
  PROVE  Core([A EXCEPT ![n] = NextInstance(A[n])], [P EXCEPT ![n] = NewRound(P[n])], V, M)
<1> DEFINE a1 == NextInstance(A[n])
           p1 == NewRound(P[n])
           A1 == [A EXCEPT ![n] = a1]
           P1 == [P EXCEPT ![n] = p1]
<1>0. TypesOK(A, P, V, M)
  BY DEF Core
<1>1. /\ a1 \in Acceptors /\ a1.inst = A[n].inst + 1 /\ a1.ballot = Null /\ a1.promise = A[n].promise
  BY <1>0, AcceptorTypes, NextIs
<1>2. /\ p1 \in Proposers /\ p1.phase = "idle" /\ p1.id = P[n].id /\ p1.skip = P[n].skip
  BY <1>0, ProposerTypes, NewRoundIs
<1> HIDE DEF a1, p1
<1>3. A1[n] = a1 /\ A1 \in [Nodes -> Acceptors] /\ \A k \in Nodes : k # n => A1[k] = A[k]
  BY <1>0, <1>1 DEF TypesOK
<1>4. P1[n] = p1 /\ P1 \in [Nodes -> Proposers] /\ \A k \in Nodes : k # n => P1[k] = P[k]
  BY <1>0, <1>2 DEF TypesOK
<1> HIDE DEF A1, P1
<1>5. TypesOK(A1, P1, V, M)
  <2>1. \A k \in Nodes :
       /\ A1[k].ballot # Null => A1[k].value \in Values
       /\ P1[k].phase # "idle" => P1[k].value # NoValue /\ A1[k].inst <= LastInstance
       /\ P1[k].phase # "idle" \/ P1[k].skip => P1[k].id <= MaxId
    BY <1>0, <1>1, <1>2, <1>3, <1>4 DEF TypesOK
  <2>. QED  BY <1>0, <1>3, <1>4, <2>1 DEF TypesOK
<1>6. \A k \in Nodes : /\ A[k].inst \in Nat /\ P[k].id \in Nat
                       /\ A1[k].inst = IF k = n THEN A[k].inst + 1 ELSE A[k].inst
                       /\ A1[k].promise = A[k].promise
                       /\ P1[k].id = P[k].id /\ P1[k].skip = P[k].skip
                       /\ P1[k].phase = IF k = n THEN "idle" ELSE P[k].phase
  <2>1. \A k \in Nodes : A[k].inst \in Nat /\ P[k].id \in Nat
    BY <1>0, AcceptorTypes, ProposerTypes
  <2>. QED  BY <1>1, <1>2, <1>3, <1>4, <2>1
<1>7. PastKept(A, V, A1, V)
  <2>1. \A k \in Nodes : AtLeast(A1[k].promise, A[k].promise)
    BY <1>0, <1>6, AcceptorTypes, AtLeastIsTotal
  <2>. QED  BY <1>0, <1>3, <2>1 DEF PastKept, TypesOK
<1>8. ASSUME SafetyOK(A, P, V, M)
      PROVE  SafetyOK(A1, P1, V, M)
  <2>1. \A k \in Nodes : /\ A1[k].inst \in Nat /\ A1[k].inst >= A[k].inst
                         /\ A1[k].inst = A[k].inst => k # n /\ A1[k] = A[k]
                         /\ P1[k].id >= P[k].id
    BY <1>3, <1>6
  <2>2. AcceptsOK(A1, P1, V, M)
    <3>1. \A k \in Nodes : A1[k].inst >= A[k].inst /\ P1[k].id >= P[k].id
      BY <2>1
    <3>. QED  BY <1>0, <1>5, <1>7, <1>8, <3>1, AcceptsStay DEF SafetyOK
  <2>2a. ValuesOK(A1, P1, M)
    <3>1. ASSUME NEW k \in Nodes
          PROVE  FitsAccepts(A1, M, k, P1[k])
      <4>1. A1[k].inst = A[k].inst /\ P1[k].id = P[k].id => P1[k] = P[k]
        BY <1>4, <2>1
      <4>. QED  BY <1>0, <1>5, <1>8, <2>1, <4>1, ValuesStay DEF SafetyOK
    <3>. QED  BY <3>1 DEF ValuesOK
  <2>3. VotesOK(A1, V, M)
    BY <1>0, <1>5, <1>7, <1>8, <2>1, VotesStay DEF SafetyOK
  <2>4. BallotsOK(A1, V)
    <3>1. AtLeast(A1[n].promise, A1[n].ballot) /\ A1[n].ballot = Null
      BY <1>0, <1>1, <1>3, AcceptorTypes, NullIsLeast
    <3>. QED  BY <1>3, <1>8, <3>1 DEF SafetyOK, BallotsOK
  <2>5. PromisesOK(A1, V, M)
    <3>1. M \subseteq Messages
      BY <1>0 DEF TypesOK
    <3>. QED  BY <1>7, <1>8, <3>1, PromisesStay DEF SafetyOK
  <2>6. PreparingOK(A1, P1, V)
    <3>1. ASSUME NEW k \in Nodes, P1[k].phase = "prepare"
          PROVE  k # n /\ P[k].phase = "prepare" /\ P1[k] = P[k] /\ A1[k] = A[k]
      BY <1>3, <1>4, <1>6, <3>1
    <3>. QED  BY <1>0, <1>7, <1>8, <3>1, PreparingStays DEF SafetyOK, PreparingOK
  <2>7. SkipOK(A1, P1, V, M)
    <3>1. ASSUME NEW k \in Nodes, P1[k].skip
          PROVE  SkipFor(A1, P1, V, M, k)
      BY <1>0, <1>6, <1>7, <1>8, <2>1, <3>1, SkipStays DEF SafetyOK
    <3>. QED  BY <3>1, SkipIsFor
  <2>8. GrantsOK(A1, P1, V, M)
    <3>1. ASSUME NEW k \in Nodes, P1[k].phase = "accept"
          PROVE  k # n /\ P[k].phase = "accept" /\ P1[k] = P[k] /\ A1[k] = A[k]
      BY <1>3, <1>4, <1>6, <3>1
    <3>. QED  BY <1>8, <3>1 DEF SafetyOK, GrantsOK
  <2>. QED  BY <1>8, <2>2, <2>2a, <2>3, <2>4, <2>5, <2>6, <2>7, <2>8 DEF SafetyOK
<1>. QED  BY <1>5, <1>8 DEF Core, A1, P1, a1, p1

------------------------------------------------------------------------------
(***************************************************************************)
(* Messages that add nothing to what is proposed.                          *)
(***************************************************************************)
LEMMA DropStep ==
  ASSUME NEW A, NEW P, NEW V, NEW M, Core(A, P, V, M),
         NEW M1, M1 \subseteq M, Accepts(M1) = Accepts(M)
  PROVE  Core(A, P, V, M1)
<1>1. TypesOK(A, P, V, M1)
  BY DEF Core, TypesOK
<1>2. ASSUME SafetyOK(A, P, V, M)
      PROVE  SafetyOK(A, P, V, M1)
  <2>1. AcceptsOK(A, P, V, M1) /\ ValuesOK(A, P, M1) /\ OneValue(M1) /\ VotesOK(A, V, M1)
    BY <1>2 DEF SafetyOK, AcceptsOK, ValuesOK, FitsAccepts, OneValue, VotesOK
  <2>2. PromisesOK(A, V, M1) /\ RepliesOK(V, M1) /\ SuccessOK(V, M1)
    BY <1>2 DEF SafetyOK, PromisesOK, RepliesOK, SuccessOK
  <2>3. SkipOK(A, P, V, M1) /\ GrantsOK(A, P, V, M1)
    <3>1. \A k, i, id : Sent(M1, k, i, id) <=> Sent(M, k, i, id)
      BY DEF Sent
    <3>. QED  BY <1>2, <3>1 DEF SafetyOK, SkipOK, GrantsOK
  <2>. QED  BY <1>2, <2>1, <2>2, <2>3 DEF SafetyOK
<1>. QED  BY <1>1, <1>2 DEF Core

\* The broadcast of a prepare or of a success that happened.
LEMMA SendStep ==
  ASSUME NEW A, NEW P, NEW V, NEW M, Core(A, P, V, M),
         NEW m \in Messages, m.type \in {"Prepare", "Success"},
         m.type = "Success" =>
           /\ m.inst <= LastInstance
           /\ Calm => \E v \in Values : Majority(Voters(V, m.inst, From(m), v))
  PROVE  Core(A, P, V, M \cup {m})
<1> DEFINE M1 == M \cup {m}
<1>0. Accepts(M1) = Accepts(M)
  BY DEF Accepts
<1>1. TypesOK(A, P, V, M1)
  BY DEF Core, TypesOK
<1>2. ASSUME SafetyOK(A, P, V, M), Calm
      PROVE  SafetyOK(A, P, V, M1)
  <2>1. AcceptsOK(A, P, V, M1) /\ ValuesOK(A, P, M1) /\ OneValue(M1) /\ VotesOK(A, V, M1)
    BY <1>0, <1>2 DEF SafetyOK, AcceptsOK, ValuesOK, FitsAccepts, OneValue, VotesOK
  <2>2. PromisesOK(A, V, M1) /\ RepliesOK(V, M1) /\ SuccessOK(V, M1)
    BY <1>2 DEF SafetyOK, PromisesOK, RepliesOK, SuccessOK
  <2>3. SkipOK(A, P, V, M1) /\ GrantsOK(A, P, V, M1)
    <3>1. \A k, i, id : Sent(M1, k, i, id) <=> Sent(M, k, i, id)
      BY <1>0 DEF Sent
    <3>. QED  BY <1>2, <3>1 DEF SafetyOK, SkipOK, GrantsOK
  <2>. QED  BY <1>2, <2>1, <2>2, <2>3 DEF SafetyOK
<1>. QED  BY <1>1, <1>2 DEF Core

\* A majority of counted answers is a majority of votes.
LEMMA CountedAreVotes ==
  ASSUME NEW A, NEW P, NEW V, NEW M, Core(A, P, V, M), Calm,
         NEW n \in Nodes, P[n].phase = "accept", Majority(P[n].grants)
  PROVE  \E v \in Values : Majority(Voters(V, A[n].inst, <<P[n].id, n>>, v))
<1> DEFINE v == P[n].value
           R == Voters(V, A[n].inst, <<P[n].id, n>>, v)
<1>1. P[n].grants \subseteq Nodes /\ v \in Contents
  BY ProposerTypes DEF Core
<1>2. \A g \in P[n].grants : Vote4(g, A[n].inst, <<P[n].id, n>>, v) \in V
  BY DEF Core, SafetyOK, GrantsOK
<1>3. P[n].grants \subseteq R /\ R \subseteq Nodes
  BY <1>1, <1>2 DEF Voters
<1>4. Majority(R)
  BY <1>1, <1>3, MajorityGrows
<1>5. v \in Values
  BY <1>1 DEF Core, TypesOK, Contents
<1>. QED  BY <1>4, <1>5

------------------------------------------------------------------------------
(***************************************************************************)
(* Acceptor::OnAccept: the vote, and the answer that tells it.             *)
(***************************************************************************)
CastVotes(V, n, a, b, v) == V \cup IF RejectId(a, b) = 0 THEN {Vote4(n, a.inst, b, v)} ELSE {}

LEMMA VoteStep ==
  ASSUME NEW A, NEW P, NEW V, NEW M, Core(A, P, V, M), NEW n \in Nodes,
         NEW m \in Accepts(M), m.inst = A[n].inst
  PROVE  Core([A EXCEPT ![n] = Accepted(A[n], From(m), m.value)], P,
              CastVotes(V, n, A[n], From(m), m.value), M \cup {AcceptReply(A[n], n, From(m))})
<1> DEFINE b == From(m)
           a1 == Accepted(A[n], b, m.value)
           A1 == [A EXCEPT ![n] = a1]
           V1 == CastVotes(V, n, A[n], b, m.value)
           r == AcceptReply(A[n], n, b)
           M1 == M \cup {r}
           w1 == Vote4(n, A[n].inst, b, m.value)
<1>0. TypesOK(A, P, V, M) /\ M \subseteq Messages /\ V \subseteq Voted /\ A \in [Nodes -> Acceptors]
  BY DEF Core, TypesOK
<1>1. /\ m \in M /\ m.from \in Nodes /\ m.id \in 1 .. MaxId /\ m.value \in Values
      /\ b \in Ballots /\ b # Null /\ b = <<m.id, m.from>>
  BY <1>0, AcceptTypes DEF From
<1>2. A[n] \in Acceptors /\ A[n].promise \in Ballots /\ A[n].ballot \in Ballots /\ A[n].inst \in Nat
  BY <1>0, AcceptorTypes
<1>3. /\ r \in Messages /\ r.type = "AcceptReply" /\ r.inst = A[n].inst /\ r.from = n
      /\ <<r.id, r.to>> = b
      /\ r.reject = RejectId(A[n], b)
      /\ RejectId(A[n], b) = 0 <=> AtLeast(b, A[n].promise)
  BY <1>1, <1>2, AcceptReplyIs, RejectIdOf
<1>4. Accepts(M1) = Accepts(M)
  BY <1>3 DEF Accepts
<1> HIDE DEF r, b
<1>5. CASE RejectId(A[n], b) # 0
  <2>1. a1 = A[n] /\ A1 = A
    BY <1>0, <1>3, <1>5 DEF Accepted
  <2>2. V1 = V
    BY <1>5 DEF CastVotes
  <2>3. TypesOK(A, P, V, M1)
    BY <1>0, <1>3 DEF TypesOK
  <2>4. ASSUME SafetyOK(A, P, V, M)
        PROVE  SafetyOK(A, P, V, M1)
    <3>1. AcceptsOK(A, P, V, M1) /\ ValuesOK(A, P, M1) /\ OneValue(M1) /\ VotesOK(A, V, M1)
      BY <1>4, <2>4 DEF SafetyOK, AcceptsOK, ValuesOK, FitsAccepts, OneValue, VotesOK
    <3>2. PromisesOK(A, V, M1) /\ RepliesOK(V, M1) /\ SuccessOK(V, M1)
      BY <1>3, <1>5, <2>4 DEF SafetyOK, PromisesOK, RepliesOK, SuccessOK
    <3>3. SkipOK(A, P, V, M1) /\ GrantsOK(A, P, V, M1)
      <4>1. \A k, i, id : Sent(M1, k, i, id) <=> Sent(M, k, i, id)
        BY <1>4 DEF Sent
      <4>. QED  BY <2>4, <4>1 DEF SafetyOK, SkipOK, GrantsOK
    <3>. QED  BY <2>4, <3>1, <3>2, <3>3 DEF SafetyOK
  <2>. QED  BY <2>1, <2>2, <2>3, <2>4 DEF Core, r, b
<1>6. CASE RejectId(A[n], b) = 0
  <2>1. AtLeast(b, A[n].promise)
    BY <1>3, <1>6
  <2>2. /\ a1 \in Acceptors /\ a1.inst = A[n].inst /\ a1.ballot = b /\ a1.value = m.value
        /\ a1.promise = b
    BY <1>1, <1>2, <2>1, AcceptedIs
  <2>3. V1 = V \cup {w1}
    BY <1>6 DEF CastVotes
  <2>4. w1 \in Voted /\ w1.node = n /\ w1.inst = A[n].inst /\ w1.ballot = b /\ w1.value = m.value
    BY <1>1, <1>2 DEF Vote4, Voted, Acceptors
  <2> HIDE DEF a1, w1, V1
  <2>5. A1[n] = a1 /\ A1 \in [Nodes -> Acceptors] /\ \A k \in Nodes : k # n => A1[k] = A[k]
    BY <1>0, <2>2
  <2> HIDE DEF A1, M1
  <2>6. \A k \in Nodes : A1[k].inst = A[k].inst /\ A1[k].inst \in Nat /\ A1[k].inst >= A[k].inst
    <3>1. \A k \in Nodes : A[k].inst \in Nat
      BY <1>0, AcceptorTypes
    <3>. QED  BY <2>2, <2>5, <3>1
  <2>7. PastKept(A, V, A1, V1)
    <3>1. \A k \in Nodes : AtLeast(A1[k].promise, A[k].promise)
      BY <1>0, <2>1, <2>2, <2>5, AcceptorTypes, AtLeastIsTotal
    <3>. QED  BY <1>0, <2>1, <2>3, <2>4, <2>5, <3>1 DEF PastKept
  <2>8. TypesOK(A1, P, V1, M1)
    <3>1. \A k \in Nodes :
         /\ A1[k].ballot # Null => A1[k].value \in Values
         /\ P[k].phase # "idle" => P[k].value # NoValue /\ A1[k].inst <= LastInstance
         /\ P[k].phase # "idle" \/ P[k].skip => P[k].id <= MaxId
      BY <1>0, <1>1, <2>2, <2>5, <2>6 DEF TypesOK
    <3>. QED  BY <1>0, <1>3, <2>3, <2>4, <2>5, <3>1 DEF TypesOK, M1
  <2>9. ASSUME SafetyOK(A, P, V, M)
        PROVE  SafetyOK(A1, P, V1, M1)
    <3>0. Accepts(M1) = Accepts(M)
      BY <1>4 DEF M1
    <3>1. AcceptsOK(A1, P, V1, M1)
      <4>1. ASSUME NEW k \in Nodes
            PROVE  A1[k].inst >= A[k].inst /\ P[k].id >= P[k].id
        <5>1. P[k].id \in Nat
          BY <1>0, ProposerTypes
        <5>. QED  BY <2>6, <5>1
      <4>. QED  BY <1>0, <2>7, <2>8, <2>9, <3>0, <4>1, AcceptsStay DEF SafetyOK
    <3>2. OneValue(M1) /\ ValuesOK(A1, P, M1)
      BY <2>6, <2>9, <3>0 DEF SafetyOK, OneValue, ValuesOK, FitsAccepts
    <3>3. VotesOK(A1, V1, M1)
      <4>1. ASSUME NEW w \in V
            PROVE  /\ \E x \in Accepts(M1) : x.inst = w.inst /\ From(x) = w.ballot /\ x.value = w.value
                   /\ w.inst <= A1[w.node].inst
                   /\ AtLeast(A1[w.node].promise, w.ballot)
                   /\ w.inst = A1[w.node].inst => AtLeast(A1[w.node].ballot, w.ballot)
        <5>1. w.node \in Nodes /\ w.ballot \in Ballots
          BY <1>0, VoteTypes
        <5>2. /\ \E x \in Accepts(M) : x.inst = w.inst /\ From(x) = w.ballot /\ x.value = w.value
              /\ w.inst <= A[w.node].inst
              /\ AtLeast(A[w.node].promise, w.ballot)
              /\ w.inst = A[w.node].inst => AtLeast(A[w.node].ballot, w.ballot)
          BY <2>9 DEF SafetyOK, VotesOK
        <5>3. CASE w.node = n
          <6>1. AtLeast(b, w.ballot)
            BY <1>1, <1>2, <2>1, <5>1, <5>2, <5>3, AtLeastIsTransitive
          <6>. QED  BY <2>2, <2>5, <3>0, <5>2, <5>3, <6>1
        <5>4. CASE w.node # n
          BY <2>5, <3>0, <5>1, <5>2, <5>4
        <5>. QED  BY <5>3, <5>4
      <4>2. /\ \E x \in Accepts(M1) : x.inst = w1.inst /\ From(x) = w1.ballot /\ x.value = w1.value
            /\ w1.inst <= A1[w1.node].inst
            /\ AtLeast(A1[w1.node].promise, w1.ballot)
            /\ w1.inst = A1[w1.node].inst => AtLeast(A1[w1.node].ballot, w1.ballot)
        <5>1. AtLeast(b, b)
          BY <1>1, AtLeastIsTotal
        <5>2. m.inst = w1.inst /\ From(m) = w1.ballot /\ m.value = w1.value
          BY <2>4 DEF b
        <5>. QED  BY <1>2, <2>2, <2>4, <2>5, <3>0, <5>1, <5>2
      <4>. QED  BY <2>3, <4>1, <4>2 DEF VotesOK
    <3>4. BallotsOK(A1, V1)
      <4>1. AtLeast(A1[n].promise, A1[n].ballot)
        BY <1>1, <2>2, <2>5, AtLeastIsTotal
      <4>2. VotedFor(V1, A1[n].inst, A1[n].ballot, A1[n].value)
        BY <2>2, <2>3, <2>4, <2>5 DEF VotedFor
      <4>3. ASSUME NEW k \in Nodes, k # n
            PROVE  /\ AtLeast(A1[k].promise, A1[k].ballot)
                   /\ A1[k].ballot # Null => VotedFor(V1, A1[k].inst, A1[k].ballot, A1[k].value)
        BY <2>3, <2>5, <2>9, <4>3 DEF SafetyOK, BallotsOK, VotedFor
      <4>. QED  BY <4>1, <4>2, <4>3 DEF BallotsOK
    <3>5. PromisesOK(A1, V1, M1)
      <4>1. \A x \in M1 : x.type = "PrepareReply" /\ x.reject = 0 => x \in M
        BY <1>3 DEF M1
      <4>. QED  BY <1>0, <2>7, <2>9, <4>1, PromisesStay DEF SafetyOK
    <3>6. PreparingOK(A1, P, V1)
      BY <1>0, <2>6, <2>7, <2>9, PreparingStays DEF SafetyOK, PreparingOK
    <3>7. SkipOK(A1, P, V1, M1)
      <4>1. ASSUME NEW k \in Nodes, P[k].skip
            PROVE  SkipFor(A1, P, V1, M1, k)
        BY <1>0, <2>6, <2>7, <2>9, <3>0, <4>1, SkipStays DEF SafetyOK
      <4>. QED  BY <4>1, SkipIsFor
    <3>8. GrantsOK(A1, P, V1, M1)
      <4>1. V \subseteq V1 /\ Accepts(M) \subseteq Accepts(M1) /\ GrantsOK(A, P, V, M)
        BY <2>3, <2>9, <3>0 DEF SafetyOK
      <4>2. ASSUME NEW k \in Nodes, P[k].phase = "accept"
            PROVE  /\ Sent(M1, k, A1[k].inst, P[k].id)
                   /\ \A g \in P[k].grants : Vote4(g, A1[k].inst, <<P[k].id, k>>, P[k].value) \in V1
        BY <2>6, <4>1, <4>2, GrantsStay
      <4>. QED  BY <4>2 DEF GrantsOK
    <3>9. RepliesOK(V1, M1)
      BY <1>3, <2>3, <2>4, <2>9 DEF SafetyOK, RepliesOK, M1
    <3>10. SuccessOK(V1, M1)
      <4>1. \A x \in M1 : x.type = "Success" => x \in M
        BY <1>3 DEF M1
      <4>. QED  BY <2>3, <2>9, <4>1, SuccessStays DEF SafetyOK
    <3>. QED  BY <3>1, <3>2, <3>3, <3>4, <3>5, <3>6, <3>7, <3>8, <3>9, <3>10 DEF SafetyOK
  <2>. QED  BY <2>8, <2>9 DEF Core, A1, V1, M1, a1, r, b
<1>. QED  BY <1>5, <1>6

------------------------------------------------------------------------------
(***************************************************************************)
(* Proposer::Accept: the value goes out under the ballot of the round.     *)
(***************************************************************************)
\* A majority has promised b, and voted below it in no instance after i, nor
\* in i unless the proposer k had sent its value there.
Cleared(A, V, b, i) ==
  \E Q \in SUBSET Nodes : Majority(Q) /\
    \A g \in Q : /\ AtLeast(A[g].promise, b)
                 /\ \A w \in LowVotes(V, g, b) : w.inst <= i

AcceptMsg(n, i, id, v) ==
  [type |-> "Accept", inst |-> i, from |-> n, id |-> id, value |-> v]

LEMMA StartAcceptStep ==
  ASSUME NEW A, NEW P, NEW V, NEW M, Core(A, P, V, M), NEW n \in Nodes,
         NEW p1 \in Proposers, p1.phase = "accept", p1.skip, p1.grants = {},
         p1.id = P[n].id, p1.id \in 1 .. MaxId, p1.value = P[n].value, p1.value # NoValue,
         A[n].inst <= LastInstance,
         Calm /\ SafetyOK(A, P, V, M) =>
           /\ SafeAt(A, V, A[n].inst, <<p1.id, n>>, p1.value)
           /\ Cleared(A, V, <<p1.id, n>>, A[n].inst)
           /\ \A m \in Accepts(M) : m.from = n /\ m.inst = A[n].inst /\ m.id = p1.id => m.value = p1.value
  PROVE  Core(A, [P EXCEPT ![n] = p1], V, M \cup {AcceptMsg(n, A[n].inst, p1.id, p1.value)})
<1> DEFINE i == A[n].inst
           b == <<p1.id, n>>
           m1 == AcceptMsg(n, i, p1.id, p1.value)
           P1 == [P EXCEPT ![n] = p1]
           M1 == M \cup {m1}
<1>0. /\ TypesOK(A, P, V, M) /\ M \subseteq Messages /\ V \subseteq Voted
      /\ A \in [Nodes -> Acceptors] /\ P \in [Nodes -> Proposers]
  BY DEF Core, TypesOK
<1>1. /\ i \in Instances /\ i \in Nat /\ p1.value \in Values
  BY <1>0, AcceptorTypes DEF Acceptors, Proposers, Contents
<1>2. /\ m1 \in Messages /\ m1.type = "Accept" /\ m1.inst = i /\ m1.from = n /\ m1.id = p1.id
      /\ m1.value = p1.value /\ From(m1) = b
  BY <1>1 DEF AcceptMsg, Messages, From
<1> HIDE DEF m1
<1>3. Accepts(M1) = Accepts(M) \cup {m1}
  BY <1>2 DEF Accepts
<1>4. P1[n] = p1 /\ P1 \in [Nodes -> Proposers] /\ \A k \in Nodes : k # n => P1[k] = P[k]
  BY <1>0
<1> HIDE DEF P1, M1
<1>5. PastKept(A, V, A, V)
  BY <1>0, NothingChanges
<1>6. \A k \in Nodes : A[k].inst \in Nat /\ A[k].inst >= A[k].inst /\ P1[k].id = P[k].id /\ P[k].id \in Nat
  <2>1. \A k \in Nodes : A[k].inst \in Nat /\ P[k].id \in Nat
    BY <1>0, AcceptorTypes, ProposerTypes
  <2>. QED  BY <1>4, <2>1
<1>7. TypesOK(A, P1, V, M)
  <2>1. \A k \in Nodes :
       /\ A[k].ballot # Null => A[k].value \in Values
       /\ P1[k].phase # "idle" => P1[k].value # NoValue /\ A[k].inst <= LastInstance
       /\ P1[k].phase # "idle" \/ P1[k].skip => P1[k].id <= MaxId
    BY <1>0, <1>4, BoundsAssumption DEF TypesOK
  <2>. QED  BY <1>0, <1>4, <2>1 DEF TypesOK
<1>8. TypesOK(A, P1, V, M1)
  BY <1>2, <1>7 DEF TypesOK, M1
<1>9. ASSUME Calm, SafetyOK(A, P, V, M)
      PROVE  SafetyOK(A, P1, V, M1)
  <2>0. /\ SafeAt(A, V, i, b, p1.value)
        /\ Cleared(A, V, b, i)
        /\ \A m \in Accepts(M) : m.from = n /\ m.inst = i /\ m.id = p1.id => m.value = p1.value
    BY <1>9
  <2>1. AcceptsOK(A, P1, V, M1)
    <3>1. ASSUME NEW k \in Nodes
          PROVE  A[k].inst >= A[k].inst /\ P1[k].id >= P[k].id
      BY <1>4, <1>6
    <3>2. AcceptsOK(A, P1, V, M)
      BY <1>0, <1>5, <1>7, <1>9, <3>1, AcceptsStay DEF SafetyOK
    <3>3. /\ m1.inst <= A[n].inst /\ m1.id <= P1[n].id
          /\ SafeAt(A, V, m1.inst, From(m1), m1.value)
      BY <1>2, <1>4, <1>6, <2>0
    <3>. QED  BY <1>2, <1>3, <3>2, <3>3 DEF AcceptsOK
  <2>1a. ValuesOK(A, P1, M1)
    <3>1. FitsAccepts(A, M1, n, p1)
      BY <1>2, <1>3, <2>0 DEF FitsAccepts
    <3>2. ASSUME NEW k \in Nodes, k # n
          PROVE  FitsAccepts(A, M1, k, P1[k])
      BY <1>2, <1>3, <1>4, <1>9, <3>2 DEF SafetyOK, ValuesOK, FitsAccepts
    <3>. QED  BY <1>4, <3>1, <3>2 DEF ValuesOK
  <2>2. OneValue(M1)
    <3>1. \A m \in Accepts(M) : m.inst = i /\ From(m) = b => m.value = p1.value
      BY <2>0 DEF From
    <3>. QED  BY <1>2, <1>3, <1>9, <3>1 DEF SafetyOK, OneValue
  <2>3. VotesOK(A, V, M1)
    BY <1>3, <1>9 DEF SafetyOK, VotesOK
  <2>4. PromisesOK(A, V, M1)
    BY <1>2, <1>9 DEF SafetyOK, PromisesOK, M1
  <2>5. PreparingOK(A, P1, V)
    BY <1>4, <1>9 DEF SafetyOK, PreparingOK
  <2>6. SkipOK(A, P1, V, M1)
    <3>1. Sent(M1, n, i, p1.id)
      BY <1>2, <1>3 DEF Sent
    <3>2. SkipFor(A, P1, V, M1, n)
      BY <1>4, <2>0, <3>1 DEF Cleared, SkipFor
    <3>3. ASSUME NEW k \in Nodes, k # n, P1[k].skip
          PROVE  SkipFor(A, P1, V, M1, k)
      BY <1>0, <1>3, <1>4, <1>5, <1>6, <1>9, <3>3, SkipStays DEF SafetyOK
    <3>. QED  BY <3>2, <3>3, SkipIsFor
  <2>7. GrantsOK(A, P1, V, M1)
    <3>1. Sent(M1, n, i, p1.id)
      BY <1>2, <1>3 DEF Sent
    <3>2. GrantsOK(A, P, V, M) /\ Accepts(M) \subseteq Accepts(M1)
      BY <1>3, <1>9 DEF SafetyOK
    <3>3. ASSUME NEW k \in Nodes, k # n, P1[k].phase = "accept"
          PROVE  /\ Sent(M1, k, A[k].inst, P1[k].id)
                 /\ \A g \in P1[k].grants : Vote4(g, A[k].inst, <<P1[k].id, k>>, P1[k].value) \in V
      BY <1>4, <3>2, <3>3 DEF GrantsOK, Sent
    <3>. QED  BY <1>4, <3>1, <3>3 DEF GrantsOK
  <2>8. RepliesOK(V, M1) /\ SuccessOK(V, M1)
    BY <1>2, <1>9 DEF SafetyOK, RepliesOK, SuccessOK, M1
  <2>. QED  BY <1>9, <2>1, <2>1a, <2>2, <2>3, <2>4, <2>5, <2>6, <2>7, <2>8 DEF SafetyOK
<1>. QED  BY <1>8, <1>9 DEF Core, P1, M1, m1

\* A proposer that skips the prepare phase may send its value.
LEMMA SkipIsSafe ==
  ASSUME NEW A, NEW P, NEW V, NEW M, TypesOK(A, P, V, M), SafetyOK(A, P, V, M),
         NEW n \in Nodes, P[n].skip
  PROVE  /\ SafeAt(A, V, A[n].inst, <<P[n].id, n>>, P[n].value)
         /\ Cleared(A, V, <<P[n].id, n>>, A[n].inst)
<1> DEFINE i == A[n].inst
           b == <<P[n].id, n>>
<1>1. PICK Q \in SUBSET Nodes : Majority(Q) /\
         \A g \in Q :
           /\ AtLeast(A[g].promise, b)
           /\ \A w \in LowVotes(V, g, b) : w.inst <= i /\ (w.inst = i => Sent(M, n, i, P[n].id))
  BY DEF SafetyOK, SkipOK
<1>2. Cleared(A, V, b, i)
  BY <1>1 DEF Cleared
<1>3. b \in Ballots
  BY ProposerTypes
<1>4. CASE Sent(M, n, i, P[n].id)
  <2>1. PICK m \in Accepts(M) : m.from = n /\ m.inst = i /\ m.id = P[n].id
    BY <1>4 DEF Sent
  <2>2. m.value = P[n].value /\ SafeAt(A, V, m.inst, From(m), m.value) /\ From(m) = b
    BY <2>1 DEF SafetyOK, AcceptsOK, ValuesOK, FitsAccepts, From
  <2>. QED  BY <1>2, <2>1, <2>2
<1>5. CASE ~ Sent(M, n, i, P[n].id)
  <2>1. ASSUME NEW c \in Ballots, Above(b, c), NEW g \in Q
        PROVE  /\ Above(A[g].promise, c)
               /\ \A w \in V : w.node = g /\ w.inst = i /\ w.ballot = c => w.value = P[n].value
    <3>1. ~ AtLeast(c, b) /\ A[g].promise \in Ballots
      BY <1>3, <2>1, AboveIsNotAtMost, AcceptorTypes
    <3>2. ~ AtLeast(c, A[g].promise)
      BY <1>1, <1>3, <2>1, <3>1, AtLeastIsTransitive
    <3>3. ASSUME NEW w \in V, w.node = g, w.ballot = c
          PROVE  w.inst # i
      BY <1>1, <1>5, <2>1, <3>1, <3>3 DEF LowVotes
    <3>. QED  BY <2>1, <3>1, <3>2, <3>3, AboveIsNotAtMost
  <2>2. SafeAt(A, V, i, b, P[n].value)
    BY <1>1, <2>1 DEF SafeAt
  <2>. QED  BY <1>2, <2>2
<1>. QED  BY <1>4, <1>5

\* A proposer whose prepare phase a majority has answered may send the value
\* of the highest ballot it was told of, or its own.
LEMMA PreparedIsSafe ==
  ASSUME NEW A, NEW P, NEW V, NEW M, TypesOK(A, P, V, M), SafetyOK(A, P, V, M),
         NEW n \in Nodes, P[n].phase = "prepare", Majority(P[n].grants)
  PROVE  /\ SafeAt(A, V, A[n].inst, <<P[n].id, n>>, P[n].value)
         /\ Cleared(A, V, <<P[n].id, n>>, A[n].inst)
<1> DEFINE i == A[n].inst
           b == <<P[n].id, n>>
           q == P[n].pre
           v == P[n].value
           G == P[n].grants
<1>1. b \in Ballots /\ q \in Ballots /\ G \in SUBSET Nodes /\ V \subseteq Voted /\ M \subseteq Messages
  BY ProposerTypes DEF TypesOK
<1>2. /\ \A g \in G : HasPromised(A, V, g, i, b, q)
      /\ q # Null => \E w \in V : w.inst = i /\ w.ballot = q /\ w.value = v
  BY DEF SafetyOK, PreparingOK, VotedFor
<1>3. Cleared(A, V, b, i)
  BY <1>1, <1>2 DEF Cleared, HasPromised
<1>4. ASSUME NEW c \in Ballots, Above(b, c)
      PROVE  \E Q \in SUBSET Nodes : Majority(Q) /\
               \A k \in Q : /\ Above(A[k].promise, c)
                            /\ \A w \in V : w.node = k /\ w.inst = i /\ w.ballot = c => w.value = v
  <2>1. ~ AtLeast(c, b)
    BY <1>1, <1>4, AboveIsNotAtMost
  <2>2. ASSUME NEW g \in G
        PROVE  /\ Above(A[g].promise, c)
               /\ \A w \in V : w.node = g /\ w.inst = i /\ w.ballot = c => AtLeast(q, c)
    <3>1. A[g].promise \in Ballots
      BY <1>1, AcceptorTypes
    <3>2. ~ AtLeast(c, A[g].promise)
      BY <1>1, <1>2, <1>4, <2>1, <3>1, AtLeastIsTransitive DEF HasPromised
    <3>. QED  BY <1>2, <1>4, <2>1, <3>1, <3>2, AboveIsNotAtMost DEF HasPromised, LowVotes
  <2>3. CASE ~ AtLeast(q, c)
    BY <1>1, <2>2, <2>3
  <2>4. CASE AtLeast(q, c)
    <3>1. c # Null \/ \A w \in V : w.ballot # c
      <4>1. \A w \in V : w.ballot # Null
        BY <1>1, AcceptTypes DEF SafetyOK, VotesOK
      <4>. QED  BY <4>1
    <3>2. CASE q = Null
      <4>1. c = Null
        BY <1>1, <1>4, <2>4, <3>2, NullIsLeast, AtLeastIsTotal
      <4>. QED  BY <1>1, <2>2, <3>1, <4>1
    <3>3. CASE q # Null
      <4>1. PICK w0 \in V : w0.inst = i /\ w0.ballot = q /\ w0.value = v
        BY <1>2, <3>3
      <4>2. PICK m0 \in Accepts(M) : m0.inst = i /\ From(m0) = q /\ m0.value = v
        BY <4>1 DEF SafetyOK, VotesOK
      <4>3. CASE q = c
        <5>1. \A w \in V : w.inst = i /\ w.ballot = c => w.value = v
          BY <4>2, <4>3 DEF SafetyOK, VotesOK, OneValue
        <5>. QED  BY <1>1, <2>2, <5>1
      <4>4. CASE q # c
        <5>1. Above(q, c)
          BY <1>1, <1>4, <2>4, <4>4, AboveIsNotAtMost, AtLeastIsTotal
        <5>2. SafeAt(A, V, i, q, v)
          BY <4>2 DEF SafetyOK, AcceptsOK
        <5>. QED  BY <1>4, <5>1, <5>2 DEF SafeAt
      <4>. QED  BY <4>3, <4>4
    <3>. QED  BY <3>2, <3>3
  <2>. QED  BY <2>3, <2>4
<1>5. SafeAt(A, V, i, b, v)
  BY <1>4 DEF SafeAt
<1>. QED  BY <1>3, <1>5

------------------------------------------------------------------------------
(***************************************************************************)
(* The records on disk.                                                    *)
(***************************************************************************)
LEMMA RecordIs ==
  ASSUME NEW a \in Acceptors
  PROVE  /\ Record(a) \in Records
         /\ Record(a).value = a.value /\ Record(a).promise = a.promise /\ Record(a).ballot = a.ballot
BY DEF Record, Records, Acceptors

LEMMA NoRecordIs == NoRecord \in Records /\ NoRecord.value = NoValue
BY NullIsLeast DEF NoRecord, Records, Contents

LEMMA InstancesAreNat == \A i \in Instances : i \in Nat
BY BoundsAssumption DEF Instances

LEMMA RecTypes ==
  ASSUME NEW A, NEW L, NEW E, Rec(A, L, E), NEW n \in Nodes
  PROVE  L[n] \in [Instances -> Records]
BY DEF Rec

\* AcceptorState::Persist.
LEMMA RecPersist ==
  ASSUME NEW A, A \in [Nodes -> Acceptors], NEW L, NEW E, Rec(A, L, E), NEW n \in Nodes,
         NEW a1 \in Acceptors, a1.inst = A[n].inst
  PROVE  Rec([A EXCEPT ![n] = a1], [L EXCEPT ![n][a1.inst] = Record(a1)], E)
<1> DEFINE i == a1.inst
           l1 == [L[n] EXCEPT ![i] = Record(a1)]
           A1 == [A EXCEPT ![n] = a1]
           L1 == [L EXCEPT ![n] = l1]
<1>1. /\ L \in [Nodes -> [Instances -> Records]] /\ E \subseteq (0 .. LastInstance) \X Values
      /\ \A k \in Nodes : RecordsOK(A[k], L[k], E)
  BY DEF Rec
<1>2. i \in Instances /\ i \in Nat /\ Record(a1) \in Records
  BY RecordIs, InstancesAreNat DEF Acceptors
<1>3. l1 \in [Instances -> Records] /\ l1[i] = Record(a1) /\ \A j \in Instances : j # i => l1[j] = L[n][j]
  BY <1>1, <1>2
<1>4. [L EXCEPT ![n][i] = Record(a1)] = L1
  BY <1>1
<1> HIDE DEF l1
<1>5. RecordsOK(a1, l1, E)
  <2>1. RecordsOK(A[n], L[n], E)
    BY <1>1
  <2>2. ASSUME NEW j \in Instances
        PROVE  /\ j > i => l1[j] = NoRecord
               /\ j < i => l1[j].value \in Values /\ <<j, l1[j].value>> \in E
    <3>1. j \in Nat
      BY InstancesAreNat
    <3>. QED  BY <1>2, <1>3, <2>1, <3>1 DEF RecordsOK
  <2>. QED  BY <1>3, <2>2 DEF RecordsOK
<1>6. /\ L1 \in [Nodes -> [Instances -> Records]] /\ L1[n] = l1 /\ A1[n] = a1
      /\ \A k \in Nodes : k # n => L1[k] = L[k] /\ A1[k] = A[k]
  BY <1>1, <1>3
<1> HIDE DEF L1, A1
<1>7. Rec(A1, L1, E)
  BY <1>1, <1>5, <1>6 DEF Rec
<1>. QED  BY <1>4, <1>7 DEF A1

\* More may be executed.
LEMMA RecMore ==
  ASSUME NEW A, NEW L, NEW E, Rec(A, L, E), NEW E1, E \subseteq E1,
         E1 \subseteq (0 .. LastInstance) \X Values
  PROVE  Rec(A, L, E1)
BY DEF Rec, RecordsOK

\* The record l of the instance that ends holds its value v.
LEMMA RecNextOf ==
  ASSUME NEW A, A \in [Nodes -> Acceptors], NEW L, NEW E, Rec(A, L, E), NEW n \in Nodes,
         A[n].inst <= LastInstance,
         NEW r \in Records, r.value \in Values
  PROVE  Rec([A EXCEPT ![n] = NextInstance(A[n])], [L EXCEPT ![n][A[n].inst] = r],
             E \cup {<<A[n].inst, r.value>>})
<1> DEFINE i == A[n].inst
           l1 == [L[n] EXCEPT ![i] = r]
           a1 == NextInstance(A[n])
           A1 == [A EXCEPT ![n] = a1]
           L1 == [L EXCEPT ![n] = l1]
           E1 == E \cup {<<i, r.value>>}
<1>1. /\ L \in [Nodes -> [Instances -> Records]] /\ E \subseteq (0 .. LastInstance) \X Values
      /\ \A k \in Nodes : RecordsOK(A[k], L[k], E)
  BY DEF Rec
<1>2. i \in Instances /\ i \in Nat /\ i \in 0 .. LastInstance /\ A[n] \in Acceptors
  <2>1. A[n] \in Acceptors /\ i \in Instances
    BY DEF Acceptors
  <2>. QED  BY <2>1, InstancesAreNat, BoundsAssumption
<1>3. l1 \in [Instances -> Records] /\ l1[i] = r /\ \A j \in Instances : j # i => l1[j] = L[n][j]
  BY <1>1, <1>2
<1>4. [L EXCEPT ![n][i] = r] = L1
  BY <1>1
<1>5. a1 \in Acceptors /\ a1.inst = i + 1 /\ a1.ballot = Null /\ a1.value = NoValue
  BY <1>2, NextIs
<1> HIDE DEF l1, a1
<1>6. E1 \subseteq (0 .. LastInstance) \X Values
  BY <1>1, <1>2
<1>7. RecordsOK(a1, l1, E1)
  <2>1. RecordsOK(A[n], L[n], E)
    BY <1>1
  <2>2. ASSUME NEW j \in Instances
        PROVE  /\ j > i => j # i /\ l1[j] = NoRecord
               /\ j < i + 1 => l1[j].value \in Values /\ <<j, l1[j].value>> \in E1
    <3>1. j \in Nat
      BY InstancesAreNat
    <3>2. CASE j = i  BY <1>2, <1>3, <3>1, <3>2
    <3>3. CASE j # i  BY <1>2, <1>3, <2>1, <3>1, <3>3 DEF RecordsOK
    <3>. QED  BY <3>2, <3>3
  <2>3. a1.inst \in Instances
    BY <1>5 DEF Acceptors
  <2>4. l1[a1.inst] = NoRecord
    <3>1. a1.inst > i
      BY <1>2, <1>5
    <3>. QED  BY <2>2, <2>3, <3>1
  <2>5. \A j \in Instances : j > a1.inst => l1[j] = NoRecord
    <3>1. \A j \in Instances : j > i + 1 => j > i
      BY <1>2, InstancesAreNat
    <3>. QED  BY <1>5, <2>2, <3>1
  <2>. QED  BY <1>5, <2>2, <2>4, <2>5 DEF RecordsOK
<1>8. /\ L1 \in [Nodes -> [Instances -> Records]] /\ L1[n] = l1 /\ A1[n] = a1
      /\ \A k \in Nodes : k # n => L1[k] = L[k] /\ A1[k] = A[k]
  BY <1>1, <1>3
<1> HIDE DEF L1, A1
<1>9. \A k \in Nodes : k # n => RecordsOK(A1[k], L1[k], E1)
  BY <1>1, <1>8 DEF RecordsOK
<1>10. Rec(A1, L1, E1)
  BY <1>6, <1>7, <1>8, <1>9 DEF Rec
<1>. QED  BY <1>4, <1>10 DEF A1, a1

\* The node's own acceptor holds the value.
LEMMA RecNext ==
  ASSUME NEW A, A \in [Nodes -> Acceptors], NEW L, NEW E, Rec(A, L, E), NEW n \in Nodes,
         A[n].inst <= LastInstance, A[n].ballot # Null, A[n].value \in Values
  PROVE  Rec([A EXCEPT ![n] = NextInstance(A[n])], L, E \cup {<<A[n].inst, A[n].value>>})
<1> DEFINE i == A[n].inst
           r == Record(A[n])
<1>1. A[n] \in Acceptors /\ i \in Instances
  BY DEF Acceptors
<1>2. r \in Records /\ r.value = A[n].value
  BY <1>1, RecordIs
<1>3. L[n][i] = r /\ L \in [Nodes -> [Instances -> Records]]
  BY DEF Rec, RecordsOK
<1>4. [L EXCEPT ![n][i] = r] = L
  BY <1>1, <1>3
<1>5. r.value \in Values
  BY <1>2
<1> HIDE DEF r
<1>6. Rec([A EXCEPT ![n] = NextInstance(A[n])], [L EXCEPT ![n][A[n].inst] = r],
          E \cup {<<A[n].inst, r.value>>})
  BY <1>2, <1>5, RecNextOf
<1>. QED  BY <1>2, <1>4, <1>6

\* Learner::OnSendLearnValue.
LEMMA RecLearn ==
  ASSUME NEW A, A \in [Nodes -> Acceptors], NEW L, NEW E, Rec(A, L, E), NEW n \in Nodes, NEW k \in Nodes,
         A[k].inst > A[n].inst
  PROVE  LET i == A[n].inst  r == L[k][i]
         IN  /\ i <= LastInstance /\ r.value \in Values /\ <<i, r.value>> \in E
             /\ Rec([A EXCEPT ![n] = NextInstance(A[n])],
                    [L EXCEPT ![n][i] = [r EXCEPT !.promise = r.ballot]], E \cup {<<i, r.value>>})
<1> DEFINE i == A[n].inst
           r == L[k][i]
           r1 == [r EXCEPT !.promise = r.ballot]
<1>1. i \in Instances /\ A[k].inst \in Instances
  BY DEF Acceptors
<1>2. i <= LastInstance
  BY <1>1, BoundsAssumption DEF Instances
<1>3. r.value \in Values /\ <<i, r.value>> \in E
  BY <1>1, BoundsAssumption DEF Rec, RecordsOK, Instances
<1>4. r \in Records
  BY <1>1 DEF Rec
<1>5. r1 \in Records /\ r1.value = r.value
  BY <1>4 DEF Records
<1> HIDE DEF r1
<1>6. Rec([A EXCEPT ![n] = NextInstance(A[n])], [L EXCEPT ![n][i] = r1], E \cup {<<i, r1.value>>})
  BY <1>2, <1>3, <1>5, RecNextOf
<1>. QED  BY <1>2, <1>3, <1>5, <1>6 DEF r1

\* Instance::Init: the acceptor is read back from the last record.
LEMMA LastLoggedIs ==
  ASSUME TypesOK(acc, prop, votes, msgs), Rec(acc, log, executed), NEW n \in Nodes
  PROVE  /\ LastLogged(n) \in Instances
         /\ LastLogged(n) <= acc[n].inst
         /\ \/ LastLogged(n) = acc[n].inst
            \/ log[n][acc[n].inst] = NoRecord /\ LastLogged(n) < acc[n].inst
         /\ \A i \in Instances : i > LastLogged(n) => i >= acc[n].inst
<1> DEFINE i == acc[n].inst
           S == Logged(n)
           l == LastLogged(n)
<1>1. i \in Instances /\ i \in Nat
  BY AcceptorTypes DEF Acceptors
<1>2. /\ \A j \in Instances : j > i => j \notin S
      /\ \A j \in Instances : j < i => j \in S
  <2>1. RecordsOK(acc[n], log[n], executed)
    BY DEF Rec
  <2>2. NoRecord.value \notin Values
    BY NoRecordIs, ValuesAssumption
  <2>. QED  BY <2>1, <2>2 DEF RecordsOK, Logged
<1>3. S \subseteq Instances
  BY DEF Logged
<1>4. \A j \in S : j \in Nat /\ j <= i
  BY <1>1, <1>2, <1>3, InstancesAreNat
<1>5. ASSUME NEW m \in S, \A j \in S : j <= m
      PROVE  l = m
  <2>1. l \in S /\ \A j \in S : j <= l
    BY <1>5 DEF LastLogged
  <2>. QED  BY <1>4, <1>5, <2>1
<1>6. CASE i \in S
  <2>1. l = i
    BY <1>4, <1>5, <1>6
  <2>2. \A j \in Instances : j > i => j >= i
    BY <1>1, InstancesAreNat
  <2>. QED  BY <1>1, <2>1, <2>2
<1>7. CASE i \notin S /\ i = 0
  <2>1. S = {}
    BY <1>1, <1>2, <1>3, <1>4, <1>7, InstancesAreNat
  <2>2. l = 0
    BY <2>1 DEF LastLogged
  <2>. QED  BY <1>1, <1>7, <2>2, InstancesAreNat
<1>8. CASE i \notin S /\ i # 0
  <2>1. i - 1 \in Instances /\ i - 1 \in Nat
    BY <1>1, <1>8, BoundsAssumption DEF Instances
  <2>2. i - 1 \in S
    BY <1>1, <1>2, <2>1
  <2>3. \A j \in S : j <= i - 1
    BY <1>1, <1>4, <1>8
  <2>4. l = i - 1
    BY <1>5, <2>2, <2>3
  <2>5. log[n][i] = NoRecord
    BY <1>1, <1>8 DEF Logged
  <2>6. \A j \in Instances : j > i - 1 => j >= i
    BY <1>1, InstancesAreNat
  <2>. QED  BY <1>1, <2>1, <2>4, <2>5, <2>6
<1>. QED  BY <1>6, <1>7, <1>8

LEMMA LoadedIs ==
  ASSUME TypesOK(acc, prop, votes, msgs), Rec(acc, log, executed), NEW n \in Nodes
  PROVE  /\ Loaded(n) \in Acceptors
         /\ Loaded(n).ballot # Null => Loaded(n).value \in Values
         /\ {<<i, log[n][i].value>> : i \in 0 .. LastLogged(n) - 1} \subseteq executed
         /\ Rec([acc EXCEPT ![n] = Loaded(n)], log, executed)
<1> DEFINE i == acc[n].inst
           l == LastLogged(n)
           r == log[n][l]
           a1 == Loaded(n)
<1>1. /\ i \in Instances /\ i \in Nat /\ acc[n] \in Acceptors
      /\ acc[n].ballot # Null => acc[n].value \in Values
  BY AcceptorTypes DEF Acceptors, TypesOK
<1>2. /\ l \in Instances /\ l \in Nat /\ l <= i
      /\ l = i \/ (log[n][i] = NoRecord /\ l < i)
      /\ \A j \in Instances : j > l => j >= i
  BY LastLoggedIs, InstancesAreNat
<1>3. RecordsOK(acc[n], log[n], executed) /\ log[n] \in [Instances -> Records] /\ r \in Records
  BY <1>2 DEF Rec
<1>4. a1 = [inst |-> l, promise |-> r.promise, ballot |-> r.ballot, value |-> r.value]
  BY DEF Loaded
<1>5. /\ a1 \in Acceptors /\ a1.inst = l /\ a1.ballot = r.ballot /\ a1.value = r.value
      /\ Record(a1) = r
  BY <1>2, <1>3, <1>4 DEF Acceptors, Records, Record
<1> HIDE DEF l, r, a1
<1>6. a1.ballot # Null => a1.value \in Values
  <2>1. CASE l = i
    <3>1. r = Record(acc[n]) \/ r = NoRecord
      BY <1>3, <2>1 DEF RecordsOK, r
    <3>2. CASE r = Record(acc[n])
      BY <1>1, <1>5, <3>2, RecordIs
    <3>3. CASE r = NoRecord
      BY <1>5, <3>3 DEF NoRecord
    <3>. QED  BY <3>1, <3>2, <3>3
  <2>2. CASE l < i
    BY <1>2, <1>3, <1>5, <2>2 DEF RecordsOK, r
  <2>. QED  BY <1>2, <2>1, <2>2
<1>7. ASSUME NEW j \in 0 .. l - 1
      PROVE  j \in Instances /\ log[n][j].value \in Values /\ <<j, log[n][j].value>> \in executed
  <2>1. j \in Instances /\ j < i
    BY <1>1, <1>2, BoundsAssumption DEF Instances
  <2>. QED  BY <1>3, <2>1 DEF RecordsOK
<1>8. RecordsOK(a1, log[n], executed)
  <2>1. \A j \in Instances : j > l => log[n][j] = NoRecord
    <3> SUFFICES ASSUME NEW j \in Instances, j > l PROVE log[n][j] = NoRecord
      OBVIOUS
    <3>1. j \in Nat /\ j >= i
      BY <1>2, InstancesAreNat
    <3>2. CASE j = i
      <4>1. l # i
        BY <1>1, <1>2, <3>2
      <4>. QED  BY <1>2, <3>2, <4>1
    <3>3. CASE j # i
      <4>1. j > i
        BY <1>1, <3>1, <3>3
      <4>. QED  BY <1>3, <4>1 DEF RecordsOK
    <3>. QED  BY <3>2, <3>3
  <2>2. ASSUME NEW j \in Instances, j < l
        PROVE  log[n][j].value \in Values /\ <<j, log[n][j].value>> \in executed
    BY <1>2, <1>7, <2>2, InstancesAreNat
  <2>3. log[n][l] = Record(a1)
    BY <1>5 DEF r
  <2>. QED  BY <1>5, <2>1, <2>2, <2>3 DEF RecordsOK
<1>9. Rec([acc EXCEPT ![n] = a1], log, executed)
  <2> DEFINE A1 == [acc EXCEPT ![n] = a1]
  <2>1. A1[n] = a1 /\ \A k \in Nodes : k # n => A1[k] = acc[k]
    BY DEF TypesOK
  <2> HIDE DEF A1
  <2>2. Rec(A1, log, executed)
    BY <1>8, <2>1 DEF Rec
  <2>. QED  BY <2>2 DEF A1
<1>10. {<<j, log[n][j].value>> : j \in 0 .. l - 1} \subseteq executed
  BY <1>7
<1>. QED  BY <1>5, <1>6, <1>9, <1>10 DEF l, a1

------------------------------------------------------------------------------
(***************************************************************************)
(* The handlers: the small steps one after the other.                      *)
(***************************************************************************)
LEMMA UpdateTwice ==
  ASSUME NEW S, NEW T, NEW f \in [S -> T], NEW n \in S, NEW x, NEW y
  PROVE  [[f EXCEPT ![n] = x] EXCEPT ![n] = y] = [f EXCEPT ![n] = y]
OBVIOUS

LEMMA SameUpdate ==
  ASSUME NEW S, NEW T, NEW f \in [S -> T], NEW n \in S
  PROVE  [f EXCEPT ![n] = f[n]] = f
OBVIOUS

LEMMA PersistKeeps ==
  ASSUME NEW n \in Nodes, acc \in [Nodes -> Acceptors], NEW E,
         NEW a \in Acceptors, NEW b, NEW a1 \in Acceptors,
         a1.inst = a.inst, RejectId(a, b) # 0 => a1 = a,
         Rec([acc EXCEPT ![n] = a], log, E), Persist(n, a, b, a1)
  PROVE  acc' = [acc EXCEPT ![n] = a1] /\ Rec(acc', log', E)
<1> DEFINE A == [acc EXCEPT ![n] = a]
<1>1. A \in [Nodes -> Acceptors] /\ A[n] = a
  OBVIOUS
<1>2. [A EXCEPT ![n] = a1] = [acc EXCEPT ![n] = a1]
  BY UpdateTwice
<1>3. acc' = [acc EXCEPT ![n] = a1]
  BY DEF Persist
<1> HIDE DEF A
<1>4. CASE RejectId(a, b) = 0
  <2>1. log' = [log EXCEPT ![n][a1.inst] = Record(a1)]
    BY <1>4 DEF Persist
  <2>2. Rec(A, log, E) /\ a1.inst = A[n].inst
    BY <1>1 DEF A
  <2>3. Rec([A EXCEPT ![n] = a1], [log EXCEPT ![n][a1.inst] = Record(a1)], E)
    BY <1>1, <2>2, RecPersist
  <2>. QED  BY <1>2, <1>3, <2>1, <2>3
<1>5. CASE RejectId(a, b) # 0
  <2>1. log' = log /\ acc' = A
    BY <1>3, <1>5 DEF Persist, A
  <2>. QED  BY <1>3, <2>1 DEF A
<1>. QED  BY <1>4, <1>5

LEMMA PromiseFor ==
  ASSUME NEW a \in Acceptors, NEW id \in 1 .. MaxId, NEW k \in Nodes
  PROVE  RejectId(a, <<id, k>>) # 0 => Promised(a, <<id, k>>) = a
BY RejectIdOf DEF Promised

LEMMA VoteFor ==
  ASSUME NEW a \in Acceptors, NEW id \in 1 .. MaxId, NEW k \in Nodes, NEW v \in Values
  PROVE  /\ Accepted(a, <<id, k>>, v) \in Acceptors
         /\ Accepted(a, <<id, k>>, v).inst = a.inst
         /\ RejectId(a, <<id, k>>) # 0 => Accepted(a, <<id, k>>, v) = a
<1>1. <<id, k>> \in Ballots
  BY RoundBallot
<1>2. CASE AtLeast(<<id, k>>, a.promise)
  BY <1>1, <1>2, AcceptedIs, RejectIdOf
<1>3. CASE ~ AtLeast(<<id, k>>, a.promise)
  BY <1>3 DEF Accepted
<1>. QED  BY <1>2, <1>3

\* The node's own acceptor, unless it rejects the ballot by now, gives back the
\* value of an Accept that was sent under it.
LEMMA OwnValueIsRecovered ==
  ASSUME NEW A, NEW P, NEW V, NEW M, TypesOK(A, P, V, M), SafetyOK(A, P, V, M), OwnOK(A, P, M),
         NEW n \in Nodes, NEW id \in 1 .. MaxId, id >= P[n].id,
         NEW m \in Accepts(M), m.from = n, m.inst = A[n].inst, m.id = id,
         AtLeast(<<id, n>>, A[n].promise)
  PROVE  A[n].ballot = From(m) /\ A[n].value = m.value
<1> DEFINE b == <<id, n>>
<1>1. From(m) = b /\ b \in Ballots /\ b # Null /\ A[n].promise \in Ballots
  BY RoundBallot, AcceptorTypes DEF From
<1>2. AtLeast(A[n].promise, From(m)) /\ m.id <= P[n].id
  <2>1. AtLeast(A[m.from].promise, From(m)) /\ m.id <= P[m.from].id
    BY DEF OwnOK, SafetyOK, AcceptsOK
  <2>. QED  BY <2>1
<1>3. A[n].promise = b
  BY <1>1, <1>2, AtLeastIsTotal
<1>4. P[n].id \in Nat /\ id \in Nat
  <2>1. P[n].id \in Nat
    BY ProposerTypes
  <2>. QED  BY <2>1, BoundsAssumption
<1>5. m.id = P[n].id
  BY <1>2, <1>4
<1>6. A[n].ballot = b
  BY <1>1, <1>3, <1>5 DEF OwnOK
<1>7. VotedFor(V, A[n].inst, b, A[n].value)
  BY <1>1, <1>6 DEF SafetyOK, BallotsOK
<1>8. PICK w \in V : w.inst = A[n].inst /\ w.ballot = b /\ w.value = A[n].value
  BY <1>7 DEF VotedFor
<1>9. PICK k \in Accepts(M) : k.inst = A[n].inst /\ From(k) = b /\ k.value = A[n].value
  BY <1>8 DEF SafetyOK, VotesOK
<1>10. k.value = m.value
  BY <1>1, <1>9 DEF SafetyOK, OneValue
<1>. QED  BY <1>1, <1>6, <1>9, <1>10

\* A Prepare that reuses a ballot is outside of what is calm.
LEMMA PrepareKeeps ==
  ASSUME PInv, NEW n \in Nodes, prop \in [Nodes -> Proposers], NEW p \in Proposers,
         p.id = prop[n].id, Core(acc, [prop EXCEPT ![n] = p], votes, msgs),
         p.value # NoValue, acc[n].inst <= LastInstance, Prepare(n, p)
  PROVE  /\ TypesOK(acc', prop', votes', msgs') /\ Rec(acc', log', executed)
         /\ Calm' => Calm /\ SafetyOK(acc', prop', votes', msgs')
         /\ mishaps' \subseteq {"reused", "misheard", "forgot"}
<1> DEFINE P0 == [prop EXCEPT ![n] = p]
           id == NewId(p)
           b  == <<id, n>>
           m  == [type |-> "Prepare", inst |-> acc[n].inst, from |-> n, id |-> id]
           r  == PrepareReply(acc[n], n, b)
           a1 == Promised(acc[n], b)
           A1 == [acc EXCEPT ![n] = a1]
           P2 == [P0 EXCEPT ![n] = CountPromise(StartPrepare(p), r)]
           M1 == (msgs \cup {m}) \cup {r}
<1>0. TypesOK(acc, P0, votes, msgs) /\ acc \in [Nodes -> Acceptors] /\ acc[n] \in Acceptors
      /\ (acc[n].ballot # Null => acc[n].value \in Values) /\ Rec(acc, log, executed)
      /\ TypesOK(acc, prop, votes, msgs) /\ mishaps \subseteq {"reused", "misheard", "forgot"}
  BY DEF PInv, PBase, Core, TypesOK
<1>1. P0[n] = p /\ P0 \in [Nodes -> Proposers]
  OBVIOUS
<1>2. StartPrepare(p).id = id
  BY DEF StartPrepare, Proposers
<1>3. /\ id <= MaxId /\ acc' = A1 /\ Persist(n, acc[n], b, a1)
      /\ prop' = [prop EXCEPT ![n] = CountPromise(StartPrepare(p), r)]
      /\ msgs' = msgs \cup {m} /\ votes' = votes
      /\ mishaps' = IF Reuses(n, b) THEN mishaps \cup {"reused"} ELSE mishaps
  BY <1>2 DEF Prepare, Persist
<1>4. id \in 1 .. MaxId /\ id >= p.id /\ b \in Ballots
  BY <1>3, NewIdIs, RoundBallot
<1>5. P2 = [prop EXCEPT ![n] = CountPromise(StartPrepare(p), r)]
  BY <1>1, UpdateTwice
<1>6. m \in Messages /\ m.type = "Prepare"
  BY <1>0, <1>4 DEF Messages, Acceptors
<1>7. /\ r \in Messages /\ r.type = "PrepareReply" /\ r.inst = acc[n].inst
      /\ r.to = n /\ r.id = id /\ r.reject = RejectId(acc[n], b)
      /\ r.reject = 0 => r.pre = acc[n].ballot /\ r.value = acc[n].value
  BY <1>0, <1>4, PrepareReplyIs
<1>8. a1 \in Acceptors /\ a1.inst = acc[n].inst
  BY <1>0, <1>4, PromisedIs
<1>9. A1[n] = a1
  BY <1>0
<1>10. RejectId(acc[n], b) # 0 => a1 = acc[n]
  BY <1>0, <1>4, PromiseFor
<1>11. A1 = [acc EXCEPT ![n] = Promised(acc[n], <<id, n>>)] /\ M1 = (msgs \cup {m}) \cup {PrepareReply(acc[n], n, <<id, n>>)}
       /\ P2 = [P0 EXCEPT ![n] = CountPromise(StartPrepare(P0[n]), r)] /\ id = NewId(P0[n])
       /\ b = <<id, n>> /\ r \in M1
  BY <1>1
<1>12. Accepts(msgs \cup {m}) = Accepts(msgs) /\ Accepts(M1) = Accepts(msgs)
  BY <1>6, <1>7 DEF Accepts
<1>13. msgs \cup {m} \subseteq M1
  OBVIOUS
<1> HIDE DEF P0, id, m, r, a1, A1, b, P2, M1
<1>14. Core(acc, P0, votes, msgs \cup {m})
  BY <1>6, SendStep DEF P0
<1>15. Core(A1, P0, votes, M1)
  BY <1>4, <1>11, <1>14, PromiseStep
<1>16. /\ TypesOK(A1, P2, votes, M1)
       /\ SafetyOK(A1, P0, votes, M1) /\ Recovers(A1, M1, n, id, r) => SafetyOK(A1, P2, votes, M1)
  <2>1. TypesOK(A1, P0, votes, M1)
    BY <1>15 DEF Core
  <2>2. P0[n].value # NoValue /\ A1[n].inst <= LastInstance /\ NewId(P0[n]) <= MaxId
        /\ r.inst = A1[n].inst /\ r.id = NewId(P0[n])
    BY <1>1, <1>3, <1>7, <1>8, <1>9, <1>11
  <2>3. LET P1 == [P0 EXCEPT ![n] = CountPromise(StartPrepare(P0[n]), r)]
        IN  /\ TypesOK(A1, P1, votes, M1)
            /\ SafetyOK(A1, P0, votes, M1) /\ Recovers(A1, M1, n, NewId(P0[n]), r)
               => SafetyOK(A1, P1, votes, M1)
    BY <1>7, <1>11, <2>1, <2>2, PreparedStep
  <2>. QED  BY <1>11, <2>3
<1>17. TypesOK(A1, P2, votes, msgs \cup {m})
  BY <1>13, <1>16 DEF TypesOK
<1>18. ASSUME Calm'
       PROVE  Calm /\ SafetyOK(A1, P2, votes, msgs \cup {m})
  <2>1. ~ Reuses(n, b) /\ Calm
    BY <1>3, <1>18 DEF Calm
  <2>2. SafetyOK(acc, P0, votes, msgs) /\ OwnOK(acc, P0, msgs)
    <3>1. SafetyOK(acc, P0, votes, msgs)
      BY <2>1 DEF Core, P0
    <3>2. OwnOK(acc, prop, msgs)
      BY <2>1 DEF PInv, KeptOK
    <3>3. \A k \in Nodes : P0[k].id = prop[k].id
      BY <1>1 DEF P0
    <3>4. \A k \in Accepts(msgs) : k.from \in Nodes
      BY <1>0, AcceptTypes DEF TypesOK
    <3>. QED  BY <3>1, <3>2, <3>3, <3>4 DEF OwnOK
  <2>3. Recovers(A1, M1, n, id, r)
    <3> SUFFICES ASSUME NEW k \in Accepts(msgs), k.from = n, k.inst = acc[n].inst, k.id = id
                 PROVE  r.reject = 0 /\ r.pre = From(k) /\ r.value = k.value
      BY <1>8, <1>9, <1>12 DEF Recovers
    <3>1. k \in msgs /\ k.type = "Accept" /\ <<k.id, k.from>> = b
      BY <1>11 DEF Accepts
    <3>2. RejectId(acc[n], b) = 0
      BY <2>1, <3>1 DEF Reuses
    <3>3. AtLeast(<<id, n>>, acc[n].promise)
      BY <1>0, <1>4, <1>11, <3>2, RejectIdOf
    <3>4. id >= P0[n].id
      BY <1>1, <1>4
    <3>5. acc[n].ballot = From(k) /\ acc[n].value = k.value
      BY <1>0, <1>4, <2>2, <3>3, <3>4, OwnValueIsRecovered
    <3>. QED  BY <1>7, <3>2, <3>5
  <2>4. SafetyOK(A1, P2, votes, M1)
    BY <1>15, <1>16, <2>1, <2>3 DEF Core
  <2>5. Core(A1, P2, votes, M1)
    BY <1>16, <2>4 DEF Core
  <2>6. Core(A1, P2, votes, msgs \cup {m})
    BY <1>12, <1>13, <2>5, DropStep
  <2>. QED  BY <2>1, <2>6 DEF Core
<1>19. Rec(acc', log', executed)
  <2>1. Rec([acc EXCEPT ![n] = acc[n]], log, executed)
    BY <1>0, SameUpdate
  <2>. QED  BY <1>0, <1>3, <1>8, <1>10, <2>1, PersistKeeps
<1>20. mishaps' \subseteq {"reused", "misheard", "forgot"}
  BY <1>0, <1>3
<1>21. acc' = A1 /\ prop' = P2 /\ votes' = votes /\ msgs' = msgs \cup {m}
  BY <1>3, <1>5
<1>. QED  BY <1>17, <1>18, <1>19, <1>20, <1>21

LEMMA StartAcceptIs ==
  ASSUME NEW p \in Proposers
  PROVE  /\ StartAccept(p) \in Proposers
         /\ StartAccept(p).phase = "accept" /\ StartAccept(p).grants = {}
         /\ StartAccept(p).id = p.id /\ StartAccept(p).value = p.value /\ StartAccept(p).skip = p.skip
BY DEF StartAccept, Proposers

LEMMA AcceptKeeps ==
  ASSUME NEW n \in Nodes, prop \in [Nodes -> Proposers], NEW q \in Proposers, NEW p \in Proposers,
         Core(acc, [prop EXCEPT ![n] = q], votes, msgs), Rec(acc, log, executed),
         p.skip, p.id = q.id, p.id \in 1 .. MaxId, p.value = q.value, p.value # NoValue,
         acc[n].inst <= LastInstance,
         Calm /\ SafetyOK(acc, [prop EXCEPT ![n] = q], votes, msgs) =>
           /\ SafeAt(acc, votes, acc[n].inst, <<p.id, n>>, p.value)
           /\ Cleared(acc, votes, <<p.id, n>>, acc[n].inst)
           /\ \A m \in Accepts(msgs) :
                m.from = n /\ m.inst = acc[n].inst /\ m.id = p.id => m.value = p.value,
         Accept(n, p)
  PROVE  Core(acc', prop', votes', msgs') /\ Rec(acc', log', executed)
<1> DEFINE P0 == [prop EXCEPT ![n] = q]
           p1 == StartAccept(p)
           P1 == [P0 EXCEPT ![n] = p1]
           b  == <<p.id, n>>
           m  == AcceptMsg(n, acc[n].inst, p.id, p.value)
           r  == AcceptReply(acc[n], n, b)
           a1 == Accepted(acc[n], b, p.value)
           A1 == [acc EXCEPT ![n] = a1]
           V1 == CastVotes(votes, n, acc[n], b, p.value)
           P2 == [P1 EXCEPT ![n] = CountAccept(p1, r)]
<1>0. TypesOK(acc, P0, votes, msgs) /\ acc \in [Nodes -> Acceptors] /\ acc[n] \in Acceptors
      /\ p.value \in Values
  BY DEF Core, TypesOK, Proposers, Contents
<1>1. P0[n] = q /\ P0 \in [Nodes -> Proposers]
  OBVIOUS
<1>2. /\ p1 \in Proposers /\ p1.phase = "accept" /\ p1.skip /\ p1.grants = {}
      /\ p1.id = p.id /\ p1.value = p.value
  BY StartAcceptIs
<1>3. P1[n] = p1 /\ P1 \in [Nodes -> Proposers]
  BY <1>1, <1>2
<1>4. /\ acc' = A1 /\ Persist(n, acc[n], b, a1)
      /\ prop' = [prop EXCEPT ![n] = CountAccept(p1, r)]
      /\ msgs' = msgs \cup {m} /\ votes' = V1
  BY DEF Accept, Persist, Voting, CastVotes, Vote4, AcceptMsg
<1>5. [P1 EXCEPT ![n] = CountAccept(p1, r)] = [prop EXCEPT ![n] = CountAccept(p1, r)]
  BY <1>1, UpdateTwice
<1>6. /\ m.type = "Accept" /\ m.inst = acc[n].inst /\ From(m) = b /\ m.value = p.value
  BY DEF AcceptMsg, From
<1>7. /\ r \in Messages /\ r.type = "AcceptReply" /\ r.inst = acc[n].inst
      /\ r.to = n /\ r.id = p.id
  BY <1>0, AcceptReplyIs
<1>8. /\ a1 \in Acceptors /\ a1.inst = acc[n].inst
      /\ RejectId(acc[n], b) # 0 => a1 = acc[n]
  BY <1>0, VoteFor
<1>9. A1[n] = a1
  BY <1>0
<1> HIDE DEF P0, p1, P1, m, r, a1, b, V1
<1>10. Core(acc, P1, votes, msgs \cup {m})
  <2>1. Core(acc, P0, votes, msgs) /\ P0[n] = q
    BY <1>1 DEF P0
  <2>2. Calm /\ SafetyOK(acc, P0, votes, msgs) =>
          /\ SafeAt(acc, votes, acc[n].inst, <<p1.id, n>>, p1.value)
          /\ Cleared(acc, votes, <<p1.id, n>>, acc[n].inst)
          /\ \A k \in Accepts(msgs) :
               k.from = n /\ k.inst = acc[n].inst /\ k.id = p1.id => k.value = p1.value
    BY <1>2 DEF P0
  <2>3. Core(acc, [P0 EXCEPT ![n] = p1], votes,
             msgs \cup {AcceptMsg(n, acc[n].inst, p1.id, p1.value)})
    BY <1>2, <2>1, <2>2, StartAcceptStep
  <2>. QED  BY <1>2, <2>3 DEF P1, m
<1>11. m \in Accepts(msgs \cup {m})
  BY <1>6 DEF Accepts
<1>12. Core(A1, P1, V1, (msgs \cup {m}) \cup {r})
  <2>1. /\ [acc EXCEPT ![n] = Accepted(acc[n], From(m), m.value)] = A1
        /\ CastVotes(votes, n, acc[n], From(m), m.value) = V1
        /\ AcceptReply(acc[n], n, From(m)) = r
    BY <1>6 DEF a1, V1, r
  <2>2. Core([acc EXCEPT ![n] = Accepted(acc[n], From(m), m.value)], P1,
             CastVotes(votes, n, acc[n], From(m), m.value),
             (msgs \cup {m}) \cup {AcceptReply(acc[n], n, From(m))})
    BY <1>6, <1>10, <1>11, VoteStep
  <2>. QED  BY <2>1, <2>2
<1> HIDE DEF A1
<1>13. Core(A1, P2, V1, (msgs \cup {m}) \cup {r})
  BY <1>2, <1>3, <1>7, <1>8, <1>9, <1>12, CountAcceptStep, ZenonT(40)
<1>14. Core(A1, P2, V1, msgs \cup {m})
  <2>1. Accepts(msgs \cup {m}) = Accepts((msgs \cup {m}) \cup {r})
    BY <1>7 DEF Accepts
  <2>. QED  BY <1>13, <2>1, DropStep
<1>15. Rec(acc', log', executed)
  <2>1. Rec([acc EXCEPT ![n] = acc[n]], log, executed)
    <3>1. [acc EXCEPT ![n] = acc[n]] = acc
      BY <1>0
    <3>. QED  BY <3>1
  <2>. QED  BY <1>0, <1>4, <1>8, <2>1, PersistKeeps
<1>. QED  BY <1>4, <1>5, <1>14, <1>15 DEF P2

------------------------------------------------------------------------------
\* A step after which as much is calm as before.
LEMMA BaseKept ==
  ASSUME PInv, Core(acc', prop', votes', msgs'), Rec(acc', log', executed'), CountersOK',
         mishaps' = mishaps \/ mishaps' = mishaps \cup {"misheard"}
  PROVE  PBase'
<1>1. Calm' => Calm
  BY DEF Calm
<1>2. mishaps' \subseteq {"reused", "misheard", "forgot"}
  BY DEF PInv, PBase
<1>3. TypesOK(acc', prop', votes', msgs') /\ (Calm' => SafetyOK(acc', prop', votes', msgs'))
  BY <1>1 DEF Core
<1>4. Core(acc, prop, votes, msgs)'
  BY <1>3 DEF Core
<1>. QED  BY <1>2, <1>4 DEF PBase

LEMMA LearnKeeps ==
  ASSUME PInv, NEW n \in Nodes, acc[n].inst <= LastInstance, acc[n].ballot # Null,
         Learn(n, acc[n].value)
  PROVE  /\ Core([acc EXCEPT ![n] = NextInstance(acc[n])], prop', votes, msgs)
         /\ Rec([acc EXCEPT ![n] = NextInstance(acc[n])], log, executed')
         /\ busy' \in [Nodes -> BOOLEAN]
<1>1. TypesOK(acc, prop, votes, msgs) /\ Core(acc, prop, votes, msgs) /\ Rec(acc, log, executed)
  BY DEF PInv, PBase, Core
<1>2. acc[n].value \in Values /\ acc \in [Nodes -> Acceptors] /\ prop \in [Nodes -> Proposers]
  BY <1>1 DEF TypesOK
<1>3. /\ executed' = executed \cup {<<acc[n].inst, acc[n].value>>}
      /\ busy' = [busy EXCEPT ![n] = FALSE]
      /\ prop' = [prop EXCEPT ![n] = NewRound(prop[n])]
  BY DEF Learn
<1>4. busy' \in [Nodes -> BOOLEAN]
  BY <1>3 DEF PInv, PBase, CountersOK
<1>5. Core([acc EXCEPT ![n] = NextInstance(acc[n])], prop', votes, msgs)
  BY <1>1, <1>3, NextStep
<1>6. Rec([acc EXCEPT ![n] = NextInstance(acc[n])], log, executed')
  BY <1>1, <1>2, <1>3, RecNext
<1>. QED  BY <1>4, <1>5, <1>6

LEMMA CatchUpKeeps ==
  ASSUME PInv, NEW n \in Nodes, NEW m \in msgs, CatchUp(n, m)
  PROVE  /\ AcceptorFor(n, m) \in Acceptors
         /\ Core([acc EXCEPT ![n] = AcceptorFor(n, m)], prop', votes, msgs)
         /\ Rec([acc EXCEPT ![n] = AcceptorFor(n, m)], log, executed')
         /\ busy' \in [Nodes -> BOOLEAN]
         /\ mishaps' = mishaps \/ mishaps' = mishaps \cup {"misheard"}
<1>0. mishaps' = mishaps \/ mishaps' = mishaps \cup {"misheard"}
  BY DEF CatchUp
<1>1. TypesOK(acc, prop, votes, msgs) /\ Core(acc, prop, votes, msgs) /\ Rec(acc, log, executed)
      /\ acc \in [Nodes -> Acceptors] /\ acc[n] \in Acceptors /\ m \in Messages
  BY DEF PInv, PBase, Core, TypesOK
<1>2. CASE Announces(m, acc[n])
  <2>1. acc[n].inst <= LastInstance
    <3>1. m.inst \in Instances /\ m.inst = acc[n].inst + 1 /\ acc[n].inst \in Nat
      BY <1>1, <1>2, MsgTypes, AcceptorTypes DEF Announces
    <3>. QED  BY <3>1, BoundsAssumption DEF Instances
  <2>2. acc[n].ballot # Null /\ Learn(n, acc[n].value) /\ AcceptorFor(n, m) = NextInstance(acc[n])
    BY <1>2 DEF Announces, CatchUp, AcceptorFor
  <2>3. NextInstance(acc[n]) \in Acceptors
    BY <1>1, <2>1, NextIs
  <2>. QED  BY <1>0, <2>1, <2>2, <2>3, LearnKeeps
<1>3. CASE ~ Announces(m, acc[n])
  <2>1. /\ AcceptorFor(n, m) = acc[n] /\ prop' = prop /\ executed' = executed /\ busy' = busy
    BY <1>3 DEF CatchUp, AcceptorFor
  <2>2. [acc EXCEPT ![n] = acc[n]] = acc
    BY <1>1
  <2>3. busy \in [Nodes -> BOOLEAN]
    BY DEF PInv, PBase, CountersOK
  <2>. QED  BY <1>0, <1>1, <2>1, <2>2, <2>3
<1>. QED  BY <1>2, <1>3

LEMMA OnPrepareKeeps ==
  ASSUME PInv, NEW n \in Nodes, OnPrepare(n)
  PROVE  PBase'
<1>1. PICK m \in msgs :
        LET a == AcceptorFor(n, m)  a1 == Promised(a, From(m))
        IN  /\ m.type = "Prepare" /\ m.from # n /\ m.inst = a.inst
            /\ CatchUp(n, m)
            /\ Persist(n, a, From(m), a1)
            /\ msgs' = msgs \cup {PrepareReply(a, n, From(m))}
  BY DEF OnPrepare
<1> DEFINE a == AcceptorFor(n, m)
           a1 == Promised(a, From(m))
           A == [acc EXCEPT ![n] = a]
<1>2. /\ Core(A, prop', votes, msgs) /\ Rec(A, log, executed') /\ busy' \in [Nodes -> BOOLEAN]
      /\ a \in Acceptors /\ (mishaps' = mishaps \/ mishaps' = mishaps \cup {"misheard"})
  BY <1>1, CatchUpKeeps
<1>3. acc \in [Nodes -> Acceptors] /\ m \in Messages
  BY DEF PInv, PBase, Core, TypesOK
<1>4. A[n] = a /\ From(m) = <<m.id, m.from>> /\ m.id \in 1 .. MaxId /\ m.from \in Nodes
  BY <1>3, MsgTypes DEF From
<1>5. a1 \in Acceptors /\ a1.inst = a.inst /\ (RejectId(a, From(m)) # 0 => a1 = a)
  BY <1>2, <1>4, PromiseFor, PromisedIs, RoundBallot
<1>6. [A EXCEPT ![n] = a1] = [acc EXCEPT ![n] = a1]
  BY <1>3, UpdateTwice
<1>7. Persist(n, a, From(m), a1) /\ msgs' = msgs \cup {PrepareReply(a, n, From(m))}
  BY <1>1
<1>8. votes' = votes /\ timeouts' = timeouts /\ restarts' = restarts
  BY DEF OnPrepare
<1>9. a1 = Promised(a, <<m.id, m.from>>)
  BY <1>4
<1> HIDE DEF a, a1, A
<1>10. acc' = [acc EXCEPT ![n] = a1] /\ Rec(acc', log', executed')
  BY <1>2, <1>3, <1>5, <1>7, PersistKeeps DEF A
<1>11. Core([A EXCEPT ![n] = Promised(A[n], <<m.id, m.from>>)], prop', votes,
            msgs \cup {PrepareReply(A[n], n, <<m.id, m.from>>)})
  BY <1>2, <1>4, PromiseStep
<1>12. Core(acc', prop', votes', msgs')
  BY <1>4, <1>6, <1>7, <1>8, <1>9, <1>10, <1>11
<1>13. CountersOK'
  BY <1>2, <1>8 DEF PInv, PBase, CountersOK
<1>. QED  BY <1>2, <1>10, <1>12, <1>13, BaseKept

LEMMA OnAcceptKeeps ==
  ASSUME PInv, NEW n \in Nodes, OnAccept(n)
  PROVE  PBase'
<1>1. PICK m \in msgs :
        LET a == AcceptorFor(n, m)  a1 == Accepted(a, From(m), m.value)
        IN  /\ m.type = "Accept" /\ m.from # n /\ m.inst = a.inst
            /\ CatchUp(n, m)
            /\ Persist(n, a, From(m), a1)
            /\ Voting(n, a, From(m), m.value)
            /\ msgs' = msgs \cup {AcceptReply(a, n, From(m))}
  BY DEF OnAccept
<1> DEFINE a == AcceptorFor(n, m)
           a1 == Accepted(a, From(m), m.value)
           A == [acc EXCEPT ![n] = a]
<1>2. /\ Core(A, prop', votes, msgs) /\ Rec(A, log, executed') /\ busy' \in [Nodes -> BOOLEAN]
      /\ a \in Acceptors /\ (mishaps' = mishaps \/ mishaps' = mishaps \cup {"misheard"})
  BY <1>1, CatchUpKeeps
<1>3. acc \in [Nodes -> Acceptors] /\ m \in Messages /\ m \in Accepts(msgs) /\ m.inst = a.inst
  BY <1>1 DEF PInv, PBase, Core, TypesOK, Accepts
<1>4. /\ A[n] = a /\ From(m) = <<m.id, m.from>> /\ m.id \in 1 .. MaxId /\ m.from \in Nodes
      /\ m.value \in Values
  BY <1>1, <1>3, MsgTypes DEF From
<1>5. a1 \in Acceptors /\ a1.inst = a.inst /\ (RejectId(a, From(m)) # 0 => a1 = a)
  BY <1>2, <1>4, VoteFor
<1>6. [A EXCEPT ![n] = a1] = [acc EXCEPT ![n] = a1]
  BY <1>3, UpdateTwice
<1>7. Persist(n, a, From(m), a1) /\ msgs' = msgs \cup {AcceptReply(a, n, From(m))}
  BY <1>1
<1>8. votes' = CastVotes(votes, n, a, From(m), m.value) /\ timeouts' = timeouts /\ restarts' = restarts
  BY <1>1 DEF OnAccept, Voting, CastVotes, Vote4
<1> HIDE DEF a, A
<1>9. a1 = Accepted(A[n], From(m), m.value)
  BY <1>4
<1> HIDE DEF a1
<1>10. acc' = [acc EXCEPT ![n] = a1] /\ Rec(acc', log', executed')
  BY <1>2, <1>3, <1>5, <1>7, PersistKeeps DEF A
<1>11. Core([A EXCEPT ![n] = Accepted(A[n], From(m), m.value)], prop',
            CastVotes(votes, n, A[n], From(m), m.value),
            msgs \cup {AcceptReply(A[n], n, From(m))})
  BY <1>2, <1>3, <1>4, VoteStep
<1>12. Core(acc', prop', votes', msgs')
  BY <1>4, <1>6, <1>7, <1>8, <1>9, <1>10, <1>11
<1>13. CountersOK'
  BY <1>2, <1>8 DEF PInv, PBase, CountersOK
<1>. QED  BY <1>2, <1>10, <1>12, <1>13, BaseKept

------------------------------------------------------------------------------
LEMMA OnExpiredReplyKeeps ==
  ASSUME PInv, NEW n \in Nodes, OnExpiredReply(n)
  PROVE  PBase'
<1>1. PICK m \in RepliesTo(n, "PrepareReply") \cup RepliesTo(n, "AcceptReply") :
        prop' = [prop EXCEPT ![n] = Rejected(prop[n], m.reject)]
  BY DEF OnExpiredReply
<1>2. m \in Messages /\ m.type \in {"PrepareReply", "AcceptReply"}
  BY DEF PInv, PBase, Core, TypesOK, RepliesTo
<1>3. m.reject \in 0 .. MaxId
  BY <1>2, MsgTypes
<1>4. Core(acc, prop', votes, msgs)
  BY <1>1, <1>3, RejectedStep DEF PInv, PBase
<1>5. /\ UNCHANGED <<acc, log, busy, msgs, executed, votes, mishaps, timeouts, restarts>>
      /\ Rec(acc, log, executed) /\ CountersOK
  BY DEF OnExpiredReply, PInv, PBase
<1>6. Core(acc', prop', votes', msgs') /\ Rec(acc', log', executed') /\ CountersOK'
  BY <1>4, <1>5 DEF CountersOK
<1>. QED  BY <1>5, <1>6, BaseKept

LEMMA OnPrepareReplyKeeps ==
  ASSUME PInv, NEW n \in Nodes, OnPrepareReply(n)
  PROVE  PBase'
<1>1. PICK m \in RepliesTo(n, "PrepareReply") :
        LET p == CountPromise(prop[n], m)
        IN  /\ m.inst = acc[n].inst
            /\ prop[n].phase = "prepare" /\ m.id = prop[n].id
            /\ IF Majority(p.grants)
               THEN Accept(n, [p EXCEPT !.skip = TRUE])
               ELSE prop' = [prop EXCEPT ![n] = p] /\ UNCHANGED <<acc, log, msgs, votes, mishaps>>
  BY DEF OnPrepareReply
<1>2. UNCHANGED <<busy, executed, timeouts, restarts>>
  BY DEF OnPrepareReply
<1> DEFINE q == CountPromise(prop[n], m)
           p == [q EXCEPT !.skip = TRUE]
           P1 == [prop EXCEPT ![n] = q]
<1>3. m \in msgs /\ m.type = "PrepareReply" /\ m.to = n
  BY DEF RepliesTo
<1>4. Core(acc, prop, votes, msgs) /\ Rec(acc, log, executed) /\ TypesOK(acc, prop, votes, msgs)
      /\ prop \in [Nodes -> Proposers]
  BY DEF PInv, PBase, Core, TypesOK
<1>5. Core(acc, P1, votes, msgs)
  BY <1>1, <1>3, <1>4, CountPromiseStep
<1>6. q \in Proposers /\ q.phase = "prepare" /\ q.id = prop[n].id
  <2>1. m \in Messages /\ prop[n] \in Proposers
    BY <1>3, <1>4 DEF TypesOK
  <2>2. CASE m.reject # 0
    <3>1. m.reject \in 0 .. MaxId /\ q = Rejected(prop[n], m.reject)
      BY <1>3, <2>1, <2>2, MsgTypes DEF CountPromise
    <3>2. prop[n].phase = "prepare"
      BY <1>1
    <3>3. Rejected(prop[n], m.reject).phase = prop[n].phase
      BY <2>1 DEF Rejected, Proposers
    <3>. QED  BY <2>1, <3>1, <3>2, <3>3, RejectedIs DEF SameRound
  <2>3. CASE m.reject = 0
    BY <1>1, <1>3, <2>1, <2>3, CountPromiseIs
  <2>. QED  BY <2>2, <2>3
<1>7. P1[n] = q
  BY <1>4
<1> HIDE DEF q
<1>8. CASE Majority(q.grants)
  <2>1. Accept(n, p)
    BY <1>1, <1>8 DEF q
  <2>2. /\ p \in Proposers /\ p.skip /\ p.id = q.id /\ p.value = q.value
    BY <1>6 DEF Proposers
  <2>3. TypesOK(acc, P1, votes, msgs)
    BY <1>5 DEF Core
  <2>4. q.value # NoValue /\ acc[n].inst <= LastInstance /\ q.id \in 1 .. MaxId
    <3>1. P1[n].phase # "idle"
      BY <1>6, <1>7
    <3>. QED  BY <1>7, <2>3, <3>1, ProposerTypes DEF TypesOK
  <2> HIDE DEF p, P1
  <2>5. ASSUME Calm, SafetyOK(acc, P1, votes, msgs)
        PROVE  /\ SafeAt(acc, votes, acc[n].inst, <<p.id, n>>, p.value)
               /\ Cleared(acc, votes, <<p.id, n>>, acc[n].inst)
               /\ \A k \in Accepts(msgs) :
                    k.from = n /\ k.inst = acc[n].inst /\ k.id = p.id => k.value = p.value
    <3>1. P1[n].phase = "prepare" /\ Majority(P1[n].grants)
      BY <1>6, <1>7, <1>8
    <3>2. /\ SafeAt(acc, votes, acc[n].inst, <<P1[n].id, n>>, P1[n].value)
          /\ Cleared(acc, votes, <<P1[n].id, n>>, acc[n].inst)
      BY <2>3, <2>5, <3>1, PreparedIsSafe
    <3>3. \A k \in Accepts(msgs) :
            k.from = n /\ k.inst = acc[n].inst /\ k.id = P1[n].id => k.value = P1[n].value
      BY <2>5 DEF SafetyOK, ValuesOK, FitsAccepts
    <3>. QED  BY <1>7, <2>2, <3>2, <3>3
  <2>6. Core(acc', prop', votes', msgs') /\ Rec(acc', log', executed)
    <3>1. Core(acc, [prop EXCEPT ![n] = q], votes, msgs)
      BY <1>5 DEF P1
    <3>2. Calm /\ SafetyOK(acc, [prop EXCEPT ![n] = q], votes, msgs) =>
               /\ SafeAt(acc, votes, acc[n].inst, <<p.id, n>>, p.value)
               /\ Cleared(acc, votes, <<p.id, n>>, acc[n].inst)
               /\ \A k \in Accepts(msgs) :
                    k.from = n /\ k.inst = acc[n].inst /\ k.id = p.id => k.value = p.value
      BY <2>5 DEF P1
    <3>. QED  BY <1>4, <1>6, <2>1, <2>2, <2>4, <3>1, <3>2, AcceptKeeps
  <2>7. mishaps' = mishaps /\ CountersOK' /\ Rec(acc', log', executed')
    BY <1>2, <2>1, <2>6 DEF Accept, PInv, PBase, CountersOK
  <2>. QED  BY <2>6, <2>7, BaseKept
<1>9. CASE ~ Majority(q.grants)
  <2>1. prop' = P1 /\ UNCHANGED <<acc, log, msgs, votes, mishaps>>
    BY <1>1, <1>9 DEF q
  <2>2. Core(acc', prop', votes', msgs') /\ Rec(acc', log', executed') /\ CountersOK'
    BY <1>2, <1>4, <1>5, <2>1 DEF PInv, PBase, CountersOK
  <2>. QED  BY <2>1, <2>2, BaseKept
<1>. QED  BY <1>8, <1>9

LEMMA OnAcceptReplyKeeps ==
  ASSUME PInv, NEW n \in Nodes, OnAcceptReply(n)
  PROVE  PBase'
<1>1. PICK m \in RepliesTo(n, "AcceptReply") :
        LET p == CountAccept(prop[n], m)
        IN  /\ m.inst = acc[n].inst
            /\ prop[n].phase = "accept" /\ m.id = prop[n].id
            /\ IF Majority(p.grants)
               THEN Success(n, p)
               ELSE /\ prop' = [prop EXCEPT ![n] = p]
                    /\ UNCHANGED <<acc, msgs, executed, busy>>
  BY DEF OnAcceptReply
<1>2. UNCHANGED <<log, votes, mishaps, timeouts, restarts>>
  BY DEF OnAcceptReply
<1> DEFINE p == CountAccept(prop[n], m)
           P1 == [prop EXCEPT ![n] = p]
           s == [type |-> "Success", inst |-> acc[n].inst, from |-> n, id |-> p.id]
<1>3. m \in msgs /\ m.type = "AcceptReply" /\ m.to = n
  BY DEF RepliesTo
<1>4. Core(acc, prop, votes, msgs) /\ Rec(acc, log, executed) /\ TypesOK(acc, prop, votes, msgs)
      /\ prop \in [Nodes -> Proposers] /\ acc \in [Nodes -> Acceptors]
  BY DEF PInv, PBase, Core, TypesOK
<1>5. Core(acc, P1, votes, msgs)
  BY <1>1, <1>3, <1>4, CountAcceptStep
<1>6. p \in Proposers /\ p.phase = "accept" /\ p.id = prop[n].id
  <2>1. m \in Messages /\ prop[n] \in Proposers /\ m.from \in Nodes
    BY <1>3, <1>4, MsgTypes DEF TypesOK
  <2>2. CASE m.reject # 0
    <3>1. m.reject \in 0 .. MaxId /\ p = Rejected(prop[n], m.reject)
      BY <1>3, <2>1, <2>2, MsgTypes DEF CountAccept
    <3>. QED  BY <1>1, <2>1, <3>1, RejectedIs, ZenonT(40) DEF SameRound, Rejected, Proposers
  <2>3. CASE m.reject = 0
    BY <1>1, <2>1, <2>3 DEF CountAccept, Proposers
  <2>. QED  BY <2>2, <2>3
<1>7. P1[n] = p
  BY <1>4
<1> HIDE DEF p
<1>8. CASE Majority(p.grants)
  <2>1. Success(n, p)
    BY <1>1, <1>8 DEF p
  <2>2. TypesOK(acc, P1, votes, msgs)
    BY <1>5 DEF Core
  <2>3. acc[n].inst <= LastInstance /\ p.id \in 1 .. MaxId
    <3>1. P1[n].phase # "idle"
      BY <1>6, <1>7
    <3>. QED  BY <1>7, <2>2, <3>1, ProposerTypes DEF TypesOK
  <2>4. /\ s \in Messages /\ s.type = "Success" /\ s.inst = acc[n].inst /\ From(s) = <<p.id, n>>
    BY <1>4, <2>3 DEF Messages, Acceptors, From
  <2>5. Calm => \E v \in Values : Majority(Voters(votes, acc[n].inst, <<p.id, n>>, v))
    <3>1. P1[n].phase = "accept" /\ Majority(P1[n].grants)
      BY <1>6, <1>7, <1>8
    <3> HIDE DEF P1
    <3>. QED  BY <1>5, <1>7, <3>1, CountedAreVotes
  <2> HIDE DEF s
  <2>6. Core(acc, prop, votes, msgs \cup {s}) /\ Core(acc, P1, votes, msgs \cup {s})
    <3>1. s.inst <= LastInstance /\ (Calm => \E v \in Values : Majority(Voters(votes, s.inst, From(s), v)))
      BY <2>3, <2>4, <2>5
    <3>. QED  BY <1>4, <1>5, <2>4, <3>1, SendStep
  <2>7. msgs' = msgs \cup {s}
    BY <2>1 DEF Success, s
  <2>8. CASE acc[n].ballot = <<p.id, n>>
    <3>1. Learn(n, acc[n].value) /\ acc' = [acc EXCEPT ![n] = NextInstance(acc[n])]
      BY <2>1, <2>8 DEF Success
    <3>2. acc[n].ballot # Null
      BY <2>3, <2>8 DEF Null
    <3>3. /\ prop' = [prop EXCEPT ![n] = NewRound(prop[n])]
          /\ Rec([acc EXCEPT ![n] = NextInstance(acc[n])], log, executed')
          /\ busy' \in [Nodes -> BOOLEAN]
      BY <2>3, <3>1, <3>2, LearnKeeps DEF Learn
    <3>4. Core(acc', prop', votes, msgs')
      BY <2>3, <2>6, <2>7, <3>1, <3>3, NextStep
    <3>5. Core(acc', prop', votes', msgs') /\ Rec(acc', log', executed') /\ CountersOK'
      BY <1>2, <3>1, <3>3, <3>4 DEF PInv, PBase, CountersOK
    <3>. QED  BY <1>2, <3>5, BaseKept
  <2>9. CASE acc[n].ballot # <<p.id, n>>
    <3>1. prop' = [prop EXCEPT ![n] = [p EXCEPT !.phase = "idle"]] /\ UNCHANGED <<acc, executed, busy>>
      BY <2>1, <2>9 DEF Success
    <3>2. Core(acc, [P1 EXCEPT ![n] = [P1[n] EXCEPT !.phase = "idle"]], votes, msgs')
      BY <2>6, <2>7, IdleStep
    <3>3. [P1 EXCEPT ![n] = [P1[n] EXCEPT !.phase = "idle"]] = prop'
      BY <1>4, <1>7, <3>1, UpdateTwice
    <3>4. Core(acc', prop', votes', msgs') /\ Rec(acc', log', executed') /\ CountersOK'
      BY <1>2, <1>4, <3>1, <3>2, <3>3 DEF PInv, PBase, CountersOK
    <3>. QED  BY <1>2, <3>4, BaseKept
  <2>. QED  BY <2>8, <2>9
<1>9. CASE ~ Majority(p.grants)
  <2>1. prop' = P1 /\ UNCHANGED <<acc, msgs, executed, busy>>
    BY <1>1, <1>9 DEF p
  <2>2. Core(acc', prop', votes', msgs') /\ Rec(acc', log', executed') /\ CountersOK'
    BY <1>2, <1>4, <1>5, <2>1 DEF PInv, PBase, CountersOK
  <2>. QED  BY <1>2, <2>2, BaseKept
<1>. QED  BY <1>8, <1>9

------------------------------------------------------------------------------
LEMMA OnProposerSendSuccessKeeps ==
  ASSUME PInv, NEW n \in Nodes, OnProposerSendSuccess(n)
  PROVE  PBase'
<1>1. PICK m \in msgs :
        /\ m.type = "Success" /\ m.inst = acc[n].inst /\ acc[n].ballot # Null
        /\ Learn(n, acc[n].value)
        /\ acc' = [acc EXCEPT ![n] = NextInstance(acc[n])]
  BY DEF OnProposerSendSuccess
<1>2. acc[n].inst <= LastInstance
  BY <1>1 DEF PInv, PBase, Core, TypesOK
<1>3. /\ Core(acc', prop', votes, msgs) /\ Rec(acc', log, executed')
      /\ busy' \in [Nodes -> BOOLEAN]
  BY <1>1, <1>2, LearnKeeps
<1>4. UNCHANGED <<log, msgs, votes, mishaps, timeouts, restarts>>
  BY DEF OnProposerSendSuccess
<1>5. Core(acc', prop', votes', msgs') /\ Rec(acc', log', executed') /\ CountersOK'
  BY <1>3, <1>4 DEF PInv, PBase, CountersOK
<1>. QED  BY <1>4, <1>5, BaseKept

LEMMA OnSendLearnValueKeeps ==
  ASSUME PInv, NEW n \in Nodes, OnSendLearnValue(n)
  PROVE  PBase'
<1>1. PICK k \in Nodes \ {n} :
        LET i == acc[n].inst  r == log[k][i]
        IN  /\ acc[k].inst > i
            /\ log' = [log EXCEPT ![n][i] = [r EXCEPT !.promise = r.ballot]]
            /\ Learn(n, r.value)
  BY DEF OnSendLearnValue
<1> DEFINE i == acc[n].inst
           r == log[k][i]
<1>2. /\ Core(acc, prop, votes, msgs) /\ Rec(acc, log, executed)
      /\ acc \in [Nodes -> Acceptors]
  BY DEF PInv, PBase, Core, TypesOK
<1>3. /\ i <= LastInstance
      /\ Rec([acc EXCEPT ![n] = NextInstance(acc[n])],
             [log EXCEPT ![n][i] = [r EXCEPT !.promise = r.ballot]], executed \cup {<<i, r.value>>})
  BY <1>1, <1>2, RecLearn
<1>4. /\ acc' = [acc EXCEPT ![n] = NextInstance(acc[n])]
      /\ log' = [log EXCEPT ![n][i] = [r EXCEPT !.promise = r.ballot]]
      /\ executed' = executed \cup {<<i, r.value>>}
      /\ prop' = [prop EXCEPT ![n] = NewRound(prop[n])]
      /\ busy' = [busy EXCEPT ![n] = FALSE]
      /\ UNCHANGED <<msgs, votes, mishaps, timeouts, restarts>>
  BY <1>1 DEF OnSendLearnValue, Learn
<1>5. Core(acc', prop', votes', msgs')
  BY <1>2, <1>3, <1>4, NextStep
<1>6. Rec(acc', log', executed')
  BY <1>3, <1>4
<1>7. CountersOK'
  BY <1>4 DEF PInv, PBase, CountersOK
<1>. QED  BY <1>4, <1>5, <1>6, <1>7, BaseKept

------------------------------------------------------------------------------
LEMMA CommitTimeoutKeeps ==
  ASSUME PInv, NEW n \in Nodes, CommitTimeout(n)
  PROVE  PBase'
<1>1. /\ prop' = [prop EXCEPT ![n].phase = "idle"]
      /\ busy' = [busy EXCEPT ![n] = FALSE]
      /\ timeouts < MaxTimeouts /\ timeouts' = timeouts + 1
      /\ UNCHANGED <<acc, log, msgs, executed, votes, mishaps, restarts>>
  BY DEF CommitTimeout, TimeOut
<1>2. prop' = [prop EXCEPT ![n] = [prop[n] EXCEPT !.phase = "idle"]]
  BY <1>1
<1>3. Core(acc, prop', votes, msgs)
  BY <1>2, IdleStep DEF PInv, PBase
<1>4. CountersOK'
  BY <1>1, BoundsAssumption DEF PInv, PBase, CountersOK
<1>5. Core(acc', prop', votes', msgs') /\ Rec(acc', log', executed')
  BY <1>1, <1>3 DEF PInv, PBase
<1>. QED  BY <1>1, <1>4, <1>5, BaseKept

\* A step after which less may be calm.
LEMMA LessCalm ==
  ASSUME PInv, TypesOK(acc', prop', votes', msgs'), Rec(acc', log', executed'), CountersOK',
         Calm' => SafetyOK(acc', prop', votes', msgs'),
         mishaps' \subseteq {"reused", "misheard", "forgot"}
  PROVE  PBase'
<1>1. Core(acc, prop, votes, msgs)'
  BY DEF Core
<1>. QED  BY <1>1 DEF PBase

\* A timeout's Prepare, in the phase it interrupts.
LEMMA TimeoutPrepareKeeps ==
  ASSUME PInv, NEW n \in Nodes, TimeOut, Prepare(n, prop[n]), prop[n].phase # "idle",
         UNCHANGED <<busy, executed, restarts>>
  PROVE  PBase'
<1>1. /\ Core(acc, prop, votes, msgs) /\ TypesOK(acc, prop, votes, msgs)
      /\ prop \in [Nodes -> Proposers] /\ prop[n] \in Proposers
  BY DEF PInv, PBase, Core, TypesOK
<1>2. [prop EXCEPT ![n] = prop[n]] = prop
  BY <1>1
<1>3. prop[n].value # NoValue /\ acc[n].inst <= LastInstance
  BY <1>1 DEF TypesOK
<1>4. Core(acc, [prop EXCEPT ![n] = prop[n]], votes, msgs)
  BY <1>1, <1>2
<1>5. /\ TypesOK(acc', prop', votes', msgs') /\ Rec(acc', log', executed)
      /\ Calm' => Calm /\ SafetyOK(acc', prop', votes', msgs')
      /\ mishaps' \subseteq {"reused", "misheard", "forgot"}
  BY <1>1, <1>3, <1>4, PrepareKeeps
<1>6. CountersOK'
  BY BoundsAssumption DEF PInv, PBase, CountersOK, TimeOut
<1>7. Rec(acc', log', executed')
  BY <1>5
<1>. QED  BY <1>5, <1>6, <1>7, LessCalm

LEMMA PrepareTimeoutKeeps ==
  ASSUME PInv, NEW n \in Nodes, PrepareTimeout(n)
  PROVE  PBase'
BY TimeoutPrepareKeeps DEF PrepareTimeout

LEMMA AcceptTimeoutKeeps ==
  ASSUME PInv, NEW n \in Nodes, AcceptTimeout(n)
  PROVE  PBase'
BY TimeoutPrepareKeeps DEF AcceptTimeout

LEMMA NewValueKeeps ==
  ASSUME PInv, NEW n \in Nodes, NewValue(n)
  PROVE  PBase'
<1>1. /\ acc[n].inst <= LastInstance /\ busy' = [busy EXCEPT ![n] = TRUE]
      /\ UNCHANGED <<executed, timeouts, restarts>>
  BY DEF NewValue
<1>2. PICK v \in ClientValues[n][acc[n].inst] :
        LET p == Proposing(prop[n], v)
        IN  IF p.skip /\ ~ p.rejected THEN Accept(n, p) ELSE Prepare(n, p)
  BY DEF NewValue
<1> DEFINE p == Proposing(prop[n], v)
           P1 == [prop EXCEPT ![n] = p]
<1>3. /\ Core(acc, prop, votes, msgs) /\ Rec(acc, log, executed)
      /\ TypesOK(acc, prop, votes, msgs)
      /\ prop \in [Nodes -> Proposers] /\ prop[n] \in Proposers
  BY DEF PInv, PBase, Core, TypesOK
<1>4. v \in Values /\ v # NoValue
  <2>1. acc[n].inst \in 0 .. LastInstance
    BY <1>1, <1>3, AcceptorTypes, BoundsAssumption
  <2>. QED  BY <2>1, ValuesAssumption
<1>5. Core(acc, P1, votes, msgs)
  BY <1>3, <1>4, ProposingStep
<1>6. p \in Proposers /\ p.value # NoValue /\ p.id = prop[n].id
  BY <1>3, <1>4 DEF Proposing, Proposers, Contents
<1>7. P1[n] = p
  BY <1>3
<1> HIDE DEF p
<1>8. CASE p.skip /\ ~ p.rejected
  <2>1. Accept(n, p)
    BY <1>2, <1>8 DEF p
  <2>2. TypesOK(acc, P1, votes, msgs) /\ P1[n].skip
    BY <1>5, <1>7, <1>8 DEF Core
  <2>3. p.id \in 1 .. MaxId
    BY <1>7, <2>2, ProposerTypes
  <2>4. ASSUME Calm, SafetyOK(acc, P1, votes, msgs)
        PROVE  /\ SafeAt(acc, votes, acc[n].inst, <<p.id, n>>, p.value)
               /\ Cleared(acc, votes, <<p.id, n>>, acc[n].inst)
               /\ \A k \in Accepts(msgs) :
                    k.from = n /\ k.inst = acc[n].inst /\ k.id = p.id => k.value = p.value
    <3>1. /\ SafeAt(acc, votes, acc[n].inst, <<P1[n].id, n>>, P1[n].value)
          /\ Cleared(acc, votes, <<P1[n].id, n>>, acc[n].inst)
      BY <2>2, <2>4, SkipIsSafe
    <3>2. \A k \in Accepts(msgs) :
            k.from = n /\ k.inst = acc[n].inst /\ k.id = P1[n].id => k.value = P1[n].value
      BY <2>4 DEF SafetyOK, ValuesOK, FitsAccepts
    <3>. QED  BY <1>7, <3>1, <3>2
  <2>5. Core(acc', prop', votes', msgs') /\ Rec(acc', log', executed)
    BY <1>1, <1>3, <1>5, <1>6, <1>8, <2>1, <2>3, <2>4, AcceptKeeps
  <2>6. mishaps' = mishaps /\ CountersOK' /\ Rec(acc', log', executed')
    BY <1>1, <2>1, <2>5 DEF Accept, PInv, PBase, CountersOK
  <2>. QED  BY <2>5, <2>6, BaseKept
<1>9. CASE ~ (p.skip /\ ~ p.rejected)
  <2>1. Prepare(n, p)
    BY <1>2, <1>9 DEF p
  <2>2. /\ TypesOK(acc', prop', votes', msgs') /\ Rec(acc', log', executed)
        /\ Calm' => Calm /\ SafetyOK(acc', prop', votes', msgs')
        /\ mishaps' \subseteq {"reused", "misheard", "forgot"}
    BY <1>1, <1>3, <1>5, <1>6, <2>1, PrepareKeeps
  <2>3. CountersOK' /\ Rec(acc', log', executed')
    BY <1>1, <2>2 DEF PInv, PBase, CountersOK
  <2>. QED  BY <2>2, <2>3, LessCalm
<1>. QED  BY <1>8, <1>9

------------------------------------------------------------------------------
LEMMA NewProposerIs ==
  ASSUME NEW id \in 1 .. MaxId + 1
  PROVE  /\ NewProposer(id) \in Proposers
         /\ NewProposer(id).phase = "idle" /\ ~ NewProposer(id).skip
BY NullIsLeast, BoundsAssumption DEF NewProposer, Proposers, Contents

\* What a restart has to read back: no less than was promised, an instance that
\* all votes of the node are in or before, and the last vote there.
Restores(A, V, n, a1) ==
  /\ AtLeast(a1.promise, A[n].promise) /\ AtLeast(a1.promise, a1.ballot)
  /\ a1.ballot # Null => VotedFor(V, a1.inst, a1.ballot, a1.value)
  /\ \A w \in V : w.node = n =>
       w.inst <= a1.inst /\ (w.inst = a1.inst => AtLeast(a1.ballot, w.ballot))

LEMMA FreshId ==
  ASSUME NEW A, NEW P, NEW V, NEW M, TypesOK(A, P, V, M), OwnOK(A, P, M),
         NEW n \in Nodes, NEW b \in Ballots, AtLeast(b, A[n].promise)
  PROVE  \A m \in Accepts(M) : m.from = n => m.id < b[1] + 1
<1> SUFFICES ASSUME NEW m \in Accepts(M), m.from = n PROVE m.id < b[1] + 1
  OBVIOUS
<1>1. M \subseteq Messages /\ A[n].promise \in Ballots
  BY AcceptorTypes DEF TypesOK
<1>2. From(m) \in Ballots /\ m.id \in Nat
  BY <1>1, AcceptTypes, BoundsAssumption
<1>3. AtLeast(A[n].promise, From(m))
  BY DEF OwnOK
<1>4. AtLeast(b, From(m))
  BY <1>1, <1>2, <1>3, AtLeastIsTransitive
<1>5. b[1] \in Nat /\ From(m)[1] = m.id
  BY BallotsArePairs DEF From
<1>6. b[1] >= m.id
  BY <1>2, <1>4, <1>5 DEF AtLeast
<1>. QED  BY <1>2, <1>5, <1>6

LEMMA RestoreStep ==
  ASSUME NEW A, NEW P, NEW V, NEW M, TypesOK(A, P, V, M), SafetyOK(A, P, V, M), OwnOK(A, P, M),
         NEW n \in Nodes, NEW a1 \in Acceptors, Restores(A, V, n, a1),
         NEW p1 \in Proposers, p1.phase = "idle", ~ p1.skip, p1.id = a1.promise[1] + 1,
         TypesOK([A EXCEPT ![n] = a1], [P EXCEPT ![n] = p1], V, M)
  PROVE  SafetyOK([A EXCEPT ![n] = a1], [P EXCEPT ![n] = p1], V, M)
<1> DEFINE A1 == [A EXCEPT ![n] = a1]
           P1 == [P EXCEPT ![n] = p1]
<1>1. A1[n] = a1 /\ A1 \in [Nodes -> Acceptors] /\ \A k \in Nodes : k # n => A1[k] = A[k]
  BY DEF TypesOK
<1>2. P1[n] = p1 /\ \A k \in Nodes : k # n => P1[k] = P[k]
  BY DEF TypesOK
<1>3. TypesOK(A1, P1, V, M)
  OBVIOUS
<1> HIDE DEF A1, P1
<1>4. PastKept(A, V, A1, V)
  <2>1. \A k \in Nodes : AtLeast(A1[k].promise, A[k].promise)
    BY <1>1, AcceptorTypes, AtLeastIsTotal DEF Restores
  <2>. QED  BY <1>1, <2>1 DEF PastKept, TypesOK
<1>5. \A m \in Accepts(M) : m.from = n => m.id < P1[n].id
  <2>1. a1.promise \in Ballots
    BY DEF Acceptors
  <2>. QED  BY <1>2, <2>1, FreshId DEF Restores
<1>6. AcceptsOK(A1, P1, V, M)
  <2>1. ASSUME NEW k \in Nodes
        PROVE  \/ A1[k].inst >= A[k].inst /\ P1[k].id >= P[k].id
               \/ \A m \in Accepts(M) : m.from = k => m.id < P1[k].id
    <3>1. A[k].inst \in Nat /\ P[k].id \in Nat
      BY AcceptorTypes, ProposerTypes
    <3>2. CASE k = n  BY <1>5, <3>2
    <3>3. CASE k # n  BY <1>1, <1>2, <3>1, <3>3
    <3>. QED  BY <3>2, <3>3
  <2>. QED  BY <1>3, <1>4, <2>1, AcceptsStay DEF SafetyOK
<1>7. ValuesOK(A1, P1, M)
  <2> SUFFICES ASSUME NEW k \in Nodes PROVE FitsAccepts(A1, M, k, P1[k])
    BY DEF ValuesOK
  <2>1. CASE k = n
    <3>1. \A m \in Accepts(M) : m.from = n => m.id # P1[n].id
      <4>1. P1[n].id \in Nat
        BY <1>3, ProposerTypes
      <4>2. M \subseteq Messages
        BY DEF TypesOK
      <4>3. \A m \in Accepts(M) : m.id \in Nat
        BY <4>2, AcceptTypes, BoundsAssumption
      <4>. QED  BY <1>5, <4>1, <4>3
    <3>. QED  BY <2>1, <3>1 DEF FitsAccepts
  <2>2. CASE k # n
    BY <1>1, <1>2, <2>2 DEF SafetyOK, ValuesOK, FitsAccepts
  <2>. QED  BY <2>1, <2>2
<1>8. VotesOK(A1, V, M)
  <2> SUFFICES ASSUME NEW w \in V
      PROVE  /\ \E m \in Accepts(M) : m.inst = w.inst /\ From(m) = w.ballot /\ m.value = w.value
             /\ w.inst <= A1[w.node].inst
             /\ AtLeast(A1[w.node].promise, w.ballot)
             /\ w.inst = A1[w.node].inst => AtLeast(A1[w.node].ballot, w.ballot)
    BY DEF VotesOK
  <2>1. w.node \in Nodes /\ w.ballot \in Ballots
    BY VoteTypes DEF TypesOK
  <2>2. /\ \E m \in Accepts(M) : m.inst = w.inst /\ From(m) = w.ballot /\ m.value = w.value
        /\ w.inst <= A[w.node].inst
        /\ AtLeast(A[w.node].promise, w.ballot)
        /\ w.inst = A[w.node].inst => AtLeast(A[w.node].ballot, w.ballot)
    BY DEF SafetyOK, VotesOK
  <2>3. AtLeast(A1[w.node].promise, w.ballot)
    <3>1. A[w.node].promise \in Ballots /\ A1[w.node].promise \in Ballots
      BY <1>3, <2>1, AcceptorTypes
    <3>. QED  BY <1>4, <2>1, <2>2, <3>1, AtLeastIsTransitive DEF PastKept
  <2>4. CASE w.node = n
    BY <1>1, <2>2, <2>3, <2>4 DEF Restores
  <2>5. CASE w.node # n
    BY <1>1, <2>1, <2>2, <2>3, <2>5
  <2>. QED  BY <2>4, <2>5
<1>9. BallotsOK(A1, V)
  <2> SUFFICES ASSUME NEW k \in Nodes
      PROVE  /\ AtLeast(A1[k].promise, A1[k].ballot)
             /\ A1[k].ballot # Null => VotedFor(V, A1[k].inst, A1[k].ballot, A1[k].value)
    BY DEF BallotsOK
  <2>1. CASE k = n
    BY <1>1, <2>1 DEF Restores
  <2>2. CASE k # n
    BY <1>1, <2>2 DEF SafetyOK, BallotsOK
  <2>. QED  BY <2>1, <2>2
<1>10. PromisesOK(A1, V, M)
  BY <1>4, PromisesStay DEF SafetyOK, TypesOK
<1>11. PreparingOK(A1, P1, V)
  <2> SUFFICES ASSUME NEW k \in Nodes, P1[k].phase = "prepare"
      PROVE  /\ \A g \in P1[k].grants : HasPromised(A1, V, g, A1[k].inst, <<P1[k].id, k>>, P1[k].pre)
             /\ P1[k].pre # Null => VotedFor(V, A1[k].inst, P1[k].pre, P1[k].value)
    BY DEF PreparingOK
  <2>1. k # n
    BY <1>2
  <2>2. A1[k] = A[k] /\ P1[k] = P[k]
    BY <1>1, <1>2, <2>1
  <2>. QED  BY <1>4, <2>2, PreparingStays DEF SafetyOK
<1>12. SkipOK(A1, P1, V, M)
  <2>1. ASSUME NEW k \in Nodes, P1[k].skip
        PROVE  SkipFor(A1, P1, V, M, k)
    <3>1. k # n
      BY <1>2, <2>1
    <3>2. A1[k] = A[k] /\ P1[k] = P[k]
      BY <1>1, <1>2, <3>1
    <3>3. A[k].inst \in Nat /\ A[k].inst >= A[k].inst
      BY AcceptorTypes
    <3>. QED  BY <1>4, <2>1, <3>2, <3>3, SkipStays DEF SafetyOK
  <2>. QED  BY <2>1, SkipIsFor
<1>13. GrantsOK(A1, P1, V, M)
  <2>1. \A k \in Nodes : P1[k].phase = "accept" => A1[k] = A[k] /\ P1[k] = P[k]
    BY <1>1, <1>2
  <2>. QED  BY <2>1 DEF SafetyOK, GrantsOK
<1>14. SafetyOK(A1, P1, V, M)
  BY <1>6, <1>7, <1>8, <1>9, <1>10, <1>11, <1>12, <1>13 DEF SafetyOK
<1>. QED  BY <1>14 DEF A1, P1

\* Unless it forgets a promise, a restart reads back what it has to.
LEMMA LoadedRestores ==
  ASSUME TypesOK(acc, prop, votes, msgs), SafetyOK(acc, prop, votes, msgs),
         Rec(acc, log, executed), DiskOK(acc, votes, log), NEW n \in Nodes, ~ Forgets(n)
  PROVE  Restores(acc, votes, n, Loaded(n))
<1> DEFINE i == acc[n].inst
           l == LastLogged(n)
           a1 == Loaded(n)
<1>1. /\ i \in Instances /\ i \in Nat /\ acc[n].promise \in Ballots /\ acc[n].ballot \in Ballots
  BY AcceptorTypes DEF Acceptors
<1>2. /\ l \in Instances /\ l \in Nat /\ l <= i
      /\ l = i \/ (log[n][i] = NoRecord /\ l < i)
      /\ \A j \in Instances : j > l => j >= i
  BY LastLoggedIs, InstancesAreNat
<1>3. RecordsOK(acc[n], log[n], executed)
  BY DEF Rec
<1>4. /\ a1.inst = l /\ a1.promise = log[n][l].promise /\ a1.ballot = log[n][l].ballot
      /\ a1.value = log[n][l].value /\ a1.promise \in Ballots /\ a1.ballot \in Ballots
  BY LoadedIs DEF Loaded, Acceptors
<1>5. AtLeast(a1.promise, acc[n].promise)
  BY DEF Forgets
<1>6. /\ AtLeast(acc[n].promise, acc[n].ballot)
      /\ acc[n].ballot # Null => VotedFor(votes, i, acc[n].ballot, acc[n].value)
  BY DEF SafetyOK, BallotsOK
<1>7. ASSUME NEW w \in votes, w.node = n
      PROVE  /\ w.inst \in Instances /\ w.inst \in Nat /\ w.ballot \in Ballots /\ w.ballot # Null
             /\ w.inst <= i /\ AtLeast(acc[n].promise, w.ballot)
             /\ w.inst = i => AtLeast(acc[n].ballot, w.ballot)
  <2>1. w.inst \in Instances /\ w.inst \in Nat /\ w.ballot \in Ballots
    BY <1>7, VoteTypes, InstancesAreNat DEF TypesOK
  <2>2. /\ \E m \in Accepts(msgs) : From(m) = w.ballot
        /\ w.inst <= acc[w.node].inst
        /\ AtLeast(acc[w.node].promise, w.ballot)
        /\ w.inst = acc[w.node].inst => AtLeast(acc[w.node].ballot, w.ballot)
    BY <1>7 DEF SafetyOK, VotesOK
  <2>3. w.ballot # Null
    BY <2>2, AcceptTypes DEF TypesOK
  <2>. QED  BY <1>7, <2>1, <2>2, <2>3
<1> HIDE DEF l, a1
<1>8. log[n][i] = NoRecord => acc[n].ballot = Null
  <2>1. log[n][i] = Record(acc[n]) \/ acc[n].ballot = Null
    BY <1>3 DEF RecordsOK
  <2>2. Record(acc[n]).ballot = acc[n].ballot
    BY DEF Record
  <2>. QED  BY <2>1, <2>2 DEF NoRecord
<1>9. CASE l = i /\ log[n][i] = Record(acc[n])
  <2>1. a1.ballot = acc[n].ballot /\ a1.value = acc[n].value /\ a1.promise = acc[n].promise
    BY <1>4, <1>9 DEF Record
  <2>. QED  BY <1>4, <1>5, <1>6, <1>7, <1>9, <2>1 DEF Restores, i, a1
<1>10. CASE l = i /\ log[n][i] # Record(acc[n])
  <2>1. log[n][i] = NoRecord /\ acc[n].ballot = Null
    BY <1>3, <1>10 DEF RecordsOK
  <2>2. a1.ballot = Null /\ a1.promise = Null
    BY <1>4, <1>10, <2>1 DEF NoRecord
  <2>3. AtLeast(Null, Null)
    BY NullIsLeast
  <2>. QED  BY <1>4, <1>5, <1>7, <1>10, <2>1, <2>2, <2>3 DEF Restores, i, a1
<1>11. CASE l < i
  <2>0. log[n][i] = NoRecord
    BY <1>1, <1>2, <1>11
  <2>1. DiskFits(votes, n, l, log[n][l])
    BY <1>2, <1>11 DEF DiskOK
  <2>2. \A w \in votes : w.node = n => w.inst < i
    <3> SUFFICES ASSUME NEW w \in votes, w.node = n PROVE w.inst # i
      BY <1>1, <1>7
    <3>1. acc[n].ballot = Null
      BY <1>8, <2>0
    <3>. QED  BY <1>7, <3>1, NullIsLeast, AtLeastIsTotal
  <2>3. ASSUME NEW w \in votes, w.node = n
        PROVE  w.inst <= l /\ (w.inst = l => AtLeast(a1.ballot, w.ballot))
    <3>1. w.inst <= l
      <4>1. ~ (w.inst > l)
        BY <1>1, <1>2, <1>7, <2>2, <2>3
      <4>. QED  BY <1>2, <1>7, <2>3, <4>1
    <3>2. CASE a1.promise = a1.ballot
      <4>1. AtLeast(a1.ballot, w.ballot)
        BY <1>1, <1>4, <1>5, <1>7, <2>3, <3>2, AtLeastIsTransitive
      <4>. QED  BY <3>1, <4>1
    <3>3. CASE a1.promise # a1.ballot
      BY <1>4, <2>1, <2>3, <3>1, <3>3 DEF DiskFits
    <3>. QED  BY <3>2, <3>3
  <2>. QED  BY <1>4, <1>5, <2>1, <2>3 DEF Restores, DiskFits, a1
<1>. QED  BY <1>2, <1>9, <1>10, <1>11

LEMMA RestartKeeps ==
  ASSUME PInv, NEW n \in Nodes, Restart(n)
  PROVE  PBase'
<1> DEFINE a1 == Loaded(n)
           p1 == NewProposer(a1.promise[1] + 1)
           A1 == [acc EXCEPT ![n] = a1]
           P1 == [prop EXCEPT ![n] = p1]
<1>1. /\ restarts < MaxRestarts /\ restarts' = restarts + 1
      /\ acc' = A1 /\ prop' = P1
      /\ busy' = [busy EXCEPT ![n] = FALSE]
      /\ executed' = executed \cup {<<i, log[n][i].value>> : i \in 0 .. LastLogged(n) - 1}
      /\ mishaps' = IF Forgets(n) THEN mishaps \cup {"forgot"} ELSE mishaps
      /\ UNCHANGED <<log, msgs, votes, timeouts>>
  BY DEF Restart
<1>2. TypesOK(acc, prop, votes, msgs) /\ Rec(acc, log, executed)
  BY DEF PInv, PBase, Core
<1>3. /\ a1 \in Acceptors /\ (a1.ballot # Null => a1.value \in Values)
      /\ {<<i, log[n][i].value>> : i \in 0 .. LastLogged(n) - 1} \subseteq executed
      /\ Rec(A1, log, executed)
  BY <1>2, LoadedIs
<1>4. executed' = executed
  BY <1>1, <1>3
<1>5. a1.promise[1] + 1 \in 1 .. MaxId + 1
  <2>1. a1.promise \in Ballots
    BY <1>3 DEF Acceptors
  <2>2. a1.promise[1] \in 0 .. MaxId
    BY <2>1 DEF Ballots
  <2>. QED  BY <2>2, BoundsAssumption
<1>6. p1 \in Proposers /\ p1.phase = "idle" /\ ~ p1.skip
  BY <1>5, NewProposerIs
<1>6a. p1.id = a1.promise[1] + 1 /\ a1 = Loaded(n)
  BY DEF NewProposer
<1> HIDE DEF a1, p1
<1>7. A1[n] = a1 /\ A1 \in [Nodes -> Acceptors] /\ \A k \in Nodes : k # n => A1[k] = acc[k]
  BY <1>2, <1>3 DEF TypesOK
<1>8. P1[n] = p1 /\ P1 \in [Nodes -> Proposers] /\ \A k \in Nodes : k # n => P1[k] = prop[k]
  BY <1>2, <1>6 DEF TypesOK
<1> HIDE DEF A1, P1
<1>9. TypesOK(A1, P1, votes, msgs)
  <2>1. ASSUME NEW k \in Nodes
        PROVE  /\ A1[k].ballot # Null => A1[k].value \in Values
               /\ P1[k].phase # "idle" => P1[k].value # NoValue /\ A1[k].inst <= LastInstance
               /\ P1[k].phase # "idle" \/ P1[k].skip => P1[k].id <= MaxId
    <3>1. CASE k = n
      BY <1>3, <1>6, <1>7, <1>8, <3>1
    <3>2. CASE k # n
      BY <1>2, <1>7, <1>8, <3>2 DEF TypesOK
    <3>. QED  BY <3>1, <3>2
  <2>. QED  BY <1>2, <1>7, <1>8, <2>1 DEF TypesOK
<1>10. ASSUME Calm'
       PROVE  SafetyOK(A1, P1, votes, msgs)
  <2>1. ~ Forgets(n) /\ Calm
    BY <1>1, <1>10 DEF Calm
  <2>2. SafetyOK(acc, prop, votes, msgs) /\ OwnOK(acc, prop, msgs) /\ DiskOK(acc, votes, log)
    BY <2>1 DEF PInv, PBase, Core, KeptOK
  <2>3. Restores(acc, votes, n, a1)
    BY <1>2, <1>6a, <2>1, <2>2, LoadedRestores
  <2>. QED  BY <1>2, <1>3, <1>6, <1>6a, <1>9, <2>2, <2>3, RestoreStep DEF A1, P1
<1>11. CountersOK'
  BY <1>1, BoundsAssumption DEF PInv, PBase, CountersOK
<1>12. mishaps' \subseteq {"reused", "misheard", "forgot"}
  BY <1>1 DEF PInv, PBase
<1>13. Rec(acc', log', executed')
  BY <1>1, <1>3, <1>4
<1>. QED  BY <1>1, <1>9, <1>10, <1>11, <1>12, <1>13, LessCalm

------------------------------------------------------------------------------
(***************************************************************************)
(* Votes for one value only, once it is chosen.                            *)
(***************************************************************************)
LEMMA ChosenVoters ==
  ASSUME NEW i, NEW b, NEW v
  PROVE  ChosenUnder(i, b, v) <=> Majority(Voters(votes, i, b, v))
BY DEF ChosenUnder, Voters, Vote4

\* A vote for a higher ballot is for the value that was chosen under a lower.
LEMMA NoRival ==
  ASSUME PInv, Calm, NEW x \in votes, NEW i, NEW c \in Ballots, NEW v, x.inst = i,
         AtLeast(x.ballot, c), Majority(Voters(votes, i, c, v))
  PROVE  x.value = v
<1>1. TypesOK(acc, prop, votes, msgs) /\ SafetyOK(acc, prop, votes, msgs)
  BY DEF PInv, PBase, Core
<1>2. PICK m \in Accepts(msgs) : m.inst = i /\ From(m) = x.ballot /\ m.value = x.value
  BY <1>1 DEF SafetyOK, VotesOK
<1>3. Voters(votes, i, c, v) \in SUBSET Nodes
  BY DEF Voters
<1>4. x.ballot \in Ballots
  BY <1>1, VoteTypes DEF TypesOK
<1>5. CASE x.ballot = c
  <2>1. PICK k \in Nodes : k \in Voters(votes, i, c, v)
    BY <1>3, MajorityHasMember
  <2>2. PICK w \in votes : w = Vote4(k, i, c, v)
    BY <2>1 DEF Voters
  <2>3. w.inst = i /\ w.ballot = c /\ w.value = v
    BY <2>2 DEF Vote4
  <2>4. PICK m2 \in Accepts(msgs) : m2.inst = i /\ From(m2) = c /\ m2.value = v
    BY <1>1, <2>3 DEF SafetyOK, VotesOK
  <2>. QED  BY <1>1, <1>2, <1>5, <2>4 DEF SafetyOK, OneValue
<1>6. CASE x.ballot # c
  <2>1. Above(x.ballot, c)
    BY <1>4, <1>6, AboveIsNotAtMost, AtLeastIsTotal
  <2>2. SafeAt(acc, votes, i, x.ballot, x.value)
    BY <1>1, <1>2 DEF SafetyOK, AcceptsOK
  <2>3. PICK Q \in SUBSET Nodes : Majority(Q) /\
          \A k \in Q : \A w \in votes : w.node = k /\ w.inst = i /\ w.ballot = c => w.value = x.value
    BY <2>1, <2>2 DEF SafeAt
  <2>4. PICK k \in Nodes : k \in Q /\ k \in Voters(votes, i, c, v)
    BY <1>3, <2>3, MajoritiesMeet
  <2>5. PICK w \in votes : w = Vote4(k, i, c, v)
    BY <2>4 DEF Voters
  <2>6. w.node = k /\ w.inst = i /\ w.ballot = c /\ w.value = v
    BY <2>5 DEF Vote4
  <2>. QED  BY <2>3, <2>4, <2>6
<1>. QED  BY <1>5, <1>6

LEMMA OneChosen ==
  ASSUME PInv, Calm, NEW i, NEW b \in Ballots, NEW c \in Ballots, NEW v, NEW w,
         Majority(Voters(votes, i, b, v)), Majority(Voters(votes, i, c, w))
  PROVE  v = w
<1>1. ASSUME NEW b1 \in Ballots, NEW c1 \in Ballots, NEW v1, NEW w1, AtLeast(b1, c1),
             Majority(Voters(votes, i, b1, v1)), Majority(Voters(votes, i, c1, w1))
      PROVE  v1 = w1
  <2>1. Voters(votes, i, b1, v1) \in SUBSET Nodes
    BY DEF Voters
  <2>2. PICK k \in Nodes : k \in Voters(votes, i, b1, v1)
    BY <1>1, <2>1, MajorityHasMember
  <2>3. PICK x \in votes : x = Vote4(k, i, b1, v1)
    BY <2>2 DEF Voters
  <2>4. x.inst = i /\ x.ballot = b1 /\ x.value = v1
    BY <2>3 DEF Vote4
  <2>. QED  BY <1>1, <2>4, NoRival
<1>2. AtLeast(b, c) \/ AtLeast(c, b)
  BY AtLeastIsTotal
<1>. QED  BY <1>1, <1>2

LEMMA OwnBallotChosen ==
  ASSUME PInv, Calm, NEW n \in Nodes, acc[n].ballot # Null, acc[n].ballot \in Ballots,
         NEW v, Majority(Voters(votes, acc[n].inst, acc[n].ballot, v))
  PROVE  v = acc[n].value
<1>1. VotedFor(votes, acc[n].inst, acc[n].ballot, acc[n].value)
  BY DEF PInv, PBase, Core, SafetyOK, BallotsOK
<1>2. PICK x \in votes : x.inst = acc[n].inst /\ x.ballot = acc[n].ballot /\ x.value = acc[n].value
  BY <1>1 DEF VotedFor
<1>3. AtLeast(x.ballot, acc[n].ballot)
  BY <1>2, AtLeastIsTotal
<1>. QED  BY <1>2, <1>3, NoRival

------------------------------------------------------------------------------
(***************************************************************************)
(* What a step of node n does, as far as the rest of the invariants tells. *)
(***************************************************************************)
\* What is on the disk of a node for an instance it is past was chosen there.
DiskChosen ==
  \A n \in Nodes, i \in Instances : i < acc[n].inst =>
    Majority(Voters(votes, i, log[n][i].ballot, log[n][i].value))

SendsAccept(n, m) ==
  /\ m.from = n /\ m.inst = acc'[n].inst
  /\ m.value = prop'[n].value /\ m.value # NoValue
  /\ AtLeast(acc'[n].promise, From(m))

OnlyMoves(n) == \A k \in Nodes : k # n => prop'[k] = prop[k] /\ acc'[k] = acc[k]

VoteMove(n) ==
  /\ AtLeast(acc'[n].promise, acc[n].promise)
  /\ votes \subseteq votes' /\ msgs \subseteq msgs'
  /\ \A w \in votes' : w \in votes \/ (w.node = n /\ w.inst = acc'[n].inst)
  /\ \A m \in msgs' : m \in msgs \/ (m.type = "Accept" => SendsAccept(n, m))

OwnMove(n) ==
  \A m \in Accepts(msgs') :
    m.from = n /\ m.inst = acc'[n].inst /\ m.id = prop'[n].id /\ acc'[n].promise = From(m)
      => acc'[n].ballot = From(m)

ValueMove(n) ==
  \/ prop'[n].value = NoValue
  \/ acc'[n].inst = acc[n].inst /\ prop'[n].value \in {prop[n].value} \cup ClientValues[n][acc[n].inst]
  \/ \E w \in votes : w.inst = acc'[n].inst /\ w.value = prop'[n].value

DiskKept(n) ==
  \A k \in Nodes, i \in Instances : k # n \/ i < acc[n].inst => log'[k][i] = log[k][i]

\* In its instance, or after a restart in the one before.
Stays(n) ==
  /\ acc'[n].inst \in {acc[n].inst, acc[n].inst - 1}
  /\ executed' = executed /\ DiskKept(n)

Learns(n) ==
  /\ acc[n].inst <= LastInstance /\ acc'[n].inst = acc[n].inst + 1
  /\ DiskKept(n)
  /\ LET r == log'[n][acc[n].inst]
     IN  /\ executed' = executed \cup {<<acc[n].inst, r.value>>}
         /\ r.ballot \in Ballots /\ DiskFits(votes, n, acc[n].inst, r)
         /\ mishaps' = {} /\ DiskChosen => Majority(Voters(votes, acc[n].inst, r.ballot, r.value))

Moves(n) ==
  OnlyMoves(n) /\ VoteMove(n) /\ OwnMove(n) /\ ValueMove(n) /\ (Stays(n) \/ Learns(n))

LEMMA MoveTypes ==
  ASSUME PInv, NEW n \in Nodes
  PROVE  /\ acc[n] \in Acceptors /\ prop[n] \in Proposers
         /\ acc[n].inst \in Instances /\ acc[n].inst \in Nat /\ prop[n].id \in Nat
         /\ acc[n].promise \in Ballots /\ acc[n].ballot \in Ballots
         /\ msgs \subseteq Messages /\ votes \subseteq Voted
<1>1. TypesOK(acc, prop, votes, msgs)
  BY DEF PInv, PBase, Core
<1>2. acc[n] \in Acceptors /\ prop[n] \in Proposers
  BY <1>1 DEF TypesOK
<1>. QED  BY <1>1, <1>2, AcceptorTypes, ProposerTypes DEF TypesOK, Acceptors

LEMMA NextTypes ==
  ASSUME PBase', NEW n \in Nodes
  PROVE  /\ acc'[n].inst \in Instances /\ acc'[n].inst \in Nat /\ prop'[n].id \in Nat
         /\ acc'[n].promise \in Ballots /\ acc'[n].ballot \in Ballots
         /\ msgs' \subseteq Messages /\ votes' \subseteq Voted
<1>1. TypesOK(acc', prop', votes', msgs')
  BY DEF PBase, Core
<1>2. acc'[n] \in Acceptors
  BY <1>1 DEF TypesOK
<1>. QED  BY <1>1, <1>2, AcceptorTypes, ProposerTypes DEF TypesOK, Acceptors

\* What a node has sent under the ballot of its round, when it sends nothing more.
LEMMA OwnKept ==
  ASSUME PInv, PBase', Calm, NEW n \in Nodes, Accepts(msgs') = Accepts(msgs),
         prop'[n].id >= prop[n].id, AtLeast(acc'[n].promise, acc[n].promise),
         \/ acc'[n].inst > acc[n].inst
         \/ acc'[n].inst = acc[n].inst /\ acc'[n].ballot = acc[n].ballot
         \/ acc'[n].ballot = acc'[n].promise
  PROVE  OwnMove(n)
<1> SUFFICES ASSUME NEW m \in Accepts(msgs), m.from = n, m.inst = acc'[n].inst,
                    m.id = prop'[n].id, acc'[n].promise = From(m)
             PROVE  acc'[n].ballot = From(m)
  BY DEF OwnMove
<1>1. /\ acc[n].inst \in Nat /\ prop[n].id \in Nat /\ acc[n].promise \in Ballots
      /\ acc'[n].inst \in Nat /\ prop'[n].id \in Nat /\ acc'[n].promise \in Ballots
  BY MoveTypes, NextTypes
<1>2. AcceptsOK(acc, prop, votes, msgs) /\ OwnOK(acc, prop, msgs)
  BY DEF PInv, PBase, Core, SafetyOK, KeptOK
<1>3. /\ m.id <= prop[m.from].id
      /\ m.id = prop[m.from].id => m.inst <= acc[m.from].inst
      /\ AtLeast(acc[m.from].promise, From(m))
      /\ m.inst = acc[m.from].inst /\ m.id = prop[m.from].id /\ acc[m.from].promise = From(m)
         => acc[m.from].ballot = From(m)
  BY <1>2 DEF AcceptsOK, OwnOK
<1>4. m.id = prop[n].id
  BY <1>1, <1>3
<1>5. m.inst <= acc[n].inst
  BY <1>3, <1>4
<1>6. CASE acc'[n].inst > acc[n].inst
  BY <1>1, <1>5, <1>6
<1>7. CASE acc'[n].inst = acc[n].inst /\ acc'[n].ballot = acc[n].ballot
  <2>1. acc[n].promise = From(m)
    <3>1. AtLeast(acc[n].promise, From(m)) /\ AtLeast(From(m), acc[n].promise)
      BY <1>3
    <3>. QED  BY <1>1, <3>1, AtLeastIsTotal
  <2>. QED  BY <1>3, <1>4, <1>7, <2>1
<1>8. CASE acc'[n].ballot = acc'[n].promise
  BY <1>8
<1>. QED  BY <1>6, <1>7, <1>8

------------------------------------------------------------------------------
(***************************************************************************)
(* The steps of a proposer and of a learner, for these invariants.         *)
(***************************************************************************)
LEMMA CountedPromise ==
  ASSUME NEW p \in Proposers, NEW r \in Messages, r.type = "PrepareReply"
  PROVE  /\ CountPromise(p, r).phase = p.phase /\ CountPromise(p, r).id = p.id
         /\ CountPromise(p, r) \in Proposers
         /\ \/ CountPromise(p, r).value = p.value
            \/ r.reject = 0 /\ r.pre # Null /\ CountPromise(p, r).value = r.value
<1>1. CASE r.reject # 0
  <2>1. r.reject \in 0 .. MaxId /\ CountPromise(p, r) = Rejected(p, r.reject)
    BY <1>1, MsgTypes DEF CountPromise
  <2>2. Rejected(p, r.reject) \in Proposers
    BY <2>1, RejectedIs
  <2>3. /\ Rejected(p, r.reject).phase = p.phase /\ Rejected(p, r.reject).id = p.id
        /\ Rejected(p, r.reject).value = p.value
    BY DEF Rejected, Proposers
  <2>. QED  BY <2>1, <2>2, <2>3
<1>2. CASE r.reject = 0
  <2>1. r.pre \in Ballots /\ p.pre \in Ballots
    BY MsgTypes DEF Proposers
  <2>2. Above(r.pre, p.pre) => r.pre # Null
    BY <2>1, NullIsLeast, AboveIsNotAtMost
  <2>. QED  BY <1>2, <2>2, CountPromiseIs
<1>. QED  BY <1>1, <1>2

LEMMA CountedAccept ==
  ASSUME NEW p \in Proposers, NEW r \in Messages, r.type = "AcceptReply"
  PROVE  /\ CountAccept(p, r).phase = p.phase /\ CountAccept(p, r).id = p.id
         /\ CountAccept(p, r).value = p.value
<1>1. CASE r.reject # 0
  BY <1>1 DEF CountAccept, Rejected, Proposers
<1>2. CASE r.reject = 0
  BY <1>2 DEF CountAccept, Proposers
<1>. QED  BY <1>1, <1>2

LEMMA PersistDisk ==
  ASSUME PInv, NEW n \in Nodes, NEW a \in Acceptors, NEW b, NEW a1, Persist(n, a, b, a1)
  PROVE  \A k \in Nodes, i \in Instances : k # n \/ i # a.inst => log'[k][i] = log[k][i]
<1>1. log \in [Nodes -> [Instances -> Records]] /\ a.inst \in Instances
  BY DEF PInv, PBase, Rec, Acceptors
<1>2. log' \in {log, [log EXCEPT ![n][a.inst] = Record(a1)]}
  BY DEF Persist
<1>. QED  BY <1>1, <1>2

LEMMA PrepareMoves ==
  ASSUME PInv, PBase', Calm, NEW n \in Nodes, NEW p \in Proposers, p.id = prop[n].id,
         p.value \in {prop[n].value} \cup ClientValues[n][acc[n].inst],
         Prepare(n, p), executed' = executed
  PROVE  Moves(n)
<1> DEFINE p1 == StartPrepare(p)
           b  == <<p1.id, n>>
           m  == [type |-> "Prepare", inst |-> acc[n].inst, from |-> n, id |-> p1.id]
           r  == PrepareReply(acc[n], n, b)
           a1 == Promised(acc[n], b)
           p2 == CountPromise(p1, r)
<1>0. TypesOK(acc, prop, votes, msgs) /\ SafetyOK(acc, prop, votes, msgs)
  BY DEF PInv, PBase, Core
<1>1. /\ acc \in [Nodes -> Acceptors] /\ acc[n] \in Acceptors /\ prop \in [Nodes -> Proposers]
      /\ acc[n].ballot # Null => acc[n].value \in Values
      /\ acc[n].inst \in Nat /\ prop[n].id \in Nat
  BY <1>0, MoveTypes DEF TypesOK
<1>2. p1.id <= MaxId /\ p1.id = NewId(p)
  <2>1. p1.id <= MaxId
    BY DEF Prepare
  <2>2. p1.id = NewId(p)
    BY DEF StartPrepare, Proposers
  <2>. QED  BY <2>1, <2>2
<1>3. /\ p1 \in Proposers /\ p1.id \in 1 .. MaxId /\ p1.value = p.value /\ p1.id >= p.id
  BY <1>2, NewIdIs, StartPrepareIs
<1>4. /\ acc' = [acc EXCEPT ![n] = a1] /\ Persist(n, acc[n], b, a1)
      /\ prop' = [prop EXCEPT ![n] = p2]
      /\ msgs' = msgs \cup {m} /\ votes' = votes
  BY DEF Prepare, Persist
<1>5. a1.inst = acc[n].inst /\ a1.ballot = acc[n].ballot /\ AtLeast(a1.promise, acc[n].promise)
  BY <1>1, <1>3, RoundBallot, PromisedIs
<1>6. /\ r \in Messages /\ r.type = "PrepareReply" /\ r.reject = RejectId(acc[n], b)
      /\ r.reject = 0 => r.pre = acc[n].ballot /\ r.value = acc[n].value
  BY <1>1, <1>3, PrepareReplyIs
<1>7. p2.id = p1.id /\ (p2.value = p.value \/ (acc[n].ballot # Null /\ p2.value = acc[n].value))
  <2> HIDE DEF p1, r
  <2>. QED  BY <1>3, <1>6, CountedPromise
<1>8. m.type = "Prepare"
  OBVIOUS
<1> HIDE DEF p1, b, m, r, a1, p2
<1>9. acc'[n] = a1 /\ prop'[n] = p2 /\ OnlyMoves(n)
  BY <1>1, <1>4 DEF OnlyMoves
<1>10. VoteMove(n)
  BY <1>4, <1>5, <1>8, <1>9 DEF VoteMove
<1>11. OwnMove(n)
  <2>1. Accepts(msgs') = Accepts(msgs)
    BY <1>4, <1>8 DEF Accepts
  <2>2. prop'[n].id >= prop[n].id
    BY <1>3, <1>7, <1>9
  <2>3. acc'[n].inst = acc[n].inst /\ acc'[n].ballot = acc[n].ballot
        /\ AtLeast(acc'[n].promise, acc[n].promise)
    BY <1>5, <1>9
  <2>. QED  BY <2>1, <2>2, <2>3, OwnKept
<1>12. ValueMove(n)
  <2>1. CASE p2.value = p.value
    BY <1>5, <1>9, <2>1 DEF ValueMove
  <2>2. CASE acc[n].ballot # Null /\ p2.value = acc[n].value
    <3>1. PICK w \in votes : w.inst = acc[n].inst /\ w.value = acc[n].value
      BY <1>0, <2>2 DEF SafetyOK, BallotsOK, VotedFor
    <3>. QED  BY <1>5, <1>9, <2>2, <3>1 DEF ValueMove
  <2>. QED  BY <1>7, <2>1, <2>2
<1>13. Stays(n)
  <2>1. \A k \in Nodes, i \in Instances : k # n \/ i # acc[n].inst => log'[k][i] = log[k][i]
    BY <1>1, <1>4, PersistDisk
  <2>2. \A i \in Instances : i < acc[n].inst => i # acc[n].inst
    BY <1>1, InstancesAreNat
  <2>. QED  BY <1>5, <1>9, <2>1, <2>2 DEF Stays, DiskKept
<1>. QED  BY <1>9, <1>10, <1>11, <1>12, <1>13 DEF Moves

LEMMA AcceptMoves ==
  ASSUME PInv, PBase', Calm, NEW n \in Nodes, NEW p \in Proposers,
         p.id = prop[n].id, p.id \in 1 .. MaxId, p.value # NoValue,
         \/ p.value \in {prop[n].value} \cup ClientValues[n][acc[n].inst]
         \/ \E w \in votes : w.inst = acc[n].inst /\ w.value = p.value,
         Accept(n, p), executed' = executed
  PROVE  Moves(n)
<1> DEFINE p1 == StartAccept(p)
           b  == <<p.id, n>>
           m  == AcceptMsg(n, acc[n].inst, p.id, p.value)
           r  == AcceptReply(acc[n], n, b)
           a1 == Accepted(acc[n], b, p.value)
           p2 == CountAccept(p1, r)
<1>0. TypesOK(acc, prop, votes, msgs)
  BY DEF PInv, PBase, Core
<1>1. /\ acc \in [Nodes -> Acceptors] /\ acc[n] \in Acceptors /\ prop \in [Nodes -> Proposers]
      /\ acc[n].inst \in Nat /\ prop[n].id \in Nat /\ p.value \in Values
      /\ acc[n].promise \in Ballots
  BY <1>0, MoveTypes DEF TypesOK, Proposers, Contents
<1>2. p1 \in Proposers /\ p1.id = p.id /\ p1.value = p.value
  BY StartAcceptIs
<1>3. /\ acc' = [acc EXCEPT ![n] = a1] /\ Persist(n, acc[n], b, a1)
      /\ prop' = [prop EXCEPT ![n] = p2]
      /\ msgs' = msgs \cup {m} /\ votes' = CastVotes(votes, n, acc[n], b, p.value)
  BY DEF Accept, Persist, Voting, CastVotes, Vote4, AcceptMsg
<1>4. a1.inst = acc[n].inst /\ b \in Ballots /\ b = <<p.id, n>>
  BY <1>1, VoteFor, RoundBallot
<1>4a. \/ AtLeast(b, acc[n].promise) /\ a1.promise = b /\ a1.ballot = b
       \/ ~ AtLeast(b, acc[n].promise) /\ a1 = acc[n]
  <2>1. CASE AtLeast(b, acc[n].promise)
    BY <1>1, <1>4, <2>1, AcceptedIs
  <2>2. CASE ~ AtLeast(b, acc[n].promise)
    BY <2>2 DEF Accepted
  <2>. QED  BY <2>1, <2>2
<1>5. r \in Messages /\ r.type = "AcceptReply"
  BY <1>1, AcceptReplyIs
<1>6. p2.id = p.id /\ p2.value = p.value
  <2> HIDE DEF p1, r
  <2>. QED  BY <1>2, <1>5, CountedAccept
<1>7. /\ m.type = "Accept" /\ m.from = n /\ m.inst = acc[n].inst
      /\ m.value = p.value /\ From(m) = b
  BY DEF AcceptMsg, From
<1> HIDE DEF p1, b, m, r, a1, p2
<1>8. acc'[n] = a1 /\ prop'[n] = p2 /\ OnlyMoves(n)
  BY <1>1, <1>3 DEF OnlyMoves
<1>9. AtLeast(acc'[n].promise, acc[n].promise) /\ AtLeast(acc'[n].promise, b)
  BY <1>1, <1>4, <1>4a, <1>8, AtLeastIsTotal
<1>10. VoteMove(n)
  <2>1. SendsAccept(n, m)
    BY <1>4, <1>6, <1>7, <1>8, <1>9 DEF SendsAccept
  <2>2. ASSUME NEW w \in votes'
        PROVE  w \in votes \/ (w.node = n /\ w.inst = acc'[n].inst)
    <3>1. w \in votes \/ w = Vote4(n, acc[n].inst, b, p.value)
      BY <1>3 DEF CastVotes
    <3>2. w = Vote4(n, acc[n].inst, b, p.value) => w.node = n /\ w.inst = acc[n].inst
      BY DEF Vote4
    <3>. QED  BY <1>4, <1>8, <3>1, <3>2
  <2>3. votes \subseteq votes' /\ msgs \subseteq msgs'
    BY <1>3 DEF CastVotes
  <2>4. \A k \in msgs' : k \in msgs \/ (k.type = "Accept" => SendsAccept(n, k))
    BY <1>3, <2>1
  <2>. QED  BY <1>9, <2>2, <2>3, <2>4 DEF VoteMove
<1>11. OwnMove(n)
  <2> SUFFICES ASSUME NEW k \in Accepts(msgs'), k.from = n, k.id = prop'[n].id, acc'[n].promise = From(k)
               PROVE  acc'[n].ballot = From(k)
    BY DEF OwnMove
  <2>1. From(k) = b
    BY <1>4, <1>6, <1>8 DEF From
  <2>2. AtLeast(b, b)
    BY <1>4, AtLeastIsTotal
  <2>3. CASE AtLeast(b, acc[n].promise) /\ a1.promise = b /\ a1.ballot = b
    BY <1>8, <2>1, <2>3
  <2>4. CASE ~ AtLeast(b, acc[n].promise) /\ a1 = acc[n]
    BY <1>8, <2>1, <2>2, <2>4
  <2>. QED  BY <1>4a, <2>3, <2>4
<1>12. ValueMove(n)
  BY <1>4, <1>6, <1>8 DEF ValueMove
<1>13. Stays(n)
  <2>1. \A k \in Nodes, i \in Instances : k # n \/ i # acc[n].inst => log'[k][i] = log[k][i]
    BY <1>1, <1>3, PersistDisk
  <2>2. \A i \in Instances : i < acc[n].inst => i # acc[n].inst
    BY <1>1, InstancesAreNat
  <2>. QED  BY <1>4, <1>8, <2>1, <2>2 DEF Stays, DiskKept
<1>. QED  BY <1>8, <1>10, <1>11, <1>12, <1>13 DEF Moves

------------------------------------------------------------------------------
(***************************************************************************)
(* The steps of an acceptor and of a learner.                              *)
(***************************************************************************)
LEMMA LearnMoves ==
  ASSUME PInv, Calm, NEW n \in Nodes, acc[n].inst <= LastInstance, acc[n].ballot # Null,
         Learn(n, acc[n].value), acc'[n].inst = acc[n].inst + 1,
         mishaps' = {} => Majority(Voters(votes, acc[n].inst, acc[n].ballot, acc[n].value)),
         \A k \in Nodes, i \in Instances : k # n \/ i < acc[n].inst + 1 => log'[k][i] = log[k][i]
  PROVE  Learns(n)
<1> DEFINE i == acc[n].inst
           r == log'[n][i]
<1>1. i \in Instances /\ i \in Nat /\ acc[n].ballot \in Ballots
  BY MoveTypes
<1>2. RecordsOK(acc[n], log[n], executed) /\ SafetyOK(acc, prop, votes, msgs)
  BY DEF PInv, PBase, Core, Rec
<1>3. r = Record(acc[n])
  BY <1>1, <1>2 DEF RecordsOK
<1>4. r.promise = acc[n].promise /\ r.ballot = acc[n].ballot /\ r.value = acc[n].value
  BY <1>3 DEF Record
<1>5. DiskKept(n)
  BY <1>1, InstancesAreNat DEF DiskKept
<1>6. executed' = executed \cup {<<i, acc[n].value>>}
  BY DEF Learn
<1> HIDE DEF r
<1>7. DiskFits(votes, n, i, r)
  <2>1. AtLeast(acc[n].promise, acc[n].ballot) /\ VotedFor(votes, i, acc[n].ballot, acc[n].value)
    BY <1>2 DEF SafetyOK, BallotsOK
  <2>2. \A w \in votes : w.node = n /\ w.inst = i => AtLeast(acc[n].ballot, w.ballot)
    BY <1>2 DEF SafetyOK, VotesOK
  <2>. QED  BY <1>4, <2>1, <2>2 DEF DiskFits
<1>. QED  BY <1>1, <1>4, <1>5, <1>6, <1>7 DEF Learns, r

\* The proposer and the acceptor of a step that counts nothing and sends no
\* Accept, but may accept one.
SameRounds(n) ==
  /\ prop'[n].id = prop[n].id
  /\ prop'[n].value = NoValue \/ (prop'[n].value = prop[n].value /\ acc'[n].inst = acc[n].inst)
  /\ AtLeast(acc'[n].promise, acc[n].promise)
  /\ \/ acc'[n].inst > acc[n].inst
     \/ acc'[n].inst = acc[n].inst /\ acc'[n].ballot = acc[n].ballot
     \/ acc'[n].ballot = acc'[n].promise
  /\ msgs \subseteq msgs'
  /\ \A m \in msgs' : m \in msgs \/ m.type # "Accept"

LEMMA SameRoundsMove ==
  ASSUME PInv, PBase', Calm, NEW n \in Nodes, SameRounds(n), OnlyMoves(n), Stays(n) \/ Learns(n),
         votes \subseteq votes',
         \A w \in votes' : w \in votes \/ (w.node = n /\ w.inst = acc'[n].inst)
  PROVE  Moves(n)
<1>1. prop[n].id \in Nat
  BY MoveTypes
<1>2. VoteMove(n)
  BY DEF SameRounds, VoteMove
<1>3. ValueMove(n)
  BY DEF SameRounds, ValueMove
<1>4. OwnMove(n)
  <2>1. Accepts(msgs') = Accepts(msgs)
    BY DEF SameRounds, Accepts
  <2>2. prop'[n].id >= prop[n].id
    BY <1>1 DEF SameRounds
  <2>. QED  BY <2>1, <2>2, OwnKept DEF SameRounds
<1>. QED  BY <1>2, <1>3, <1>4 DEF Moves

LEMMA NewRoundKeeps ==
  ASSUME PInv, NEW n \in Nodes, prop' = [prop EXCEPT ![n] = NewRound(prop[n])]
  PROVE  /\ prop'[n].id = prop[n].id /\ prop'[n].value = NoValue
         /\ \A k \in Nodes : k # n => prop'[k] = prop[k]
<1>1. prop \in [Nodes -> Proposers]
  BY DEF PInv, PBase, Core, TypesOK
<1>2. prop'[n] = NewRound(prop[n]) /\ \A k \in Nodes : k # n => prop'[k] = prop[k]
  BY <1>1
<1>. QED  BY <1>1, <1>2, NewRoundIs

\* The news of a message of the next instance, and what the acceptor then
\* makes of the message, a1.
LEMMA CatchUpMoves ==
  ASSUME PInv, Calm, NEW n \in Nodes, NEW m \in msgs, CatchUp(n, m),
         NEW b, NEW a1, a1.inst = AcceptorFor(n, m).inst, Persist(n, AcceptorFor(n, m), b, a1)
  PROVE  /\ OnlyMoves(n) /\ (Stays(n) \/ Learns(n))
         /\ acc'[n] = a1 /\ AcceptorFor(n, m).promise = acc[n].promise
         /\ prop'[n].id = prop[n].id
         /\ \/ acc'[n].inst > acc[n].inst /\ prop'[n].value = NoValue
            \/ /\ AcceptorFor(n, m) = acc[n]
               /\ acc'[n].inst = acc[n].inst /\ prop'[n].value = prop[n].value
<1> DEFINE a == AcceptorFor(n, m)
<1>1. /\ acc \in [Nodes -> Acceptors] /\ acc[n] \in Acceptors /\ prop \in [Nodes -> Proposers]
      /\ acc[n].inst \in Nat /\ a \in Acceptors /\ msgs \subseteq Messages
  <2>1. a \in Acceptors
    BY CatchUpKeeps
  <2>. QED  BY <2>1, MoveTypes DEF PInv, PBase, Core, TypesOK
<1>2. acc' = [acc EXCEPT ![n] = a1]
  BY DEF Persist
<1>3. acc'[n] = a1 /\ acc'[n].inst = a.inst /\ \A k \in Nodes : k # n => acc'[k] = acc[k]
  BY <1>1, <1>2
<1>4. \A k \in Nodes, i \in Instances : k # n \/ i # a.inst => log'[k][i] = log[k][i]
  BY <1>1, PersistDisk
<1>5. CASE Announces(m, acc[n])
  <2>1. acc[n].inst <= LastInstance
    <3>1. m.inst \in Instances /\ m.inst = acc[n].inst + 1
      BY <1>1, <1>5, MsgTypes DEF Announces
    <3>. QED  BY <1>1, <3>1, BoundsAssumption DEF Instances
  <2>2. acc[n].ballot # Null /\ Learn(n, acc[n].value) /\ a = NextInstance(acc[n])
    BY <1>5 DEF Announces, CatchUp, AcceptorFor
  <2>3. a.inst = acc[n].inst + 1 /\ a.promise = acc[n].promise
    BY <1>1, <2>1, <2>2, NextIs
  <2>4. mishaps' = {} => Majority(Voters(votes, acc[n].inst, acc[n].ballot, acc[n].value))
    <3> SUFFICES ASSUME mishaps' = {}
                 PROVE  Majority(Voters(votes, acc[n].inst, acc[n].ballot, acc[n].value))
      OBVIOUS
    <3>1. ~ Mishears(n)
      BY <1>5 DEF CatchUp
    <3>. QED  BY <3>1, ChosenVoters DEF Mishears
  <2>5. \A k \in Nodes, i \in Instances : k # n \/ i < acc[n].inst + 1 => log'[k][i] = log[k][i]
    BY <1>1, <1>4, <2>3, InstancesAreNat
  <2>6. prop' = [prop EXCEPT ![n] = NewRound(prop[n])]
    BY <2>2 DEF Learn
  <2> HIDE DEF a
  <2>7. Learns(n)
    BY <1>3, <2>1, <2>2, <2>3, <2>4, <2>5, LearnMoves
  <2>8. acc'[n].inst > acc[n].inst
    BY <1>1, <1>3, <2>3
  <2>. QED  BY <1>3, <2>3, <2>6, <2>7, <2>8, NewRoundKeeps DEF OnlyMoves, a
<1>6. CASE ~ Announces(m, acc[n])
  <2>1. a = acc[n] /\ executed' = executed /\ prop' = prop
    BY <1>6 DEF CatchUp, AcceptorFor
  <2>2. Stays(n)
    <3>1. \A i \in Instances : i < acc[n].inst => i # acc[n].inst
      BY <1>1, InstancesAreNat
    <3>. QED  BY <1>3, <1>4, <2>1, <3>1 DEF Stays, DiskKept
  <2>. QED  BY <1>3, <2>1, <2>2 DEF OnlyMoves
<1>. QED  BY <1>5, <1>6

LEMMA OnPrepareMoves ==
  ASSUME PInv, PBase', Calm, NEW n \in Nodes, OnPrepare(n)
  PROVE  Moves(n)
<1>1. PICK m \in msgs :
        LET a == AcceptorFor(n, m)  a1 == Promised(a, From(m))
        IN  /\ m.type = "Prepare" /\ m.from # n
            /\ CatchUp(n, m)
            /\ Persist(n, a, From(m), a1)
            /\ msgs' = msgs \cup {PrepareReply(a, n, From(m))}
  BY DEF OnPrepare
<1> DEFINE a == AcceptorFor(n, m)
           a1 == Promised(a, From(m))
           r == PrepareReply(a, n, From(m))
<1>2. a \in Acceptors /\ From(m) \in Ballots
  <2>1. m.from \in Nodes /\ m.id \in 1 .. MaxId
    BY MoveTypes, MsgTypes
  <2>. QED  BY <1>1, <2>1, CatchUpKeeps, RoundBallot DEF From
<1>3. a1.inst = a.inst /\ a1.ballot = a.ballot /\ AtLeast(a1.promise, a.promise)
  BY <1>2, PromisedIs
<1>4. r.type = "PrepareReply"
  BY DEF PrepareReply
<1> HIDE DEF a1, r
<1>5. /\ OnlyMoves(n) /\ (Stays(n) \/ Learns(n))
      /\ acc'[n] = a1 /\ a.promise = acc[n].promise
      /\ prop'[n].id = prop[n].id
      /\ \/ acc'[n].inst > acc[n].inst /\ prop'[n].value = NoValue
         \/ a = acc[n] /\ acc'[n].inst = acc[n].inst /\ prop'[n].value = prop[n].value
  BY <1>1, <1>3, CatchUpMoves DEF a1
<1>6. votes' = votes /\ msgs' = msgs \cup {r}
  BY <1>1 DEF OnPrepare, r
<1> HIDE DEF a
<1>7. SameRounds(n)
  BY <1>3, <1>4, <1>5, <1>6 DEF SameRounds
<1>. QED  BY <1>5, <1>6, <1>7, SameRoundsMove

LEMMA OnAcceptMoves ==
  ASSUME PInv, PBase', Calm, NEW n \in Nodes, OnAccept(n)
  PROVE  Moves(n)
<1>1. PICK m \in msgs :
        LET a == AcceptorFor(n, m)  a1 == Accepted(a, From(m), m.value)
        IN  /\ m.type = "Accept" /\ m.from # n
            /\ CatchUp(n, m)
            /\ Persist(n, a, From(m), a1)
            /\ Voting(n, a, From(m), m.value)
            /\ msgs' = msgs \cup {AcceptReply(a, n, From(m))}
  BY DEF OnAccept
<1> DEFINE a == AcceptorFor(n, m)
           a1 == Accepted(a, From(m), m.value)
           r == AcceptReply(a, n, From(m))
<1>2. /\ a \in Acceptors /\ m.from \in Nodes /\ m.id \in 1 .. MaxId /\ m.value \in Values
      /\ From(m) \in Ballots /\ a.promise \in Ballots
  <2>1. a \in Acceptors /\ m.from \in Nodes /\ m.id \in 1 .. MaxId /\ m.value \in Values
    BY <1>1, MoveTypes, MsgTypes, CatchUpKeeps
  <2>. QED  BY <2>1, RoundBallot DEF From, Acceptors
<1>3. a1.inst = a.inst
  BY <1>2, VoteFor DEF From
<1>3a. /\ AtLeast(a1.promise, a.promise)
       /\ a1.ballot = a1.promise \/ a1 = a
  <2>1. CASE AtLeast(From(m), a.promise)
    BY <1>2, <2>1, AcceptedIs
  <2>2. CASE ~ AtLeast(From(m), a.promise)
    BY <1>2, <2>2, AtLeastIsTotal DEF Accepted
  <2>. QED  BY <2>1, <2>2
<1>4. r.type = "AcceptReply"
  BY DEF AcceptReply
<1> HIDE DEF a1, r
<1>5. /\ OnlyMoves(n) /\ (Stays(n) \/ Learns(n))
      /\ acc'[n] = a1 /\ a.promise = acc[n].promise
      /\ prop'[n].id = prop[n].id
      /\ \/ acc'[n].inst > acc[n].inst /\ prop'[n].value = NoValue
         \/ a = acc[n] /\ acc'[n].inst = acc[n].inst /\ prop'[n].value = prop[n].value
  BY <1>1, <1>3, CatchUpMoves DEF a1
<1>6. msgs' = msgs \cup {r} /\ votes' = CastVotes(votes, n, a, From(m), m.value)
  BY <1>1 DEF r, Voting, CastVotes, Vote4
<1> HIDE DEF a
<1>7. ASSUME NEW w \in votes'
      PROVE  w \in votes \/ (w.node = n /\ w.inst = acc'[n].inst)
  <2>1. w \in votes \/ w = Vote4(n, a.inst, From(m), m.value)
    BY <1>6 DEF CastVotes
  <2>2. w = Vote4(n, a.inst, From(m), m.value) => w.node = n /\ w.inst = a.inst
    BY DEF Vote4
  <2>. QED  BY <1>3, <1>5, <2>1, <2>2
<1>8. votes \subseteq votes'
  BY <1>6 DEF CastVotes
<1>9. SameRounds(n)
  BY <1>3a, <1>4, <1>5, <1>6 DEF SameRounds
<1>. QED  BY <1>5, <1>7, <1>8, <1>9, SameRoundsMove

LEMMA NewValueMoves ==
  ASSUME PInv, PBase', Calm, NEW n \in Nodes, NewValue(n)
  PROVE  Moves(n)
<1>1. acc[n].inst <= LastInstance /\ executed' = executed
  BY DEF NewValue
<1>2. PICK v \in ClientValues[n][acc[n].inst] :
        LET p == Proposing(prop[n], v)
        IN  IF p.skip /\ ~ p.rejected THEN Accept(n, p) ELSE Prepare(n, p)
  BY DEF NewValue
<1> DEFINE p == Proposing(prop[n], v)
<1>3. prop[n] \in Proposers /\ TypesOK(acc, prop, votes, msgs)
  BY DEF PInv, PBase, Core, TypesOK
<1>4. v \in Values /\ v # NoValue
  <2>1. acc[n].inst \in 0 .. LastInstance
    BY <1>1, MoveTypes, BoundsAssumption
  <2>. QED  BY <2>1, ValuesAssumption
<1>5. /\ p \in Proposers /\ p.value # NoValue /\ p.id = prop[n].id
      /\ p.skip = prop[n].skip /\ p.value \in {prop[n].value, v}
  BY <1>3, <1>4 DEF Proposing, Proposers, Contents
<1>6. p.value \in {prop[n].value} \cup ClientValues[n][acc[n].inst]
  BY <1>5
<1>7. CASE p.skip /\ ~ p.rejected
  <2>1. Accept(n, p)
    BY <1>2, <1>7
  <2>2. p.id \in 1 .. MaxId
    BY <1>3, <1>5, <1>7, ProposerTypes
  <2> HIDE DEF p
  <2>. QED  BY <1>1, <1>5, <1>6, <2>1, <2>2, AcceptMoves
<1>8. CASE ~ (p.skip /\ ~ p.rejected)
  <2>1. Prepare(n, p)
    BY <1>2, <1>8
  <2> HIDE DEF p
  <2>. QED  BY <1>1, <1>5, <1>6, <2>1, PrepareMoves
<1>. QED  BY <1>7, <1>8

LEMMA TimeoutMoves ==
  ASSUME PInv, PBase', Calm, NEW n \in Nodes, PrepareTimeout(n) \/ AcceptTimeout(n)
  PROVE  Moves(n)
<1>1. Prepare(n, prop[n]) /\ executed' = executed
  BY DEF PrepareTimeout, AcceptTimeout
<1>2. prop[n] \in Proposers
  BY DEF PInv, PBase, Core, TypesOK
<1>. QED  BY <1>1, <1>2, PrepareMoves

\* Only the proposer of n moves, and may take a value over from a vote.
LEMMA ProposerMoves ==
  ASSUME PInv, PBase', Calm, NEW n \in Nodes, NEW p1, prop' = [prop EXCEPT ![n] = p1],
         p1.id = prop[n].id,
         \/ p1.value = prop[n].value
         \/ \E w \in votes : w.inst = acc[n].inst /\ w.value = p1.value,
         acc' = acc, log' = log, votes' = votes, executed' = executed,
         msgs \subseteq msgs', \A m \in msgs' : m \in msgs \/ m.type # "Accept"
  PROVE  Moves(n)
<1>1. /\ prop \in [Nodes -> Proposers] /\ prop[n].id \in Nat
      /\ acc[n].promise \in Ballots
  BY MoveTypes DEF PInv, PBase, Core, TypesOK
<1>2. prop'[n] = p1 /\ OnlyMoves(n)
  BY <1>1 DEF OnlyMoves
<1>3. AtLeast(acc'[n].promise, acc[n].promise)
  BY <1>1, AtLeastIsTotal
<1>4. VoteMove(n)
  BY <1>3 DEF VoteMove
<1>5. OwnMove(n)
  <2>1. Accepts(msgs') = Accepts(msgs) /\ prop'[n].id >= prop[n].id
    BY <1>1, <1>2 DEF Accepts
  <2>. QED  BY <1>3, <2>1, OwnKept
<1>6. ValueMove(n)
  BY <1>2 DEF ValueMove
<1>7. Stays(n)
  BY DEF Stays, DiskKept
<1>. QED  BY <1>2, <1>4, <1>5, <1>6, <1>7 DEF Moves

LEMMA CommitTimeoutMoves ==
  ASSUME PInv, PBase', Calm, NEW n \in Nodes, CommitTimeout(n)
  PROVE  Moves(n)
<1> DEFINE p1 == [prop[n] EXCEPT !.phase = "idle"]
<1>1. /\ prop' = [prop EXCEPT ![n] = p1]
      /\ UNCHANGED <<acc, log, msgs, executed, votes, restarts>>
  BY DEF CommitTimeout
<1>2. prop[n] \in Proposers
  BY DEF PInv, PBase, Core, TypesOK
<1>3. p1.id = prop[n].id /\ p1.value = prop[n].value
  BY <1>2 DEF Proposers
<1> HIDE DEF p1
<1>. QED  BY <1>1, <1>3, ProposerMoves

LEMMA OnExpiredReplyMoves ==
  ASSUME PInv, PBase', Calm, NEW n \in Nodes, OnExpiredReply(n)
  PROVE  Moves(n)
<1>1. PICK m \in RepliesTo(n, "PrepareReply") \cup RepliesTo(n, "AcceptReply") :
        prop' = [prop EXCEPT ![n] = Rejected(prop[n], m.reject)]
  BY DEF OnExpiredReply
<1>2. UNCHANGED <<acc, log, busy, msgs, executed, votes, timeouts, restarts>>
  BY DEF OnExpiredReply
<1> DEFINE p1 == Rejected(prop[n], m.reject)
<1>3. prop[n] \in Proposers
  BY DEF PInv, PBase, Core, TypesOK
<1>4. p1.id = prop[n].id /\ p1.value = prop[n].value
  BY <1>3 DEF Rejected, Proposers
<1> HIDE DEF p1
<1>. QED  BY <1>1, <1>2, <1>4, ProposerMoves DEF p1

LEMMA OnPrepareReplyMoves ==
  ASSUME PInv, PBase', Calm, NEW n \in Nodes, OnPrepareReply(n)
  PROVE  Moves(n)
<1>1. PICK m \in RepliesTo(n, "PrepareReply") :
        LET p == CountPromise(prop[n], m)
        IN  /\ m.inst = acc[n].inst
            /\ prop[n].phase = "prepare" /\ m.id = prop[n].id
            /\ IF Majority(p.grants)
               THEN Accept(n, [p EXCEPT !.skip = TRUE])
               ELSE prop' = [prop EXCEPT ![n] = p] /\ UNCHANGED <<acc, log, msgs, votes, mishaps>>
  BY DEF OnPrepareReply
<1>2. executed' = executed
  BY DEF OnPrepareReply
<1> DEFINE q == CountPromise(prop[n], m)
           p == [q EXCEPT !.skip = TRUE]
<1>3. m \in msgs /\ m.type = "PrepareReply" /\ m \in Messages
  BY MoveTypes DEF RepliesTo
<1>4. /\ SafetyOK(acc, prop, votes, msgs) /\ TypesOK(acc, prop, votes, msgs)
      /\ prop[n] \in Proposers
  BY DEF PInv, PBase, Core, TypesOK
<1>5. /\ q \in Proposers /\ q.id = prop[n].id
      /\ q.value = prop[n].value \/ (m.reject = 0 /\ m.pre # Null /\ q.value = m.value)
  BY <1>3, <1>4, CountedPromise
<1>6. m.inst = acc[n].inst /\ prop[n].phase = "prepare" /\ m.id = prop[n].id
  BY <1>1
<1> HIDE DEF q
<1>7. m.reject = 0 /\ m.pre # Null => \E w \in votes : w.inst = acc[n].inst /\ w.value = m.value
  BY <1>3, <1>4, <1>6 DEF SafetyOK, PromisesOK, VotedFor
<1>8. \/ q.value = prop[n].value
      \/ \E w \in votes : w.inst = acc[n].inst /\ w.value = q.value
  BY <1>5, <1>7
<1>9. CASE Majority(q.grants)
  <2>1. Accept(n, p)
    BY <1>1, <1>9 DEF q
  <2>2. p \in Proposers /\ p.id = q.id /\ p.value = q.value
    BY <1>5 DEF Proposers
  <2>3. p.id \in 1 .. MaxId
    BY <1>4, <1>5, <1>6, <2>2, ProposerTypes
  <2>4. q.value # NoValue
    <3>1. prop[n].value # NoValue
      BY <1>4, <1>6 DEF TypesOK
    <3>2. m.reject = 0 /\ m.pre # Null => m.value \in Values
      BY <1>3, <1>4 DEF TypesOK
    <3>. QED  BY <1>5, <3>1, <3>2, ValuesAssumption
  <2> HIDE DEF p
  <2>. QED  BY <1>2, <1>5, <1>8, <2>1, <2>2, <2>3, <2>4, AcceptMoves
<1>10. CASE ~ Majority(q.grants)
  <2>1. prop' = [prop EXCEPT ![n] = q] /\ UNCHANGED <<acc, log, msgs, votes, mishaps>>
    BY <1>1, <1>10 DEF q
  <2>. QED  BY <1>2, <1>5, <1>8, <2>1, ProposerMoves
<1>. QED  BY <1>9, <1>10

\* A node that hears the success of its own ballot.
LEMMA SuccessMoves ==
  ASSUME PInv, PBase', Calm, NEW n \in Nodes, acc[n].inst <= LastInstance, acc[n].ballot # Null,
         \E v \in Values : Majority(Voters(votes, acc[n].inst, acc[n].ballot, v)),
         Learn(n, acc[n].value), acc' = [acc EXCEPT ![n] = NextInstance(acc[n])],
         log' = log, votes' = votes,
         msgs \subseteq msgs', \A m \in msgs' : m \in msgs \/ m.type # "Accept"
  PROVE  Moves(n)
<1>1. acc \in [Nodes -> Acceptors] /\ acc[n] \in Acceptors /\ acc[n].ballot \in Ballots
      /\ acc[n].inst \in Nat /\ acc[n].promise \in Ballots
  BY MoveTypes DEF PInv, PBase, Core, TypesOK
<1>2. /\ acc'[n].inst = acc[n].inst + 1 /\ acc'[n].promise = acc[n].promise
      /\ \A k \in Nodes : k # n => acc'[k] = acc[k]
  BY <1>1, NextIs
<1>3. Majority(Voters(votes, acc[n].inst, acc[n].ballot, acc[n].value))
  BY <1>1, OwnBallotChosen
<1>4. Learns(n)
  BY <1>2, <1>3, LearnMoves
<1>5. prop' = [prop EXCEPT ![n] = NewRound(prop[n])]
  BY DEF Learn
<1>6. /\ prop'[n].id = prop[n].id /\ prop'[n].value = NoValue
      /\ \A k \in Nodes : k # n => prop'[k] = prop[k]
  BY <1>5, NewRoundKeeps
<1>7. acc'[n].inst > acc[n].inst /\ AtLeast(acc'[n].promise, acc[n].promise)
  BY <1>1, <1>2, AtLeastIsTotal
<1>8. SameRounds(n) /\ OnlyMoves(n)
  BY <1>2, <1>6, <1>7 DEF SameRounds, OnlyMoves
<1>. QED  BY <1>4, <1>8, SameRoundsMove

LEMMA OnAcceptReplyMoves ==
  ASSUME PInv, PBase', Calm, NEW n \in Nodes, OnAcceptReply(n)
  PROVE  Moves(n)
<1>1. PICK m \in RepliesTo(n, "AcceptReply") :
        LET p == CountAccept(prop[n], m)
        IN  /\ m.inst = acc[n].inst
            /\ prop[n].phase = "accept" /\ m.id = prop[n].id
            /\ IF Majority(p.grants)
               THEN Success(n, p)
               ELSE /\ prop' = [prop EXCEPT ![n] = p]
                    /\ UNCHANGED <<acc, msgs, executed, busy>>
  BY DEF OnAcceptReply
<1>2. UNCHANGED <<log, votes, mishaps, timeouts, restarts>>
  BY DEF OnAcceptReply
<1> DEFINE p == CountAccept(prop[n], m)
           P1 == [prop EXCEPT ![n] = p]
           s == [type |-> "Success", inst |-> acc[n].inst, from |-> n, id |-> p.id]
           p1 == [p EXCEPT !.phase = "idle"]
<1>3. m \in msgs /\ m.type = "AcceptReply" /\ m \in Messages /\ m.to = n
  BY MoveTypes DEF RepliesTo
<1>4. /\ TypesOK(acc, prop, votes, msgs) /\ Core(acc, prop, votes, msgs)
      /\ prop \in [Nodes -> Proposers] /\ prop[n] \in Proposers
  BY DEF PInv, PBase, Core, TypesOK
<1>5. p.id = prop[n].id /\ p.value = prop[n].value /\ p.phase = "accept"
  BY <1>1, <1>3, <1>4, CountedAccept
<1>6. p \in Proposers
  <2>1. m.from \in Nodes /\ m.reject \in 0 .. MaxId
    BY <1>3, MsgTypes
  <2>2. m.reject # 0 => p \in Proposers
    BY <1>4, <2>1, RejectedIs DEF CountAccept
  <2>3. m.reject = 0 => p \in Proposers
    BY <1>4, <2>1 DEF CountAccept, Proposers
  <2>. QED  BY <2>2, <2>3
<1>7. Core(acc, P1, votes, msgs)
  BY <1>1, <1>3, <1>4, CountAcceptStep
<1>8. P1[n] = p
  BY <1>4
<1>9. acc[n].inst <= LastInstance /\ p.id \in 1 .. MaxId
  <2>1. prop[n].phase # "idle"
    BY <1>1
  <2>2. prop[n].id \in 1 .. MaxId
    BY <1>4, <2>1, ProposerTypes
  <2>3. acc[n].inst <= LastInstance
    BY <1>4, <2>1 DEF TypesOK
  <2>. QED  BY <1>5, <2>2, <2>3
<1>10. p1.id = p.id /\ p1.value = p.value
  BY <1>6 DEF Proposers
<1>11. s.type = "Success"
  OBVIOUS
<1> HIDE DEF p, p1, s
<1>12. CASE Majority(p.grants)
  <2>1. Success(n, p) /\ msgs' = msgs \cup {s}
    BY <1>1, <1>12 DEF p, s, Success
  <2>2. \E v \in Values : Majority(Voters(votes, acc[n].inst, <<p.id, n>>, v))
    <3>1. P1[n].phase = "accept" /\ Majority(P1[n].grants)
      BY <1>5, <1>8, <1>12
    <3> HIDE DEF P1
    <3>. QED  BY <1>7, <1>8, <3>1, CountedAreVotes
  <2>3. msgs \subseteq msgs' /\ \A k \in msgs' : k \in msgs \/ k.type # "Accept"
    BY <1>11, <2>1
  <2>4. CASE acc[n].ballot = <<p.id, n>>
    <3>1. Learn(n, acc[n].value) /\ acc' = [acc EXCEPT ![n] = NextInstance(acc[n])]
      BY <2>1, <2>4 DEF Success
    <3>2. acc[n].ballot # Null
      BY <1>9, <2>4 DEF Null
    <3>. QED  BY <1>2, <1>9, <2>2, <2>3, <2>4, <3>1, <3>2, SuccessMoves
  <2>5. CASE acc[n].ballot # <<p.id, n>>
    <3>1. prop' = [prop EXCEPT ![n] = p1] /\ UNCHANGED <<acc, executed, busy>>
      BY <2>1, <2>5 DEF Success, p1
    <3>. QED  BY <1>2, <1>5, <1>10, <2>3, <3>1, ProposerMoves
  <2>. QED  BY <2>4, <2>5
<1>13. CASE ~ Majority(p.grants)
  <2>1. prop' = [prop EXCEPT ![n] = p] /\ UNCHANGED <<acc, msgs, executed, busy>>
    BY <1>1, <1>13 DEF p
  <2>. QED  BY <1>2, <1>5, <2>1, ProposerMoves
<1>. QED  BY <1>12, <1>13

LEMMA OnProposerSendSuccessMoves ==
  ASSUME PInv, PBase', Calm, NEW n \in Nodes, OnProposerSendSuccess(n)
  PROVE  Moves(n)
<1>1. PICK m \in msgs :
        /\ m.type = "Success" /\ m.inst = acc[n].inst /\ acc[n].ballot # Null /\ From(m) = acc[n].ballot
        /\ Learn(n, acc[n].value)
        /\ acc' = [acc EXCEPT ![n] = NextInstance(acc[n])]
  BY DEF OnProposerSendSuccess
<1>2. UNCHANGED <<log, msgs, votes, mishaps, timeouts, restarts>>
  BY DEF OnProposerSendSuccess
<1>3. acc[n].inst <= LastInstance
  BY <1>1 DEF PInv, PBase, Core, TypesOK
<1>4. \E v \in Values : Majority(Voters(votes, acc[n].inst, acc[n].ballot, v))
  BY <1>1 DEF PInv, PBase, Core, SafetyOK, SuccessOK
<1>. QED  BY <1>1, <1>2, <1>3, <1>4, SuccessMoves

\* What the other node has on its disk was chosen, if everything on disks was.
LEMMA OnSendLearnValueMoves ==
  ASSUME PInv, PBase', Calm, NEW n \in Nodes, OnSendLearnValue(n)
  PROVE  Moves(n)
<1>1. PICK k \in Nodes \ {n} :
        LET i == acc[n].inst  r == log[k][i]
        IN  /\ acc[k].inst > i
            /\ log' = [log EXCEPT ![n][i] = [r EXCEPT !.promise = r.ballot]]
            /\ Learn(n, r.value)
  BY DEF OnSendLearnValue
<1> DEFINE i == acc[n].inst
           r == log[k][i]
           r1 == [r EXCEPT !.promise = r.ballot]
<1>2. /\ Rec(acc, log, executed) /\ acc \in [Nodes -> Acceptors] /\ acc[n] \in Acceptors
      /\ log \in [Nodes -> [Instances -> Records]]
      /\ i \in Instances /\ i \in Nat /\ acc[k].inst \in Nat /\ acc[n].promise \in Ballots
  BY MoveTypes DEF PInv, PBase, Core, TypesOK, Rec
<1>3. i <= LastInstance /\ i < acc[k].inst
  BY <1>1, <1>2, RecLearn
<1>4. /\ acc' = [acc EXCEPT ![n] = NextInstance(acc[n])]
      /\ log' = [log EXCEPT ![n][i] = r1]
      /\ executed' = executed \cup {<<i, r.value>>}
      /\ prop' = [prop EXCEPT ![n] = NewRound(prop[n])]
      /\ UNCHANGED <<msgs, votes>>
  BY <1>1 DEF OnSendLearnValue, Learn
<1>5. /\ r \in Records /\ VotedFor(votes, i, r.ballot, r.value)
      /\ DiskChosen => Majority(Voters(votes, i, r.ballot, r.value))
  <2>1. DiskOK(acc, votes, log)
    BY DEF PInv, KeptOK
  <2>. QED  BY <1>2, <1>3, <2>1 DEF DiskOK, DiskFits, DiskChosen
<1>6. r1.promise = r.ballot /\ r1.ballot = r.ballot /\ r1.value = r.value /\ r.ballot \in Ballots
  BY <1>5 DEF Records
<1> HIDE DEF r1, r
<1>7. /\ acc'[n].inst = i + 1 /\ acc'[n].promise = acc[n].promise
      /\ \A j \in Nodes : j # n => acc'[j] = acc[j]
  BY <1>2, <1>3, <1>4, NextIs
<1>8. log'[n][i] = r1 /\ \A j \in Nodes, h \in Instances : j # n \/ h # i => log'[j][h] = log[j][h]
  BY <1>2, <1>4
<1>9. DiskKept(n)
  BY <1>2, <1>8, InstancesAreNat DEF DiskKept
<1>10. DiskFits(votes, n, i, r1)
  <2>1. AtLeast(r1.promise, r1.ballot)
    BY <1>6, AtLeastIsTotal
  <2>. QED  BY <1>5, <1>6, <2>1 DEF DiskFits
<1>11. Learns(n)
  BY <1>3, <1>4, <1>5, <1>6, <1>7, <1>8, <1>9, <1>10 DEF Learns
<1>12. /\ prop'[n].id = prop[n].id /\ prop'[n].value = NoValue
       /\ \A j \in Nodes : j # n => prop'[j] = prop[j]
  BY <1>4, NewRoundKeeps
<1>13. acc'[n].inst > acc[n].inst /\ AtLeast(acc'[n].promise, acc[n].promise)
  BY <1>2, <1>7, AtLeastIsTotal
<1>14. SameRounds(n) /\ OnlyMoves(n)
  BY <1>4, <1>7, <1>12, <1>13 DEF SameRounds, OnlyMoves
<1>. QED  BY <1>4, <1>11, <1>14, SameRoundsMove

LEMMA RestartMoves ==
  ASSUME PInv, PBase', Calm, Calm', NEW n \in Nodes, Restart(n)
  PROVE  Moves(n)
<1> DEFINE i == acc[n].inst
           l == LastLogged(n)
           a1 == Loaded(n)
           p1 == NewProposer(a1.promise[1] + 1)
<1>1. /\ acc' = [acc EXCEPT ![n] = a1] /\ prop' = [prop EXCEPT ![n] = p1]
      /\ executed' = executed \cup {<<j, log[n][j].value>> : j \in 0 .. l - 1}
      /\ mishaps' = IF Forgets(n) THEN mishaps \cup {"forgot"} ELSE mishaps
      /\ UNCHANGED <<log, msgs, votes, timeouts>>
  BY DEF Restart
<1>2. /\ TypesOK(acc, prop, votes, msgs) /\ Rec(acc, log, executed)
      /\ acc \in [Nodes -> Acceptors] /\ prop \in [Nodes -> Proposers]
      /\ i \in Instances /\ i \in Nat
  BY MoveTypes DEF PInv, PBase, Core, TypesOK
<1>3. /\ a1.inst = l /\ a1.promise \in Ballots
      /\ {<<j, log[n][j].value>> : j \in 0 .. l - 1} \subseteq executed
  <2>1. a1 \in Acceptors /\ {<<j, log[n][j].value>> : j \in 0 .. l - 1} \subseteq executed
    BY <1>2, LoadedIs
  <2>2. a1.inst = l
    BY DEF Loaded
  <2>. QED  BY <2>1, <2>2 DEF Acceptors
<1>4. AtLeast(a1.promise, acc[n].promise)
  BY <1>1 DEF Calm, Forgets
<1>5. p1.value = NoValue /\ p1.id = a1.promise[1] + 1
  BY DEF NewProposer
<1>6. l \in {i, i - 1}
  <2>1. /\ l \in Instances /\ l \in Nat /\ l <= i
        /\ \A j \in Instances : j > l => j >= i
    BY <1>2, LastLoggedIs, InstancesAreNat
  <2>2. CASE l < i
    <3>1. l + 1 \in Instances /\ l + 1 > l
      BY <1>2, <2>1, <2>2, BoundsAssumption DEF Instances
    <3>2. l + 1 >= i
      BY <2>1, <3>1
    <3>. QED  BY <1>2, <2>1, <2>2, <3>2
  <2>. QED  BY <1>2, <2>1, <2>2
<1> HIDE DEF a1, p1, l
<1>7. acc'[n] = a1 /\ prop'[n] = p1 /\ OnlyMoves(n)
  BY <1>1, <1>2 DEF OnlyMoves
<1>8. VoteMove(n)
  BY <1>1, <1>4, <1>7 DEF VoteMove
<1>9. OwnMove(n)
  <2> SUFFICES ASSUME NEW m \in Accepts(msgs), m.from = n, m.id = prop'[n].id
               PROVE  FALSE
    BY <1>1 DEF OwnMove, Accepts
  <2>1. OwnOK(acc, prop, msgs)
    BY DEF PInv, KeptOK
  <2>2. m.id < a1.promise[1] + 1
    BY <1>2, <1>3, <1>4, <2>1, FreshId
  <2>3. m.id = a1.promise[1] + 1 /\ a1.promise[1] \in Nat
    BY <1>3, <1>5, <1>7, BallotsArePairs
  <2>. QED  BY <2>2, <2>3
<1>10. ValueMove(n)
  BY <1>5, <1>7 DEF ValueMove
<1>11. Stays(n)
  <2>1. executed' = executed
    BY <1>1, <1>3
  <2>. QED  BY <1>1, <1>3, <1>6, <1>7, <2>1 DEF Stays, DiskKept
<1>. QED  BY <1>7, <1>8, <1>9, <1>10, <1>11 DEF Moves

------------------------------------------------------------------------------
(***************************************************************************)
(* What is kept while everything is calm.                                  *)
(***************************************************************************)
LEMMA MishapsStay == Next => mishaps \subseteq mishaps'
<1> SUFFICES ASSUME Next PROVE mishaps \subseteq mishaps'
  OBVIOUS
<1>1. PICK n \in Nodes : Propose(n) \/ Vote(n) \/ LearnFromOthers(n) \/ Restart(n)
  BY DEF Next
<1>2. ASSUME NEW p, Prepare(n, p) PROVE mishaps \subseteq mishaps'
  BY <1>2 DEF Prepare
<1>3. ASSUME NEW p, Accept(n, p) PROVE mishaps \subseteq mishaps'
  BY <1>3 DEF Accept
<1>4. ASSUME NEW m, CatchUp(n, m) PROVE mishaps \subseteq mishaps'
  BY <1>4 DEF CatchUp
<1>5. CASE NewValue(n) \/ PrepareTimeout(n) \/ AcceptTimeout(n)
  BY <1>2, <1>3, <1>5 DEF NewValue, PrepareTimeout, AcceptTimeout
<1>6. CASE CommitTimeout(n) \/ OnAcceptReply(n) \/ OnExpiredReply(n) \/ LearnFromOthers(n)
  BY <1>6 DEF CommitTimeout, OnAcceptReply, OnExpiredReply, LearnFromOthers,
              OnProposerSendSuccess, OnSendLearnValue
<1>7. CASE OnPrepareReply(n)
  BY <1>3, <1>7 DEF OnPrepareReply
<1>8. CASE Vote(n)
  BY <1>4, <1>8 DEF Vote, OnPrepare, OnAccept
<1>9. CASE Restart(n)
  BY <1>9 DEF Restart
<1>. QED  BY <1>1, <1>5, <1>6, <1>7, <1>8, <1>9 DEF Propose

LEMMA NextMoves ==
  ASSUME PInv, PBase', Calm', Next
  PROVE  Calm /\ \E n \in Nodes : Moves(n)
<1>1. Calm
  BY MishapsStay DEF Calm
<1>2. PICK n \in Nodes : Propose(n) \/ Vote(n) \/ LearnFromOthers(n) \/ Restart(n)
  BY DEF Next
<1>3. CASE Propose(n)
  BY <1>1, <1>3, NewValueMoves, CommitTimeoutMoves, TimeoutMoves,
     OnPrepareReplyMoves, OnAcceptReplyMoves, OnExpiredReplyMoves DEF Propose
<1>4. CASE Vote(n)
  BY <1>1, <1>4, OnPrepareMoves, OnAcceptMoves DEF Vote
<1>5. CASE LearnFromOthers(n)
  BY <1>1, <1>5, OnProposerSendSuccessMoves, OnSendLearnValueMoves DEF LearnFromOthers
<1>6. CASE Restart(n)
  BY <1>1, <1>6, RestartMoves
<1>. QED  BY <1>1, <1>2, <1>3, <1>4, <1>5, <1>6

LEMMA KeptStep ==
  ASSUME PInv, PBase', Calm, NEW n \in Nodes, Moves(n)
  PROVE  KeptOK'
<1>1. /\ OnlyMoves(n) /\ VoteMove(n) /\ OwnMove(n) /\ (Stays(n) \/ Learns(n))
      /\ OwnOK(acc, prop, msgs) /\ DiskOK(acc, votes, log)
  BY DEF Moves, PInv, KeptOK
<1>2. DiskKept(n) /\ acc[n].inst \in Nat /\ acc'[n].inst \in Nat
  BY <1>1, MoveTypes, NextTypes DEF Stays, Learns
<1>3. ASSUME NEW m \in Accepts(msgs')
      PROVE  /\ AtLeast(acc'[m.from].promise, From(m))
             /\ m.inst = acc'[m.from].inst /\ m.id = prop'[m.from].id /\ acc'[m.from].promise = From(m)
                => acc'[m.from].ballot = From(m)
  <2>0. msgs' \subseteq Messages
    BY <1>1, NextTypes
  <2>1. m.from \in Nodes /\ From(m) \in Ballots
    BY <2>0, AcceptTypes
  <2>2. m \in Accepts(msgs) \/ SendsAccept(n, m)
    BY <1>1 DEF VoteMove, Accepts
  <2>3. CASE m.from = n
    <3>1. AtLeast(acc'[n].promise, From(m))
      <4>1. CASE SendsAccept(n, m)
        BY <4>1 DEF SendsAccept
      <4>2. CASE m \in Accepts(msgs)
        <5>1. AtLeast(acc[m.from].promise, From(m))
          BY <1>1, <4>2 DEF OwnOK
        <5>2. AtLeast(acc[n].promise, From(m))
          BY <2>3, <5>1
        <5>3. acc[n].promise \in Ballots /\ acc'[n].promise \in Ballots
          BY MoveTypes, NextTypes
        <5>4. AtLeast(acc'[n].promise, acc[n].promise)
          BY <1>1 DEF VoteMove
        <5>. QED  BY <2>1, <5>2, <5>3, <5>4, AtLeastIsTransitive
      <4>. QED  BY <2>2, <4>1, <4>2
    <3>2. m.inst = acc'[n].inst /\ m.id = prop'[n].id /\ acc'[n].promise = From(m)
          => acc'[n].ballot = From(m)
      BY <1>1, <2>3 DEF OwnMove
    <3>. QED  BY <2>3, <3>1, <3>2
  <2>4. CASE m.from # n
    <3>1. m \in Accepts(msgs)
      BY <2>2, <2>4 DEF SendsAccept
    <3>2. acc'[m.from] = acc[m.from] /\ prop'[m.from] = prop[m.from]
      BY <1>1, <2>1, <2>4 DEF OnlyMoves
    <3>. QED  BY <1>1, <3>1, <3>2 DEF OwnOK
  <2>. QED  BY <2>3, <2>4
<1>4. ASSUME NEW k \in Nodes, NEW i \in Instances, i < acc'[k].inst
      PROVE  DiskFits(votes', k, i, log'[k][i])
  <2>1. i \in Nat
    BY InstancesAreNat
  <2>2. DiskFits(votes, k, i, log'[k][i])
    <3>1. CASE k # n
      BY <1>1, <1>2, <1>4, <3>1 DEF OnlyMoves, DiskKept, DiskOK
    <3>2. CASE k = n /\ i < acc[n].inst
      BY <1>1, <1>2, <3>2 DEF DiskKept, DiskOK
    <3>3. CASE k = n /\ ~ (i < acc[n].inst)
      <4>1. Learns(n)
        BY <1>1, <1>2, <1>4, <2>1, <3>3 DEF Stays
      <4>2. i = acc[n].inst
        BY <1>2, <1>4, <2>1, <3>3, <4>1 DEF Learns
      <4>. QED  BY <3>3, <4>1, <4>2 DEF Learns
    <3>. QED  BY <3>1, <3>2, <3>3
  <2>3. votes \subseteq votes' /\ \A w \in votes' : w.node = k /\ w.inst = i => w \in votes
    <3>1. k = n => i # acc'[n].inst
      BY <1>2, <1>4, <2>1
    <3>. QED  BY <1>1, <3>1 DEF VoteMove
  <2> DEFINE d == log'[k][i]
  <2> HIDE DEF d
  <2>4. DiskFits(votes, k, i, d)
    BY <2>2 DEF d
  <2>5. DiskFits(votes', k, i, d)
    BY <2>3, <2>4 DEF DiskFits, VotedFor
  <2>. QED  BY <2>5 DEF d
<1>5. OwnOK(acc', prop', msgs')
  BY <1>3 DEF OwnOK
<1>6. DiskOK(acc', votes', log')
  BY <1>4 DEF DiskOK
<1>. QED  BY <1>5, <1>6 DEF KeptOK

------------------------------------------------------------------------------
(***************************************************************************)
(* The invariant.                                                          *)
(***************************************************************************)
LEMMA PInit == Init => PInv
<1> SUFFICES ASSUME Init PROVE PInv
  OBVIOUS
<1>1. \A n \in Nodes :
        acc[n] = [inst |-> 0, promise |-> Null, ballot |-> Null, value |-> NoValue]
  BY DEF Init
<1>2. 1 \in 1 .. MaxId + 1 /\ 0 \in Instances
  BY BoundsAssumption DEF Instances
<1>3. acc \in [Nodes -> Acceptors] /\ prop \in [Nodes -> Proposers]
  BY <1>2, NewProposerIs, NullIsLeast DEF Init, Acceptors, Contents
<1>4. \A n \in Nodes : /\ prop[n].phase = "idle" /\ ~ prop[n].skip
                       /\ acc[n].ballot = Null /\ acc[n].promise = Null
  BY <1>1, <1>2, NewProposerIs DEF Init
<1>5. votes = {} /\ msgs = {} /\ executed = {} /\ mishaps = {}
  BY DEF Init
<1>6. TypesOK(acc, prop, votes, msgs)
  BY <1>3, <1>4, <1>5 DEF TypesOK
<1>7. Accepts(msgs) = {} /\ AtLeast(Null, Null)
  BY <1>5, NullIsLeast DEF Accepts
<1>8. SafetyOK(acc, prop, votes, msgs)
  BY <1>4, <1>5, <1>7
     DEF SafetyOK, AcceptsOK, ValuesOK, FitsAccepts, OneValue, VotesOK, BallotsOK, PromisesOK,
         PreparingOK, SkipOK, GrantsOK, RepliesOK, SuccessOK
<1>9. \A i \in Instances : ~ (i < 0)
  BY InstancesAreNat
<1>10. Rec(acc, log, executed)
  <2>1. log \in [Nodes -> [Instances -> Records]]
    BY NoRecordIs DEF Init
  <2>2. ASSUME NEW n \in Nodes
        PROVE  RecordsOK(acc[n], log[n], executed)
    <3>1. \A i \in Instances : log[n][i] = NoRecord
      BY DEF Init
    <3>2. acc[n].inst = 0 /\ acc[n].ballot = Null /\ acc[n].value = NoValue
      BY <1>1
    <3>. QED  BY <1>2, <1>9, <3>1, <3>2 DEF RecordsOK
  <2>. QED  BY <1>5, <2>1, <2>2 DEF Rec
<1>11. CountersOK
  BY BoundsAssumption DEF Init, CountersOK
<1>12. KeptOK
  BY <1>1, <1>7, <1>9 DEF KeptOK, OwnOK, DiskOK
<1>. QED  BY <1>5, <1>6, <1>8, <1>10, <1>11, <1>12 DEF PInv, PBase, Core

LEMMA PNext == PInv /\ Next => PBase'
<1> SUFFICES ASSUME PInv, NEW n \in Nodes, Propose(n) \/ Vote(n) \/ LearnFromOthers(n) \/ Restart(n)
             PROVE  PBase'
  BY DEF Next
<1>1. CASE Propose(n)
  BY <1>1, NewValueKeeps, CommitTimeoutKeeps, PrepareTimeoutKeeps, AcceptTimeoutKeeps,
     OnPrepareReplyKeeps, OnAcceptReplyKeeps, OnExpiredReplyKeeps DEF Propose
<1>2. CASE Vote(n)
  BY <1>2, OnPrepareKeeps, OnAcceptKeeps DEF Vote
<1>3. CASE LearnFromOthers(n)
  BY <1>3, OnProposerSendSuccessKeeps, OnSendLearnValueKeeps DEF LearnFromOthers
<1>4. CASE Restart(n)
  BY <1>4, RestartKeeps
<1>. QED  BY <1>1, <1>2, <1>3, <1>4

LEMMA PStep == PInv /\ [Next]_vars => PInv'
<1> SUFFICES ASSUME PInv, [Next]_vars PROVE PInv'
  OBVIOUS
<1>1. CASE UNCHANGED vars
  <2>1. /\ acc' = acc /\ prop' = prop /\ log' = log /\ busy' = busy /\ msgs' = msgs
        /\ executed' = executed /\ votes' = votes /\ mishaps' = mishaps
        /\ timeouts' = timeouts /\ restarts' = restarts
    BY <1>1 DEF vars
  <2>2. Calm' = Calm
    BY <2>1 DEF Calm
  <2>3. PBase'
    <3>1. Core(acc', prop', votes', msgs') = Core(acc, prop, votes, msgs)
      BY <2>1
    <3>2. Core(acc, prop, votes, msgs)' = Core(acc', prop', votes', msgs')
      BY <2>1, <2>2 DEF Core
    <3>. QED  BY <2>1, <3>1, <3>2 DEF PInv, PBase, CountersOK
  <2>4. KeptOK' = KeptOK
    BY <2>1 DEF KeptOK
  <2>. QED  BY <2>2, <2>3, <2>4 DEF PInv
<1>2. CASE Next
  <2>1. PBase'
    BY <1>2, PNext
  <2>2. Calm' => KeptOK'
    BY <1>2, <2>1, NextMoves, KeptStep
  <2>. QED  BY <2>1, <2>2 DEF PInv
<1>. QED  BY <1>1, <1>2

\* The inductive invariant of the group: types, records and counters always,
\* and under Calm what promises, votes and replies say of each other.
THEOREM PInvariance == Spec => []PInv
BY PInit, PStep, PTL DEF Spec

------------------------------------------------------------------------------
(***************************************************************************)
(* What the invariant says.                                                *)
(***************************************************************************)
\* Acceptors, proposers, records and messages are well-formed: in particular
\* no empty value is proposed, accepted or executed, and instances and
\* proposal ids keep their bounds, whatever times out or restarts.
THEOREM PaxosTypes == Spec => []TypeOK
<1>1. PInv => TypeOK
  <2> SUFFICES ASSUME PInv PROVE TypeOK
    OBVIOUS
  <2>1. TypesOK(acc, prop, votes, msgs) /\ Rec(acc, log, executed) /\ CountersOK
        /\ mishaps \subseteq {"reused", "misheard", "forgot"}
    BY DEF PInv, PBase, Core
  <2>. QED  BY <2>1 DEF TypesOK, Rec, CountersOK, TypeOK, Voted
<1>. QED  BY <1>1, PInvariance, PTL

\* After a restart Paxos plays to the state machine, for every instance the
\* node is past, a value that was played before; the records of LearnValue and
\* of restarts in any number included.
THEOREM ReplayIsTheSame == Spec => []ReplaySame
<1>1. PInv => ReplaySame
  <2> SUFFICES ASSUME PInv, NEW n \in Nodes, NEW i \in 0 .. acc[n].inst - 1
               PROVE  <<i, log[n][i].value>> \in executed
    BY DEF ReplaySame
  <2>1. RecordsOK(acc[n], log[n], executed) /\ acc[n].inst \in Instances
    BY DEF PInv, PBase, Rec, Core, TypesOK, Acceptors
  <2>2. i \in Instances /\ i < acc[n].inst
    BY <2>1, BoundsAssumption DEF Instances
  <2>. QED  BY <2>1, <2>2 DEF RecordsOK
<1>. QED  BY <1>1, PInvariance, PTL

\* As long as no acceptor came back with less than it promised and no proposer
\* prepared again a ballot that its own acceptor rejects, a ballot that is kept
\* for the next instances, and through timeouts, has one value in each: restarts
\* and timed-out accept phases included, in a group of any size.
THEOREM BallotHasOneValue == Spec => [](Calm => OneValuePerBallot)
<1>1. PInv => (Calm => OneValuePerBallot)
  BY DEF PInv, PBase, Core, SafetyOK, OneValue, Accepts, OneValuePerBallot
<1>. QED  BY <1>1, PInvariance, PTL

\* Under the same condition majorities never accept two values in one instance:
\* the prepare phase that a proposer skips is replaced by what its majority
\* promised in an earlier instance, and what a restart reads back is enough.
THEOREM OneValueIsChosen == Spec => [](Calm => ChosenOnce)
<1>1. PInv => (Calm => ChosenOnce)
  <2> SUFFICES ASSUME PInv, Calm, NEW x \in votes, NEW y \in votes, x.inst = y.inst,
                      ChosenUnder(x.inst, x.ballot, x.value), ChosenUnder(y.inst, y.ballot, y.value)
               PROVE  x.value = y.value
    BY DEF ChosenOnce
  <2>1. x.ballot \in Ballots /\ y.ballot \in Ballots
    BY VoteTypes DEF PInv, PBase, Core, TypesOK
  <2>2. /\ Majority(Voters(votes, x.inst, x.ballot, x.value))
        /\ Majority(Voters(votes, x.inst, y.ballot, y.value))
    BY ChosenVoters
  <2>. QED  BY <2>1, <2>2, OneChosen
<1>. QED  BY <1>1, PInvariance, PTL

------------------------------------------------------------------------------
(***************************************************************************)
(* Agreement, as long as nobody takes for chosen what is not.              *)
(***************************************************************************)
DiskVotes ==
  \A w \in votes : w.inst < acc[w.node].inst =>
    \/ log[w.node][w.inst].value = w.value
    \/ Above(log[w.node][w.inst].ballot, w.ballot)

ExecutedChosen ==
  \A x \in executed : \E b \in Ballots : Majority(Voters(votes, x[1], b, x[2]))

ValuesOffered ==
  /\ \A n \in Nodes : prop[n].value # NoValue => prop[n].value \in OneLog!Offered(acc[n].inst)
  /\ \A m \in Accepts(msgs) : m.value \in OneLog!Offered(m.inst)

LogInv == DiskChosen /\ DiskVotes /\ ExecutedChosen /\ ValuesOffered

AInv == PInv /\ (mishaps = {} => LogInv)

LEMMA MoreVoters ==
  ASSUME NEW V, NEW V1, V \subseteq V1, NEW i, NEW b, NEW v, Majority(Voters(V, i, b, v))
  PROVE  Majority(Voters(V1, i, b, v))
<1>1. /\ Voters(V, i, b, v) \in SUBSET Nodes /\ Voters(V1, i, b, v) \in SUBSET Nodes
      /\ Voters(V, i, b, v) \subseteq Voters(V1, i, b, v)
  BY DEF Voters
<1>. QED  BY <1>1, MajorityGrows

LEMMA DiskStep ==
  ASSUME PInv, PBase', Calm, mishaps' = {}, DiskChosen, DiskVotes, ExecutedChosen,
         NEW n \in Nodes, Moves(n)
  PROVE  DiskChosen' /\ DiskVotes' /\ ExecutedChosen'
<1>1. /\ OnlyMoves(n) /\ VoteMove(n) /\ (Stays(n) \/ Learns(n))
      /\ votes \subseteq votes'
  BY DEF Moves, VoteMove
<1>2. DiskKept(n) /\ acc[n].inst \in Nat /\ acc'[n].inst \in Nat
  BY <1>1, MoveTypes, NextTypes DEF Stays, Learns
<1> DEFINE i0 == acc[n].inst
           r == log'[n][i0]
<1>3. ASSUME NEW k \in Nodes, NEW i \in Instances, i < acc'[k].inst
      PROVE  \/ i < acc[k].inst /\ log'[k][i] = log[k][i]
             \/ k = n /\ i = i0 /\ Learns(n)
  <2>1. CASE k # n
    BY <1>1, <1>2, <1>3, <2>1 DEF OnlyMoves, DiskKept
  <2>2. CASE k = n
    <3>1. i \in Nat
      BY InstancesAreNat
    <3>2. CASE i < acc[n].inst
      BY <1>2, <2>2, <3>2 DEF DiskKept
    <3>3. CASE ~ (i < acc[n].inst)
      <4>1. Learns(n)
        BY <1>1, <1>2, <1>3, <2>2, <3>1, <3>3 DEF Stays
      <4>2. i = i0
        BY <1>2, <1>3, <2>2, <3>1, <3>3, <4>1 DEF Learns
      <4>. QED  BY <2>2, <4>1, <4>2
    <3>. QED  BY <3>2, <3>3
  <2>. QED  BY <2>1, <2>2
<1>4. Learns(n) => r.ballot \in Ballots /\ Majority(Voters(votes, i0, r.ballot, r.value))
  BY DEF Learns
<1>5. ASSUME NEW k \in Nodes, NEW i \in Instances, i < acc'[k].inst
      PROVE  Majority(Voters(votes', i, log'[k][i].ballot, log'[k][i].value))
  <2>1. Majority(Voters(votes, i, log'[k][i].ballot, log'[k][i].value))
    <3>1. CASE i < acc[k].inst /\ log'[k][i] = log[k][i]
      BY <3>1 DEF DiskChosen
    <3>2. CASE k = n /\ i = i0 /\ Learns(n)
      BY <1>4, <3>2
    <3>. QED  BY <1>3, <1>5, <3>1, <3>2
  <2>. QED  BY <1>1, <2>1, MoreVoters
<1>6. ASSUME NEW w \in votes', w.inst < acc'[w.node].inst
      PROVE  \/ log'[w.node][w.inst].value = w.value
             \/ Above(log'[w.node][w.inst].ballot, w.ballot)
  <2>1. votes' \subseteq Voted
    BY NextTypes
  <2>2. w.node \in Nodes /\ w.inst \in Instances /\ w.inst \in Nat /\ w.ballot \in Ballots
    BY <2>1, VoteTypes, InstancesAreNat
  <2>3. w \in votes
    BY <1>1, <1>2, <1>6, <2>2 DEF VoteMove
  <2>4. CASE w.inst < acc[w.node].inst /\ log'[w.node][w.inst] = log[w.node][w.inst]
    BY <2>3, <2>4 DEF DiskVotes
  <2>5. CASE w.node = n /\ w.inst = i0 /\ Learns(n)
    <3>1. r.ballot \in Ballots /\ Majority(Voters(votes, i0, r.ballot, r.value))
      BY <1>4, <2>5
    <3>2. CASE AtLeast(w.ballot, r.ballot)
      BY <2>3, <2>5, <3>1, <3>2, NoRival
    <3>3. CASE ~ AtLeast(w.ballot, r.ballot)
      BY <2>2, <2>5, <3>1, <3>3, AboveIsNotAtMost
    <3>. QED  BY <2>5, <3>2, <3>3
  <2>. QED  BY <1>3, <1>6, <2>2, <2>4, <2>5
<1>7. ASSUME NEW x \in executed'
      PROVE  \E b \in Ballots : Majority(Voters(votes', x[1], b, x[2]))
  <2>1. \E b \in Ballots : Majority(Voters(votes, x[1], b, x[2]))
    <3>1. CASE x \in executed
      BY <3>1 DEF ExecutedChosen
    <3>2. CASE x \notin executed
      <4>1. Learns(n) /\ x = <<i0, r.value>>
        BY <1>1, <1>7, <3>2 DEF Stays, Learns
      <4>. QED  BY <1>4, <4>1
    <3>. QED  BY <3>1, <3>2
  <2>. QED  BY <1>1, <2>1, MoreVoters
<1>. QED  BY <1>5, <1>6, <1>7 DEF DiskChosen, DiskVotes, ExecutedChosen

LEMMA VoteOffered ==
  ASSUME PInv, Calm, ValuesOffered, NEW w \in votes
  PROVE  w.value \in OneLog!Offered(w.inst)
<1>1. PICK m \in Accepts(msgs) : m.inst = w.inst /\ m.value = w.value
  BY DEF PInv, PBase, Core, SafetyOK, VotesOK
<1>. QED  BY <1>1 DEF ValuesOffered

LEMMA ValuesStep ==
  ASSUME PInv, Calm, ValuesOffered, NEW n \in Nodes, Moves(n)
  PROVE  ValuesOffered'
<1>1. OnlyMoves(n) /\ VoteMove(n) /\ ValueMove(n)
  BY DEF Moves
<1>2. ASSUME prop'[n].value # NoValue
      PROVE  prop'[n].value \in OneLog!Offered(acc'[n].inst)
  <2>1. CASE acc'[n].inst = acc[n].inst /\ prop'[n].value = prop[n].value
    BY <1>2, <2>1 DEF ValuesOffered
  <2>2. CASE acc'[n].inst = acc[n].inst /\ prop'[n].value \in ClientValues[n][acc[n].inst]
    BY <2>2 DEF OneLog!Offered
  <2>3. CASE \E w \in votes : w.inst = acc'[n].inst /\ w.value = prop'[n].value
    BY <2>3, VoteOffered
  <2>. QED  BY <1>1, <1>2, <2>1, <2>2, <2>3 DEF ValueMove
<1>3. ASSUME NEW k \in Nodes, prop'[k].value # NoValue
      PROVE  prop'[k].value \in OneLog!Offered(acc'[k].inst)
  <2>1. CASE k = n  BY <1>2, <1>3, <2>1
  <2>2. CASE k # n  BY <1>1, <1>3, <2>2 DEF OnlyMoves, ValuesOffered
  <2>. QED  BY <2>1, <2>2
<1>4. ASSUME NEW m \in Accepts(msgs')
      PROVE  m.value \in OneLog!Offered(m.inst)
  <2>1. m \in Accepts(msgs) \/ SendsAccept(n, m)
    BY <1>1 DEF Accepts, VoteMove
  <2>2. CASE m \in Accepts(msgs)
    BY <2>2 DEF ValuesOffered
  <2>3. CASE SendsAccept(n, m)
    BY <1>2, <2>3 DEF SendsAccept
  <2>. QED  BY <2>1, <2>2, <2>3
<1>. QED  BY <1>3, <1>4 DEF ValuesOffered, OneLog!Offered, Accepts

LEMMA AInit == Init => AInv
<1> SUFFICES ASSUME Init PROVE AInv
  OBVIOUS
<1>1. PInv
  BY PInit
<1>2. /\ \A n \in Nodes : acc[n].inst = 0 /\ prop[n].value = NoValue
      /\ msgs = {} /\ votes = {} /\ executed = {}
  BY DEF Init, NewProposer
<1>3. \A i \in Instances : ~ (i < 0)
  BY InstancesAreNat
<1>4. Accepts(msgs) = {}
  BY <1>2 DEF Accepts
<1>. QED  BY <1>1, <1>2, <1>3, <1>4
          DEF AInv, LogInv, DiskChosen, DiskVotes, ExecutedChosen, ValuesOffered

LEMMA AStep == AInv /\ [Next]_vars => AInv'
<1> SUFFICES ASSUME AInv, [Next]_vars PROVE AInv'
  OBVIOUS
<1>1. PInv /\ PInv' /\ PBase'
  BY PStep DEF AInv, PInv
<1>2. CASE UNCHANGED vars
  <2>1. /\ acc' = acc /\ prop' = prop /\ log' = log /\ msgs' = msgs /\ votes' = votes
        /\ executed' = executed /\ mishaps' = mishaps
    BY <1>2 DEF vars
  <2>. QED  BY <1>1, <2>1 DEF AInv, LogInv, DiskChosen, DiskVotes, ExecutedChosen,
                              ValuesOffered, OneLog!Offered, Accepts, Voters
<1>3. CASE Next
  <2> SUFFICES ASSUME mishaps' = {} PROVE LogInv'
    BY <1>1 DEF AInv
  <2>1. mishaps = {} /\ Calm' /\ LogInv
    BY <1>3, MishapsStay DEF AInv, Calm
  <2>2. PICK n \in Nodes : Calm /\ Moves(n)
    BY <1>1, <1>3, <2>1, NextMoves
  <2>3. DiskChosen /\ DiskVotes /\ ExecutedChosen /\ ValuesOffered
    BY <2>1 DEF LogInv
  <2>4. DiskChosen' /\ DiskVotes' /\ ExecutedChosen'
    BY <1>1, <2>2, <2>3, DiskStep
  <2>5. ValuesOffered'
    BY <1>1, <2>2, <2>3, ValuesStep
  <2>. QED  BY <2>4, <2>5 DEF LogInv
<1>. QED  BY <1>2, <1>3

\* The inductive invariant of agreement: besides PInv, as long as there is no
\* mishap, what is executed, or on disk for an older instance, was chosen.
THEOREM AInvariance == Spec => []AInv
BY AInit, AStep, PTL DEF Spec

------------------------------------------------------------------------------
\* As long as none of the three mishaps has happened, no two values are executed
\* for one instance: whatever messages are lost, delayed, reordered or repeated,
\* whatever times out and restarts, and whether a node learns from a success,
\* from another node's log or from a message of the next instance.
THEOREM NodesAgree == Spec => [](mishaps = {} => Agreement)
<1>1. AInv => (mishaps = {} => Agreement)
  <2> SUFFICES ASSUME AInv, mishaps = {}, NEW x \in executed, NEW y \in executed, x[1] = y[1]
               PROVE  x[2] = y[2]
    BY DEF Agreement
  <2>1. PInv /\ Calm /\ ExecutedChosen
    BY DEF AInv, LogInv, Calm
  <2>2. PICK b \in Ballots : Majority(Voters(votes, x[1], b, x[2]))
    BY <2>1 DEF ExecutedChosen
  <2>3. PICK c \in Ballots : Majority(Voters(votes, y[1], c, y[2]))
    BY <2>1 DEF ExecutedChosen
  <2>. QED  BY <2>1, <2>2, <2>3, OneChosen
<1>. QED  BY <1>1, AInvariance, PTL

\* Under the same condition what an acceptor told a proposer it accepted stays
\* on its disk, unless a higher ballot replaced it: also when LearnValue has
\* overwritten the record with what the node learned from another one, and
\* through any restarts.
THEOREM VotesStayOnDisk == Spec => [](mishaps = {} => VoteOnDisk)
<1>1. AInv => (mishaps = {} => VoteOnDisk)
  <2> SUFFICES ASSUME AInv, mishaps = {}, NEW r \in msgs, r.type = "AcceptReply", r.reject = 0,
                      NEW m \in Accepts(msgs), m.inst = r.inst, From(m) = <<r.id, r.to>>
               PROVE  \/ log[r.from][r.inst].value = m.value
                      \/ Above(log[r.from][r.inst].ballot, From(m))
    BY DEF VoteOnDisk, Accepts
  <2>1. PInv /\ SafetyOK(acc, prop, votes, msgs) /\ Rec(acc, log, executed) /\ DiskVotes
    BY DEF AInv, LogInv, PInv, PBase, Core, Calm
  <2>2. PICK w \in votes : w.node = r.from /\ w.inst = r.inst /\ w.ballot = <<r.id, r.to>>
    BY <2>1 DEF SafetyOK, RepliesOK
  <2>3. PICK m1 \in Accepts(msgs) : m1.inst = w.inst /\ From(m1) = w.ballot /\ m1.value = w.value
    BY <2>1 DEF SafetyOK, VotesOK
  <2>4. w.value = m.value
    BY <2>1, <2>2, <2>3 DEF SafetyOK, OneValue
  <2>5. w.node \in Nodes /\ w.ballot \in Ballots /\ w.inst \in Nat /\ From(m) # Null
    <3>1. votes \subseteq Voted /\ msgs \subseteq Messages
      BY <2>1, MoveTypes DEF PInv, PBase, Core, TypesOK
    <3>. QED  BY <3>1, VoteTypes, AcceptTypes, InstancesAreNat
  <2>6. CASE w.inst < acc[w.node].inst
    BY <2>1, <2>2, <2>4, <2>6 DEF DiskVotes
  <2>7. CASE ~ (w.inst < acc[w.node].inst)
    <3>1. w.inst = acc[w.node].inst /\ AtLeast(acc[w.node].ballot, w.ballot)
      BY <2>1, <2>5, <2>7, MoveTypes DEF SafetyOK, VotesOK
    <3>2. acc[w.node].ballot \in Ballots
      BY <2>1, <2>5, MoveTypes
    <3>3. acc[w.node].ballot # Null
      BY <2>2, <2>5, <3>1, NullIsLeast, AtLeastIsTotal
    <3>4. log[w.node][w.inst] = Record(acc[w.node])
      BY <2>1, <2>5, <3>1, <3>3 DEF Rec, RecordsOK
    <3>5. log[w.node][w.inst].ballot = acc[w.node].ballot /\ log[w.node][w.inst].value = acc[w.node].value
      BY <3>4 DEF Record
    <3>6. CASE acc[w.node].ballot = w.ballot
      <4>1. PICK x \in votes : x.inst = w.inst /\ x.ballot = w.ballot /\ x.value = acc[w.node].value
        BY <2>1, <2>5, <3>1, <3>3, <3>6 DEF SafetyOK, BallotsOK, VotedFor
      <4>2. PICK m2 \in Accepts(msgs) : m2.inst = x.inst /\ From(m2) = x.ballot /\ m2.value = x.value
        BY <2>1 DEF SafetyOK, VotesOK
      <4>. QED  BY <2>1, <2>2, <2>3, <2>4, <3>5, <4>1, <4>2 DEF SafetyOK, OneValue
    <3>7. CASE acc[w.node].ballot # w.ballot
      <4>1. Above(acc[w.node].ballot, w.ballot)
        BY <2>5, <3>1, <3>2, <3>7, AboveIsNotAtMost, AtLeastIsTotal
      <4>. QED  BY <2>2, <3>5, <4>1
    <3>. QED  BY <3>6, <3>7
  <2>. QED  BY <2>6, <2>7
<1>. QED  BY <1>1, AInvariance, PTL

------------------------------------------------------------------------------
(***************************************************************************)
(* The group implements one log.                                           *)
(***************************************************************************)
LEMMA LearnsPlays ==
  ASSUME AInv, mishaps = {}, mishaps' = {}, NEW n \in Nodes, OnlyMoves(n), Learns(n),
         acc' \in [Nodes -> Acceptors]
  PROVE  OneLog!Play(n)
<1> DEFINE i == acc[n].inst
           r == log'[n][i]
           pos == [k \in Nodes |-> acc[k].inst]
<1>1. PInv /\ Calm /\ DiskChosen /\ ExecutedChosen /\ ValuesOffered /\ votes \subseteq Voted
  BY MoveTypes DEF AInv, LogInv, Calm
<1>2. /\ i <= LastInstance /\ acc'[n].inst = i + 1
      /\ executed' = executed \cup {<<i, r.value>>}
      /\ r.ballot \in Ballots /\ Majority(Voters(votes, i, r.ballot, r.value))
  BY <1>1 DEF Learns
<1> HIDE DEF r
<1>3. r.value \in OneLog!Offered(i)
  <2>1. Voters(votes, i, r.ballot, r.value) \in SUBSET Nodes
    BY DEF Voters
  <2>2. PICK k \in Nodes : k \in Voters(votes, i, r.ballot, r.value)
    BY <1>2, <2>1, MajorityHasMember
  <2>3. PICK w \in votes : w = Vote4(k, i, r.ballot, r.value)
    BY <2>2 DEF Voters
  <2>4. w.inst = i /\ w.value = r.value
    BY <2>3 DEF Vote4
  <2>. QED  BY <1>1, <2>4, VoteOffered
<1>4. \A x \in executed : x[1] = i => x[2] = r.value
  <2> SUFFICES ASSUME NEW x \in executed, x[1] = i PROVE x[2] = r.value
    OBVIOUS
  <2>1. PICK b \in Ballots : Majority(Voters(votes, i, b, x[2]))
    BY <1>1 DEF ExecutedChosen
  <2>. QED  BY <1>1, <1>2, <2>1, OneChosen
<1>5. [k \in Nodes |-> acc'[k].inst] = [pos EXCEPT ![n] = i + 1]
  <2>1. \A k \in Nodes : acc'[k].inst = IF k = n THEN i + 1 ELSE acc[k].inst
    BY <1>2 DEF OnlyMoves
  <2>. QED  BY <2>1
<1>6. pos[n] = i
  OBVIOUS
<1>. QED  BY <1>2, <1>3, <1>4, <1>5, <1>6 DEF OneLog!Play

\* A node that does not learn stays, or restarts in the instance before.
LEMMA StaysOrRestarts ==
  ASSUME PInv, PBase', NEW n \in Nodes, OnlyMoves(n), Stays(n)
  PROVE  OneLog!Restart(n) \/ UNCHANGED OneLog!logVars
<1> DEFINE i == acc[n].inst
           pos == [k \in Nodes |-> acc[k].inst]
<1>1. i \in Nat /\ acc'[n].inst \in Nat /\ executed' = executed
  BY MoveTypes, NextTypes DEF Stays
<1>2. \A k \in Nodes : k # n => acc'[k].inst = acc[k].inst
  BY DEF OnlyMoves
<1>3. CASE acc'[n].inst = i
  <2>1. [k \in Nodes |-> acc'[k].inst] = [k \in Nodes |-> acc[k].inst]
    BY <1>2, <1>3
  <2>. QED  BY <1>1, <2>1 DEF OneLog!logVars
<1>4. CASE acc'[n].inst = i - 1
  <2>1. pos[n] = i /\ i > 0
    BY <1>1, <1>4
  <2>2. [k \in Nodes |-> acc'[k].inst] = [pos EXCEPT ![n] = i - 1]
    BY <1>2, <1>4
  <2>. QED  BY <1>1, <2>1, <2>2 DEF OneLog!Restart
<1>. QED  BY <1>3, <1>4 DEF Stays

\* As long as none of the three mishaps has happened, every step of acceptors,
\* proposers and learners plays the next entry of one common log on one node,
\* with a value that some node's clients offered for it, every restart takes a
\* node back by at most one entry, and nothing else changes what a state machine
\* sees: in a group of any size.
THEOREM GroupIsOneLog == Spec /\ [](mishaps = {}) => ImplementsLog
<1>1. Init => OneLog!Init
  BY DEF Init, OneLog!Init
<1>2. AInv /\ mishaps = {} /\ (mishaps = {})' /\ [Next]_vars => [OneLog!Next]_(OneLog!logVars)
  <2> SUFFICES ASSUME AInv, mishaps = {}, mishaps' = {}, [Next]_vars
               PROVE  OneLog!Next \/ UNCHANGED OneLog!logVars
    OBVIOUS
  <2>1. CASE UNCHANGED vars
    BY <2>1 DEF vars, OneLog!logVars
  <2>2. CASE Next
    <3>1. PInv /\ PBase' /\ Calm'
      BY PStep DEF AInv, PInv, Calm
    <3>2. PICK n \in Nodes : Moves(n)
      BY <2>2, <3>1, NextMoves
    <3>3. acc' \in [Nodes -> Acceptors]
      BY <3>1 DEF PBase, Core, TypesOK
    <3>4. OnlyMoves(n) /\ (Stays(n) \/ Learns(n))
      BY <3>2 DEF Moves
    <3>5. CASE Stays(n)
      BY <3>1, <3>4, <3>5, StaysOrRestarts DEF OneLog!Next
    <3>6. CASE Learns(n)
      BY <3>3, <3>4, <3>6, LearnsPlays DEF OneLog!Next
    <3>. QED  BY <3>4, <3>5, <3>6
  <2>. QED  BY <2>1, <2>2
<1>. QED  BY <1>1, <1>2, AInvariance, PTL DEF Spec, ImplementsLog, OneLog!Spec
==============================================================================
