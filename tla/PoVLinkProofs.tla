---------------------------- MODULE PoVLinkProofs -----------------------------
(***************************************************************************)
(* Proof, for any committee and any bounds, that accepted blocks link by   *)
(* hash down to the genesis block.  From height 2 on every node compares   *)
(* the hashes; the first link holds because every butler builds its block  *)
(* of height 1 on the one genesis block, and nobody else builds blocks.    *)
(*                                                                         *)
(* And what follows from the links: duty, posts, periods and times are     *)
(* functions of the chain, and nodes whose chains end in one block agree   *)
(* on them.                                                                *)
(***************************************************************************)
EXTENDS PoVQuorumProofs

(***************************************************************************)
(* The inductive invariant: wherever a raw block of height 1 is (in work,  *)
(* on its way or accepted), it names the genesis block.                    *)
(***************************************************************************)
OnGenesis(raw) == raw.height = 1 => raw.prev = HeaderHash(Genesis)

Rooted == \A n \in Nodes : chain[n][1] = Genesis

WorkOnGenesis == \A n \in Nodes : OnGenesis(cache[n])

SentOnGenesis == \A m \in msgs : m.type = "PublishBlock" => OnGenesis(m.body.raw)

LInv == Rooted /\ WorkOnGenesis /\ SentOnGenesis /\ HashLinked

LEMMA NothingOnGenesis == OnGenesis(NoBlock)
BY DEF OnGenesis, NoBlock

LEMMA LInit == Init => LInv
BY NothingOnGenesis DEF Init, LInv, Rooted, WorkOnGenesis, SentOnGenesis, HashLinked

------------------------------------------------------------------------------
(***************************************************************************)
(* The steps that append no block.                                         *)
(***************************************************************************)
LEMMA SameChain ==
  ASSUME LInv, UNCHANGED chain, WorkOnGenesis', SentOnGenesis' PROVE LInv'
BY DEF LInv, Rooted, HashLinked

LEMMA SentByPass ==
  ASSUME SentOnGenesis, NEW n \in Nodes, NEW wanted, NoBlocks(wanted), Pass(n, wanted)
  PROVE  SentOnGenesis'
<1>1. NoBlocks(VoteWants(n) \cup wanted)
  BY VoteWantsNoBlocks DEF NoBlocks
<1>2. \A m \in NewMsgs(n, LiveCalls(n), VoteWants(n) \cup wanted) : m.type # "PublishBlock"
  BY <1>1, SentNoBlocks
<1>3. msgs' = msgs \cup NewMsgs(n, LiveCalls(n), VoteWants(n) \cup wanted)
  BY DEF Pass
<1>. QED  BY <1>2, <1>3 DEF SentOnGenesis

LEMMA SentByReply ==
  ASSUME SentOnGenesis, NEW m, NEW body, Reply(m, body) PROVE SentOnGenesis'
BY DEF Reply, Answer, SentOnGenesis

LEMMA SentFewer ==
  ASSUME SentOnGenesis, NEW m, msgs' = msgs \ {m} PROVE SentOnGenesis'
BY DEF SentOnGenesis

\* A node that drops its raw block, or takes up one on the genesis block.
LEMMA NewWork ==
  ASSUME QInv, LInv, NEW n \in Nodes, NEW raw, OnGenesis(raw),
         cache' = [cache EXCEPT ![n] = raw]
  PROVE  WorkOnGenesis'
<1>1. PICK T : cache \in [Nodes -> T]
  BY DEF QInv, Shape
<1>. QED  BY <1>1 DEF LInv, WorkOnGenesis

\* The first block a butler builds names the only block on its chain.
LEMMA GeneratedOnGenesis ==
  ASSUME QInv, LInv, NEW n \in Nodes PROVE OnGenesis(GeneratedBlock(n))
<1>1. /\ GeneratedBlock(n).height = Len(chain[n]) - 1 + 1
      /\ GeneratedBlock(n).prev = HeaderHash(chain[n][Len(chain[n])])
  BY DEF GeneratedBlock, Height
<1>2. Len(chain[n]) \in Nat
  BY DEF QInv, Shape
<1>3. CASE Len(chain[n]) = 1
  BY <1>1, <1>3 DEF OnGenesis, LInv, Rooted
<1>4. CASE Len(chain[n]) # 1
  <2>1. GeneratedBlock(n).height # 1
    BY <1>1, <1>2, <1>4
  <2>. QED  BY <2>1 DEF OnGenesis
<1>. QED  BY <1>3, <1>4

LEMMA RunLinks == ASSUME QInv, LInv, NEW n \in Nodes, Run(n) PROVE LInv'
<1>1. NoBlocks({})
  BY DEF NoBlocks
<1>2. CASE RunIdle(n)
  <2>1. SentOnGenesis'
    BY <1>1, <1>2, SentByPass DEF RunIdle, LInv
  <2>2. UNCHANGED <<chain, cache>>
    BY <1>2 DEF RunIdle, chainVars, roundVars
  <2>. QED  BY <2>1, <2>2, SameChain DEF LInv, WorkOnGenesis
<1>3. CASE RunOffDuty(n) \/ RunFinish(n)
  <2>1. SentOnGenesis'
    BY <1>1, <1>3, SentByPass DEF RunOffDuty, RunFinish, LInv
  <2>2. UNCHANGED chain /\ cache' = [cache EXCEPT ![n] = NoBlock]
    BY <1>3 DEF RunOffDuty, RunFinish, chainVars
  <2>. QED  BY <2>1, <2>2, SameChain, NewWork, NothingOnGenesis
<1>4. CASE RunSign(n)
  <2> DEFINE raw == IF cache[n] = NoBlock THEN GeneratedBlock(n) ELSE cache[n]
  <2>1. /\ cache' = [cache EXCEPT ![n] = raw]
        /\ Pass(n, SignWants(n, raw))
        /\ UNCHANGED chain
    BY <1>4 DEF RunSign, chainVars
  <2>2. OnGenesis(raw)
    BY GeneratedOnGenesis DEF LInv, WorkOnGenesis
  <2> HIDE DEF raw
  <2>3. SentOnGenesis'
    BY <2>1, SentByPass, SignWantsNoBlocks DEF LInv
  <2>. QED  BY <2>1, <2>2, <2>3, SameChain, NewWork
<1>5. CASE RunPublish(n)
  <2> DEFINE b == Seal(cache[n], sigs[n])
  <2>1. UNCHANGED <<chain, cache>>
    BY <1>5 DEF RunPublish, chainVars
  <2>2. msgs' = msgs \cup NewMsgs(n, LiveCalls(n), VoteWants(n)) \cup Publications(n, b)
    BY <1>5 DEF RunPublish
  <2>3. OnGenesis(b.raw)
    BY DEF Seal, LInv, WorkOnGenesis
  <2> HIDE DEF b
  <2>4. \A m \in Publications(n, b) : m.body = b
    BY DEF Publications
  <2>5. \A m \in NewMsgs(n, LiveCalls(n), VoteWants(n)) : m.type # "PublishBlock"
    BY VoteWantsNoBlocks, SentNoBlocks
  <2>6. SentOnGenesis'
    BY <2>2, <2>3, <2>4, <2>5 DEF LInv, SentOnGenesis
  <2>. QED  BY <2>1, <2>6, SameChain DEF LInv, WorkOnGenesis
<1>. QED  BY <1>2, <1>3, <1>4, <1>5 DEF Run

LEMMA RequestLinks ==
  ASSUME LInv, NEW n \in Nodes, \/ OnNodeIDRequest(n) \/ OnGroupKeyRequest(n)
         \/ OnVote(n) \/ OnSignatureRequest(n)
  PROVE  LInv'
<1>1. SentOnGenesis'
  BY SentByReply DEF OnNodeIDRequest, OnGroupKeyRequest, OnVote, OnSignatureRequest, LInv
<1>2. UNCHANGED <<chain, cache>>
  BY DEF OnNodeIDRequest, OnGroupKeyRequest, OnVote, OnSignatureRequest, chainVars, roundVars
<1>. QED  BY <1>1, <1>2, SameChain DEF LInv, WorkOnGenesis

LEMMA ResponseLinks == ASSUME LInv, NEW n \in Nodes, HandleResponse(n) PROVE LInv'
<1>1. SentOnGenesis'
  BY SentFewer
  DEF HandleResponse, OnNodeID, OnGroupKey, OnVoteResponse, OnSignature, TakeCall, LInv
<1>2. UNCHANGED <<chain, cache>>
  BY DEF HandleResponse, OnNodeID, OnGroupKey, OnVoteResponse, OnSignature, chainVars, roundVars
<1>. QED  BY <1>1, <1>2, SameChain DEF LInv, WorkOnGenesis

------------------------------------------------------------------------------
\* An accepted block has the next height and names the block below it: by
\* the comparison above the genesis block, by the invariant on top of it.
LEMMA AcceptedLinks ==
  ASSUME QInv, LInv, NEW n \in Nodes, NEW raw, ValidRaw(chain[n], raw), OnGenesis(raw)
  PROVE  /\ raw.height = Len(chain[n])
         /\ raw.prev = HeaderHash(chain[n][Len(chain[n])])
<1>1. Len(chain[n]) \in Nat /\ Len(chain[n]) > 0
  BY DEF QInv, Shape
<1>2. raw.height = Len(chain[n])
  BY <1>1 DEF ValidRaw, Height
<1>3. CASE Len(chain[n]) = 1
  BY <1>2, <1>3 DEF OnGenesis, LInv, Rooted
<1>4. CASE Len(chain[n]) > 1
  <2>1. Len(chain[n]) - 1 > 0
    BY <1>1, <1>4
  <2>2. raw.prev = HeaderHash(chain[n][Len(chain[n])])
    BY <2>1 DEF ValidRaw, Height
  <2>. QED  BY <2>2, <1>2
<1>5. Len(chain[n]) = 1 \/ Len(chain[n]) > 1
  <2>1. \A k \in Nat : k > 0 => k = 1 \/ k > 1
    OBVIOUS
  <2>. QED  BY <2>1, <1>1
<1>. QED  BY <1>3, <1>4, <1>5

LEMMA AppendLinks == ASSUME QInv, LInv, NEW n \in Nodes, OnPublishBlock(n) PROVE LInv'
<1>1. PICK m \in Receive(n, "PublishBlock") :
         /\ ValidBlock(chain[n], m.body)
         /\ msgs' = msgs \ {m}
         /\ UpdateVariables(n, m.body)
         /\ chain' = [chain EXCEPT ![n] = Append(@, m.body)]
  BY DEF OnPublishBlock
<1> DEFINE b == m.body
<1>2. /\ b.raw.height = Len(chain[n])
      /\ b.raw.prev = HeaderHash(chain[n][Len(chain[n])])
  <2>1. OnGenesis(b.raw)
    BY <1>1 DEF Receive, LInv, SentOnGenesis
  <2>2. ValidRaw(chain[n], b.raw)
    BY <1>1 DEF ValidBlock
  <2>. QED  BY <2>1, <2>2, AcceptedLinks
<1> HIDE DEF b
<1>3. SentOnGenesis'
  BY <1>1, SentFewer DEF LInv
<1>4. WorkOnGenesis'
  BY <1>1, NewWork, NothingOnGenesis DEF UpdateVariables, ResetRound
<1>5. PICK S : chain \in [Nodes -> Seq(S)]
  BY DEF QInv, Shape
<1> DEFINE U == S \cup {b}
<1>6. /\ Len(chain[n]) \in Nat
      /\ Len(chain[n]) > 0
      /\ Len(Append(chain[n], b)) = Len(chain[n]) + 1
      /\ \A i \in 1 .. Len(chain[n]) : Append(chain[n], b)[i] = chain[n][i]
      /\ Append(chain[n], b)[Len(chain[n]) + 1] = b
  <2>1. chain[n] \in Seq(U) /\ b \in U
    BY <1>5
  <2>. QED  BY <2>1 DEF QInv, Shape
<1>7. /\ chain'[n] = Append(chain[n], b)
      /\ \A k \in Nodes \ {n} : chain'[k] = chain[k]
  BY <1>1, <1>5 DEF b
<1>8. Rooted'
  BY <1>6, <1>7 DEF LInv, Rooted
<1>9. HashLinked'
  <2> SUFFICES ASSUME NEW k \in Nodes, NEW i \in 2 .. Len(chain'[k])
               PROVE  /\ chain'[k][i].raw.height = i - 1
                      /\ chain'[k][i].raw.prev = HeaderHash(chain'[k][i - 1])
    BY DEF HashLinked
  <2>1. CASE k # n
    BY <2>1, <1>7 DEF LInv, HashLinked
  <2>2. CASE k = n /\ i \in 2 .. Len(chain[n])
    <3>1. chain'[k][i] = chain[n][i] /\ chain'[k][i - 1] = chain[n][i - 1]
      BY <2>2, <1>6, <1>7
    <3>. QED  BY <3>1, <2>2 DEF LInv, HashLinked
  <2>3. CASE k = n /\ i = Len(chain[n]) + 1
    <3>1. chain'[k][i] = b /\ chain'[k][i - 1] = chain[n][Len(chain[n])]
      BY <2>3, <1>6, <1>7
    <3>2. i - 1 = Len(chain[n])
      BY <2>3, <1>6
    <3>. QED  BY <3>1, <3>2, <1>2
  <2>4. k # n \/ i \in 2 .. Len(chain[n]) \/ i = Len(chain[n]) + 1
    BY <1>6, <1>7
  <2>. QED  BY <2>1, <2>2, <2>3, <2>4
<1>. QED  BY <1>3, <1>4, <1>8, <1>9 DEF LInv

------------------------------------------------------------------------------
LEMMA LNext == QInv /\ LInv /\ [Next]_vars => LInv'
<1> SUFFICES ASSUME QInv, LInv, [Next]_vars PROVE LInv'
  OBVIOUS
<1>1. CASE Tick \/ UNCHANGED vars
  <2>1. UNCHANGED <<msgs, chain, cache>>
    BY <1>1 DEF Tick, vars, clusterVars, chainVars, roundVars
  <2>. QED  BY <2>1, SameChain DEF LInv, WorkOnGenesis, SentOnGenesis
<1>2. ASSUME NEW n \in Nodes, Run(n) PROVE LInv'
  BY <1>2, RunLinks
<1>3. ASSUME NEW n \in Nodes, HandleRequest(n) PROVE LInv'
  BY <1>3, RequestLinks, AppendLinks DEF HandleRequest
<1>4. ASSUME NEW n \in Nodes, HandleResponse(n) PROVE LInv'
  BY <1>4, ResponseLinks
<1>. QED  BY <1>1, <1>2, <1>3, <1>4 DEF Next

\* Every accepted block has the height of its place and names, as previous
\* hash, the block below it, down to and including the genesis block.
THEOREM Linked == Spec => []HashLinked
<1>1. Init => LInv
  BY LInit
<1>2. QInv /\ LInv /\ [Next]_vars => LInv'
  BY LNext
<1>3. LInv => HashLinked
  BY DEF LInv
<1>. QED  BY <1>1, <1>2, <1>3, QInvariant, PTL DEF Spec

------------------------------------------------------------------------------
(***************************************************************************)
(* What follows from the chain.  HInv says that duty, posts and times of a *)
(* node are those of its chain, and of every raw block that may yet be     *)
(* accepted that the butler that built it was on duty on the very chain    *)
(* below it, and that nobody signed it before that chain was published.    *)
(***************************************************************************)
IsLastVote(ch, i) ==
  /\ i \in DOMAIN ch /\ ch[i].raw.kind = "vote"
  /\ \A j \in i + 1 .. Len(ch) : ch[j].raw.kind # "vote"

PostsSince(ch, i) ==
  LET won == IF i = 1 THEN GenesisVote ELSE Election(ch[i])
  IN  [j \in 0 .. ButlerAmount - 1 |-> IF j < VoteAmount THEN won[j + 1] ELSE NoKey]

DutyDerived ==
  \A n \in Nodes :
    /\ startTime[n] = chain[n][Len(chain[n])].te
    /\ initDuty[n] = chain[n][Len(chain[n])].next
    /\ \E i \in DOMAIN chain[n] : /\ IsLastVote(chain[n], i)
                                  /\ butlerNum[n] = PostsSince(chain[n], i)

\* Nothing in the code sets the period counter before the genesis block.
Fresh == \A n \in Nodes : StartPeriod[n] % NumBlocks = 0

PeriodDerived == Fresh => \A n \in Nodes : period[n] = Len(chain[n]) % NumBlocks

BuiltOnDuty(raw) ==
  /\ raw.generator \in Nodes
  /\ raw.height \in 1 .. Len(chain[raw.generator])
  /\ raw.prev = HeaderHash(chain[raw.generator][raw.height])
  /\ raw.generator = DutyOf(SubSeq(chain[raw.generator], 1, raw.height), raw.cycles)

BuiltInPeriod(raw) ==
  /\ raw.kind = "vote" <=> raw.height % NumBlocks = 0
  /\ raw.kind = "vote" => 2 * Cardinality(raw.ballots) >= Cardinality(Commissioners)

RawOK(raw) == BuiltOnDuty(raw) /\ (Fresh => BuiltInPeriod(raw))

\* The fifth part of a hash is the time of the block.
TeBelow(raw) == raw.prev[5]

SignedInTime(s) ==
  /\ s.ts \in Nat /\ s.ts <= now
  /\ s.over.height > 1 => TeBelow(s.over) <= s.ts

Sealed(b) == b = Seal(b.raw, b.sigs)

PublishedOK(b) ==
  /\ Sealed(b) /\ RawOK(b.raw)
  /\ \A i \in DOMAIN b.sigs : SignedInTime(b.sigs[i])

WorkOK ==
  \A n \in Nodes : /\ cache[n] = NoBlock \/ RawOK(cache[n])
                   /\ \A i \in DOMAIN sigs[n] : SignedInTime(sigs[n][i])

SentOK ==
  \A m \in msgs :
    /\ m.type = "PublishBlock" => PublishedOK(m.body)
    /\ m.type = "Response" /\ m.re = "Signature" => SignedInTime(m.body)

InSeconds(t) == t \in Nat /\ t % Sec = 0

AcceptedOK ==
  \A n \in Nodes :
    /\ \A i \in 2 .. Len(chain[n]) :
         /\ Sealed(chain[n][i])
         /\ chain[n][i].raw.generator =
              DutyOf(SubSeq(chain[n], 1, i - 1), chain[n][i].raw.cycles)
         /\ Fresh => BuiltInPeriod(chain[n][i].raw)
         /\ chain[n][i - 1].te <= chain[n][i].te
    /\ InSeconds(chain[n][Len(chain[n])].te)
    /\ chain[n][Len(chain[n])].te <= now

HInv == DutyDerived /\ PeriodDerived /\ WorkOK /\ SentOK /\ AcceptedOK

------------------------------------------------------------------------------
(***************************************************************************)
(* Numbers, and chains that end in the same block.                         *)
(***************************************************************************)
LEMMA RemainderIs ==
  ASSUME NEW N \in Nat \ {0}, NEW x \in Nat, NEW q \in Nat, NEW r \in 0 .. N - 1,
         x = N * q + r
  PROVE  x % N = r
<1> DEFINE p == x \div N
           s == x % N
<1>1. p \in Nat /\ s \in 0 .. N - 1 /\ x = N * p + s
  OBVIOUS
<1> HIDE DEF p, s
<1>2. CASE p = q
  BY <1>1, <1>2 DEF s
<1>3. CASE p >= q + 1
  <2>1. N * p >= N * (q + 1)
    BY <1>1, <1>3
  <2>2. N * (q + 1) = N * q + N
    OBVIOUS
  <2>3. N * p \in Nat /\ N * q \in Nat
    BY <1>1
  <2>. QED  BY <1>1, <2>1, <2>2, <2>3
<1>4. CASE q >= p + 1
  <2>1. N * q >= N * (p + 1)
    BY <1>1, <1>4
  <2>2. N * (p + 1) = N * p + N
    BY <1>1
  <2>3. N * p \in Nat /\ N * q \in Nat
    BY <1>1
  <2>. QED  BY <1>1, <2>1, <2>2, <2>3
<1>. QED  BY <1>1, <1>2, <1>3, <1>4

\* Counting modulo NumBlocks.
LEMMA NextRemainder ==
  ASSUME NEW N \in Nat \ {0}, NEW x \in Nat PROVE ((x % N) + 1) % N = (x + 1) % N
<1> DEFINE q == x \div N
           r == x % N
<1>1. q \in Nat /\ r \in 0 .. N - 1 /\ x = N * q + r
  OBVIOUS
<1> HIDE DEF q, r
<1>2. CASE r + 1 <= N - 1
  <2>1. r + 1 \in 0 .. N - 1 /\ x + 1 = N * q + (r + 1) /\ r + 1 = N * 0 + (r + 1)
    BY <1>1, <1>2
  <2>2. (x + 1) % N = r + 1 /\ (r + 1) % N = r + 1
    BY <2>1, <1>1, RemainderIs
  <2>. QED  BY <2>2 DEF r
<1>3. CASE r + 1 = N
  <2>1. x + 1 = N * (q + 1) + 0 /\ r + 1 = N * 1 + 0 /\ 0 \in 0 .. N - 1
    BY <1>1, <1>3
  <2>2. x + 1 \in Nat /\ q + 1 \in Nat /\ r + 1 \in Nat
    BY <1>1
  <2>3. (x + 1) % N = 0 /\ (r + 1) % N = 0
    BY <2>1, <2>2, RemainderIs
  <2>. QED  BY <2>3 DEF r
<1>. QED  BY <1>1, <1>2, <1>3

LEMMA WholeMultiple ==
  ASSUME NEW N \in Nat \ {0}, NEW x \in Nat, x % N = 0 PROVE \E k \in Nat : x = k * N
<1> DEFINE k == x \div N
           r == x % N
<1>1. k \in Nat /\ r \in 0 .. N - 1 /\ x = N * k + r
  OBVIOUS
<1>2. r = 0
  OBVIOUS
<1> HIDE DEF k, r
<1>3. x = k * N
  BY <1>1, <1>2
<1>. QED  BY <1>1, <1>3

LEMMA LeastNumber ==
  ASSUME NEW S \in SUBSET Nat, S # {} PROVE \E x \in S : \A y \in S : x <= y
<1> DEFINE Below(x) == 0 .. x
           R == StrictSubsetOrdering(Nat)
           T == {Below(x) : x \in S}
<1>1. T \subseteq FiniteSubsetsOf(Nat) /\ T # {}
  <2>1. ASSUME NEW x \in S PROVE IsFiniteSet(Below(x)) /\ Below(x) \subseteq Nat
    BY FS_Interval
  <2> HIDE DEF Below
  <2>. QED  BY <2>1 DEF FiniteSubsetsOf
<1>2. PICK t \in T : \A u \in T : <<u, t>> \notin R
  <2> HIDE DEF T, R
  <2>. QED  BY <1>1, FS_StrictSubsetOrderingWellFounded, WFMin DEF R
<1>3. PICK x \in S : t = Below(x)
  OBVIOUS
<1>4. ASSUME NEW y \in S, y < x PROVE FALSE
  <2>1. Below(y) \subseteq Below(x) /\ x \in Below(x) /\ x \notin Below(y) /\ Below(x) \subseteq Nat
    BY <1>4
  <2> HIDE DEF Below
  <2>2. <<Below(y), Below(x)>> \in R
    BY <2>1 DEF StrictSubsetOrdering
  <2>. QED  BY <1>2, <1>3, <2>2
<1>. QED  BY <1>4

\* A chain is a sequence.
LEMMA ChainIsSeq ==
  ASSUME QInv
  PROVE  \E S : /\ chain \in [Nodes -> Seq(S)]
                /\ \A n \in Nodes : Len(chain[n]) \in Nat /\ Len(chain[n]) > 0
<1>1. PICK S : chain \in [Nodes -> Seq(S)]
  BY DEF QInv, Shape
<1>2. ASSUME NEW n \in Nodes PROVE Len(chain[n]) \in Nat /\ Len(chain[n]) > 0
  <2>1. chain[n] \in Seq(S)
    BY <1>1
  <2>2. Len(chain[n]) > 0
    BY DEF QInv, Shape
  <2>. QED  BY <2>1, <2>2
<1>. QED  BY <1>1, <1>2

\* What a block appended changes, and what it does not.
LEMMA Appended ==
  ASSUME NEW S, NEW s \in Seq(S), NEW b
  PROVE  /\ Len(Append(s, b)) = Len(s) + 1
         /\ DOMAIN s = 1 .. Len(s) /\ DOMAIN Append(s, b) = 1 .. Len(s) + 1
         /\ \A i \in 1 .. Len(s) : Append(s, b)[i] = s[i]
         /\ Append(s, b)[Len(s) + 1] = b
         /\ \A h \in 1 .. Len(s) : SubSeq(Append(s, b), 1, h) = SubSeq(s, 1, h)
         /\ SubSeq(s, 1, Len(s)) = s
<1> DEFINE U == S \cup {b}
<1>1. s \in Seq(U) /\ b \in U /\ Len(s) \in Nat
  OBVIOUS
<1> HIDE DEF U
<1>2. /\ Len(Append(s, b)) = Len(s) + 1
      /\ DOMAIN s = 1 .. Len(s) /\ DOMAIN Append(s, b) = 1 .. Len(s) + 1
      /\ \A i \in 1 .. Len(s) : Append(s, b)[i] = s[i]
      /\ Append(s, b)[Len(s) + 1] = b
      /\ Append(s, b) \in Seq(U)
  BY <1>1
<1> DEFINE a == Append(s, b)
<1> HIDE DEF a
<1>3. ASSUME NEW h \in 1 .. Len(s) PROVE SubSeq(a, 1, h) = SubSeq(s, 1, h)
  <2>1. h \in Nat /\ h >= 1 /\ h <= Len(s)
    BY <1>1
  <2>2. \A i \in 1 .. h : a[i] = s[i] /\ s[i] \in U /\ a[i] \in U
    BY <1>1, <1>2, <2>1 DEF a
  <2>3. /\ SubSeq(a, 1, h) \in Seq(U) /\ SubSeq(s, 1, h) \in Seq(U)
        /\ Len(SubSeq(a, 1, h)) = h /\ Len(SubSeq(s, 1, h)) = h
        /\ \A i \in 1 .. h : SubSeq(a, 1, h)[i] = a[i] /\ SubSeq(s, 1, h)[i] = s[i]
    BY <2>1, <2>2
  <2>. QED  BY <2>1, <2>2, <2>3
<1>4. SubSeq(s, 1, Len(s)) = s
  BY <1>1
<1>. QED  BY <1>2, <1>3, <1>4 DEF a

\* Two chains that hold blocks of the same hash at a height are the same up
\* to that height: the first difference, seen from there, is impossible.
LEMMA SamePast ==
  ASSUME QInv, LInv, \A n \in Nodes : \A i \in 2 .. Len(chain[n]) : Sealed(chain[n][i]),
         NEW m \in Nodes, NEW n \in Nodes, NEW h \in 1 .. Len(chain[n]), h <= Len(chain[m]),
         HeaderHash(chain[m][h]) = HeaderHash(chain[n][h])
  PROVE  SubSeq(chain[m], 1, h) = SubSeq(chain[n], 1, h)
<1>1. PICK S : /\ chain \in [Nodes -> Seq(S)]
               /\ \A k \in Nodes : Len(chain[k]) \in Nat /\ Len(chain[k]) > 0
  BY ChainIsSeq
<1> DEFINE a == chain[m]
           c == chain[n]
<1>2. /\ a \in Seq(S) /\ c \in Seq(S)
      /\ Len(a) \in Nat /\ Len(c) \in Nat /\ h \in Nat /\ h >= 1 /\ h <= Len(a) /\ h <= Len(c)
      /\ a[1] = c[1]
      /\ \A i \in 2 .. h : /\ Sealed(a[i]) /\ Sealed(c[i])
                           /\ a[i].raw.prev = HeaderHash(a[i - 1])
                           /\ c[i].raw.prev = HeaderHash(c[i - 1])
  <2>1. /\ a \in Seq(S) /\ c \in Seq(S) /\ Len(a) \in Nat /\ Len(c) \in Nat
        /\ h \in Nat /\ h >= 1 /\ h <= Len(a) /\ h <= Len(c)
    BY <1>1
  <2>2. a[1] = c[1]
    BY DEF LInv, Rooted
  <2>3. ASSUME NEW i \in 2 .. h PROVE i \in 2 .. Len(a) /\ i \in 2 .. Len(c)
    <3> HIDE DEF a, c
    <3>. QED  BY <2>1
  <2>4. ASSUME NEW i \in 2 .. h PROVE Sealed(a[i]) /\ Sealed(c[i])
    BY <2>3
  <2>5. ASSUME NEW i \in 2 .. h
        PROVE  a[i].raw.prev = HeaderHash(a[i - 1]) /\ c[i].raw.prev = HeaderHash(c[i - 1])
    BY <2>3 DEF LInv, HashLinked
  <2> HIDE DEF a, c
  <2>. QED  BY <2>1, <2>2, <2>4, <2>5
<1>3. HeaderHash(a[h]) = HeaderHash(c[h])
  OBVIOUS
<1> HIDE DEF a, c
<1>4. ASSUME NEW i \in 1 .. h, HeaderHash(a[i]) = HeaderHash(c[i]) PROVE a[i] = c[i]
  <2>1. CASE i = 1
    BY <2>1, <1>2
  <2>2. CASE i \in 2 .. h
    <3>1. a[i].raw = c[i].raw /\ a[i].sigs = c[i].sigs
      BY <1>4 DEF HeaderHash
    <3>. QED  BY <3>1, <2>2, <1>2 DEF Sealed
  <2>. QED  BY <2>1, <2>2, <1>2
<1> DEFINE T == {d \in 0 .. h - 1 : a[h - d] # c[h - d]}
<1>5. T = {}
  <2> SUFFICES ASSUME T # {} PROVE FALSE
    OBVIOUS
  <2>1. T \in SUBSET Nat
    OBVIOUS
  <2>2. PICK d \in T : \A e \in T : d <= e
    <3> HIDE DEF T
    <3>. QED  BY <2>1, LeastNumber
  <2>3. d \in 0 .. h - 1 /\ a[h - d] # c[h - d]
    OBVIOUS
  <2>4. CASE d = 0
    BY <2>3, <2>4, <1>2, <1>3, <1>4
  <2>5. CASE d > 0
    <3>1. d - 1 \notin T /\ d - 1 \in 0 .. h - 1
      <4> HIDE DEF T
      <4>. QED  BY <2>2, <2>3, <2>5, <1>2
    <3>2. a[h - (d - 1)] = c[h - (d - 1)]
      BY <3>1
    <3>3. h - (d - 1) \in 2 .. h /\ h - (d - 1) - 1 = h - d /\ h - d \in 1 .. h
      BY <2>3, <2>5, <1>2
    <3>4. HeaderHash(a[h - d]) = HeaderHash(c[h - d])
      BY <3>2, <3>3, <1>2
    <3>. QED  BY <3>3, <3>4, <2>3, <1>4
  <2>. QED  BY <2>3, <2>4, <2>5, <1>2
<1>6. ASSUME NEW i \in 1 .. h PROVE a[i] = c[i]
  <2>1. h - i \in 0 .. h - 1 /\ h - (h - i) = i
    BY <1>2
  <2>. QED  BY <1>5, <2>1
<1>7. /\ SubSeq(a, 1, h) \in Seq(S) /\ SubSeq(c, 1, h) \in Seq(S)
      /\ Len(SubSeq(a, 1, h)) = h /\ Len(SubSeq(c, 1, h)) = h
      /\ \A i \in 1 .. h : SubSeq(a, 1, h)[i] = a[i] /\ SubSeq(c, 1, h)[i] = c[i]
  BY <1>2
<1>8. SubSeq(a, 1, h) = SubSeq(c, 1, h)
  BY <1>2, <1>6, <1>7
<1>. QED  BY <1>8 DEF a, c

------------------------------------------------------------------------------
(***************************************************************************)
(* The posts.                                                              *)
(***************************************************************************)
LEMMA LastVoteIs ==
  ASSUME NEW S, NEW ch \in Seq(S), NEW i \in DOMAIN ch, IsLastVote(ch, i)
  PROVE  PostsOf(ch) = PostsSince(ch, i)
<1>1. Len(ch) \in Nat /\ DOMAIN ch = 1 .. Len(ch)
  OBVIOUS
<1>2. ASSUME NEW k \in DOMAIN ch, IsLastVote(ch, k) PROVE k = i
  <2>1. ~ (i < k) /\ ~ (k < i)
    BY <1>1, <1>2 DEF IsLastVote
  <2>. QED  BY <1>1, <2>1
<1>3. LastVote(ch) = i
  <2>1. LastVote(ch) = CHOOSE k \in DOMAIN ch : IsLastVote(ch, k)
    BY DEF LastVote, IsLastVote
  <2>. QED  BY <1>2, <2>1
<1>. QED  BY <1>3 DEF PostsOf, PostsSince

\* A vote block takes the posts, another block leaves them as they are.
PostsAfter(b, posts) ==
  IF b.raw.kind = "vote"
  THEN [j \in 0 .. ButlerAmount - 1 |-> IF j < VoteAmount THEN Election(b)[j + 1] ELSE posts[j]]
  ELSE posts

LEMMA PostsAdopted ==
  ASSUME NEW S, NEW ch \in Seq(S), Len(ch) > 0, NEW b, NEW i \in DOMAIN ch, IsLastVote(ch, i),
         NEW posts, posts = PostsSince(ch, i)
  PROVE  \E k \in DOMAIN Append(ch, b) :
           /\ IsLastVote(Append(ch, b), k)
           /\ PostsSince(Append(ch, b), k) = PostsAfter(b, posts)
<1> DEFINE new == Append(ch, b)
<1>1. /\ Len(new) = Len(ch) + 1 /\ Len(ch) \in Nat
      /\ DOMAIN ch = 1 .. Len(ch) /\ DOMAIN new = 1 .. Len(ch) + 1
      /\ \A j \in 1 .. Len(ch) : new[j] = ch[j]
      /\ new[Len(ch) + 1] = b
  BY Appended
<1> HIDE DEF new
<1>2. CASE b.raw.kind = "vote"
  <2> DEFINE k == Len(ch) + 1
  <2>1. k \in DOMAIN new /\ k # 1 /\ new[k] = b
    BY <1>1
  <2>2. IsLastVote(new, k)
    BY <1>1, <1>2, <2>1 DEF IsLastVote
  <2>3. PostsSince(new, k) = [j \in 0 .. ButlerAmount - 1 |->
                                IF j < VoteAmount THEN Election(b)[j + 1] ELSE NoKey]
    BY <2>1 DEF PostsSince
  <2>4. \A j \in 0 .. ButlerAmount - 1 : ~ (j < VoteAmount) => posts[j] = NoKey
    BY DEF PostsSince
  <2> HIDE DEF k
  <2>5. PostsSince(new, k) = [j \in 0 .. ButlerAmount - 1 |->
                                IF j < VoteAmount THEN Election(b)[j + 1] ELSE posts[j]]
    BY <2>3, <2>4
  <2>. QED  BY <1>2, <2>1, <2>2, <2>5 DEF new, PostsAfter
<1>3. CASE b.raw.kind # "vote"
  <2>1. i \in DOMAIN new /\ new[i] = ch[i]
    BY <1>1
  <2>2. IsLastVote(new, i)
    <3> SUFFICES ASSUME NEW j \in i + 1 .. Len(ch) + 1 PROVE new[j].raw.kind # "vote"
      BY <1>1, <2>1 DEF IsLastVote
    <3>1. j \in i + 1 .. Len(ch) \/ j = Len(ch) + 1
      BY <1>1
    <3>. QED  BY <3>1, <1>1, <1>3 DEF IsLastVote
  <2>3. PostsSince(new, i) = posts
    BY <2>1 DEF PostsSince
  <2>. QED  BY <1>3, <2>1, <2>2, <2>3 DEF new, PostsAfter
<1>. QED  BY <1>2, <1>3

------------------------------------------------------------------------------
(***************************************************************************)
(* What stays true while chains grow and time passes.                      *)
(***************************************************************************)
Later ==
  /\ now \in Nat /\ now' \in Nat /\ now <= now'
  /\ \A k \in Nodes :
       /\ Len(chain[k]) \in Nat /\ Len(chain'[k]) \in Nat
       /\ Len(chain[k]) <= Len(chain'[k])
       /\ \A h \in 1 .. Len(chain[k]) :
            /\ chain'[k][h] = chain[k][h]
            /\ SubSeq(chain'[k], 1, h) = SubSeq(chain[k], 1, h)

LEMMA SameIsLater ==
  ASSUME QInv, TInv, UNCHANGED chain, now' \in Nat, now <= now' PROVE Later
<1>1. \A k \in Nodes : Len(chain[k]) \in Nat
  BY ChainIsSeq
<1>. QED  BY <1>1 DEF Later, TInv

LEMMA RawStays == ASSUME Later PROVE \A raw : RawOK(raw) => RawOK(raw)'
<1> SUFFICES ASSUME NEW raw, BuiltOnDuty(raw) PROVE BuiltOnDuty(raw)'
  BY DEF RawOK, BuiltInPeriod, Fresh
<1> DEFINE g == raw.generator
           h == raw.height
<1>1. g \in Nodes /\ h \in 1 .. Len(chain[g])
  BY DEF BuiltOnDuty
<1>2. h \in 1 .. Len(chain'[g]) /\ chain'[g][h] = chain[g][h]
      /\ SubSeq(chain'[g], 1, h) = SubSeq(chain[g], 1, h)
  BY <1>1 DEF Later
<1>. QED  BY <1>1, <1>2 DEF BuiltOnDuty

LEMMA SignedStays == ASSUME Later PROVE \A s : SignedInTime(s) => SignedInTime(s)'
BY DEF Later, SignedInTime

LEMMA PublishedStays == ASSUME Later PROVE \A b : PublishedOK(b) => PublishedOK(b)'
BY RawStays, SignedStays DEF PublishedOK

GoodMessage(m) ==
  /\ m.type = "PublishBlock" => PublishedOK(m.body)
  /\ m.type = "Response" /\ m.re = "Signature" => SignedInTime(m.body)

LEMMA SentAfter ==
  ASSUME SentOK, Later, \A m \in msgs' : m \in msgs \/ GoodMessage(m) PROVE SentOK'
<1> SUFFICES ASSUME NEW m \in msgs'
             PROVE  /\ m.type = "PublishBlock" => PublishedOK(m.body)'
                    /\ m.type = "Response" /\ m.re = "Signature" => SignedInTime(m.body)'
  BY DEF SentOK
<1>1. GoodMessage(m)
  BY DEF SentOK, GoodMessage
<1>. QED  BY <1>1, PublishedStays, SignedStays DEF GoodMessage

LEMMA WorkAfter ==
  ASSUME QInv, WorkOK, Later, NEW n \in Nodes, NEW c, c = NoBlock \/ RawOK(c),
         NEW s, \A i \in DOMAIN s : SignedInTime(s[i]),
         UNCHANGED cache \/ cache' = [cache EXCEPT ![n] = c],
         UNCHANGED sigs \/ sigs' = [sigs EXCEPT ![n] = s]
  PROVE  WorkOK'
<1>1. PICK T : cache \in [Nodes -> T]
  BY DEF QInv, Shape
<1>2. PICK S : sigs \in [Nodes -> Seq(S)]
  BY DEF QInv, Shape
<1>3. ASSUME NEW k \in Nodes PROVE cache'[k] = NoBlock \/ RawOK(cache'[k])
  BY <1>1 DEF WorkOK
<1>4. ASSUME NEW k \in Nodes, NEW i \in DOMAIN sigs'[k] PROVE SignedInTime(sigs'[k][i])
  <2>1. CASE sigs'[k] = sigs[k]
    BY <2>1, <1>4 DEF WorkOK
  <2>2. CASE sigs'[k] = s
    BY <2>2, <1>4
  <2>. QED  BY <1>2, <2>1, <2>2
<1>5. WorkOK'
  <2>1. ASSUME NEW k \in Nodes, NEW raw, raw = cache'[k] PROVE raw = NoBlock \/ RawOK(raw)'
    BY <2>1, <1>3, RawStays
  <2>2. ASSUME NEW k \in Nodes, NEW i \in DOMAIN sigs'[k], NEW one, one = sigs'[k][i]
        PROVE  SignedInTime(one)'
    BY <2>2, <1>4, SignedStays
  <2>. QED  BY <2>1, <2>2 DEF WorkOK, RawOK, BuiltOnDuty, BuiltInPeriod, Fresh, SignedInTime
<1>. QED  BY <1>5

\* A step that appends no block.
LEMMA ChainKept ==
  ASSUME HInv, Later, UNCHANGED chainVars, WorkOK', SentOK' PROVE HInv'
<1>1. DutyDerived'
  BY DEF HInv, DutyDerived, chainVars
<1>2. PeriodDerived'
  BY DEF HInv, PeriodDerived, Fresh, chainVars
<1>3. AcceptedOK'
  <2>1. \A k \in Nodes : /\ InSeconds(chain[k][Len(chain[k])].te)
                         /\ chain[k][Len(chain[k])].te <= now
    BY DEF HInv, AcceptedOK
  <2>2. \A k \in Nodes : chain[k][Len(chain[k])].te <= now'
    BY <2>1 DEF InSeconds, Later
  <2>3. chain' = chain
    BY DEF chainVars
  <2>. QED  BY <2>2, <2>3 DEF HInv, AcceptedOK, Fresh, BuiltInPeriod
<1>. QED  BY <1>1, <1>2, <1>3 DEF HInv

\* A pass sends requests only.
LEMMA PassAsks ==
  ASSUME TInv, NEW n \in Nodes, NEW wanted, WantsTyped(n, wanted), Pass(n, wanted)
  PROVE  \A m \in msgs' : m \in msgs \/ GoodMessage(m)
<1> DEFINE all == VoteWants(n) \cup wanted
<1>1. WantsTyped(n, all)
  BY VoteWantsTyped, AllTyped
<1>2. msgs' = msgs \cup NewMsgs(n, LiveCalls(n), all)
  BY DEF Pass
<1> HIDE DEF all
<1>3. \A m \in NewMsgs(n, LiveCalls(n), all) : m.type \in {"NodeID", "GroupKey", "Vote", "Signature"}
  BY <1>1 DEF WantsTyped, NewMsgs
<1>. QED  BY <1>2, <1>3 DEF GoodMessage

------------------------------------------------------------------------------
(***************************************************************************)
(* The raw block that a butler on duty builds, and what it publishes.      *)
(***************************************************************************)
LEMMA GeneratedOK ==
  ASSUME QInv, TInv, HInv, NEW n \in Nodes, OnDuty(n), EnoughBallots(n)
  PROVE  RawOK(GeneratedBlock(n))
<1>1. PICK S : /\ chain \in [Nodes -> Seq(S)]
               /\ \A k \in Nodes : Len(chain[k]) \in Nat /\ Len(chain[k]) > 0
  BY ChainIsSeq
<1> DEFINE ch == chain[n]
           raw == GeneratedBlock(n)
           cycles == (now - startTime[n]) \div Tcut
<1>2. ch \in Seq(S) /\ Len(ch) \in Nat /\ Len(ch) > 0
  BY <1>1
<1>3. /\ raw.generator = n /\ raw.cycles = cycles
      /\ raw.height = Len(ch) - 1 + 1
      /\ raw.prev = HeaderHash(ch[Len(ch)])
      /\ raw.kind = IF period[n] = 0 THEN "vote" ELSE "normal"
      /\ raw.ballots = IF period[n] = 0 THEN pool[n] ELSE {}
  BY DEF GeneratedBlock, Height
<1>4. raw.height = Len(ch) /\ Len(ch) \in 1 .. Len(ch)
  BY <1>2, <1>3
<1>5. SubSeq(ch, 1, Len(ch)) = ch
  BY <1>2, Appended
<1>6. n = DutyOf(ch, cycles)
  <2>1. butlerNum[n][(cycles + initDuty[n]) % ButlerAmount] = n
    BY DEF OnDuty, DutyButler, DutyNum
  <2>2. initDuty[n] = ch[Len(ch)].next
    BY DEF HInv, DutyDerived
  <2>3. PICK i \in DOMAIN ch : IsLastVote(ch, i) /\ butlerNum[n] = PostsSince(ch, i)
    BY DEF HInv, DutyDerived
  <2> HIDE DEF ch, cycles
  <2>4. PostsOf(ch) = butlerNum[n]
    BY <2>3, <1>2, LastVoteIs
  <2>. QED  BY <2>1, <2>2, <2>4 DEF DutyOf
<1>7. BuiltOnDuty(raw)
  <2> HIDE DEF raw, cycles
  <2>. QED  BY <1>3, <1>4, <1>5, <1>6 DEF BuiltOnDuty
<1>8. ASSUME Fresh PROVE BuiltInPeriod(raw)
  <2>1. period[n] = Len(ch) % NumBlocks
    BY <1>8 DEF HInv, PeriodDerived
  <2>2. period[n] = 0 => 2 * Cardinality(pool[n]) >= Cardinality(Commissioners)
    BY DEF EnoughBallots, AtLeastHalf
  <2> HIDE DEF raw, ch
  <2>. QED  BY <1>3, <1>4, <2>1, <2>2 DEF BuiltInPeriod
<1>. QED  BY <1>7, <1>8 DEF RawOK

LEMMA SealedOK ==
  ASSUME NEW raw, RawOK(raw), NEW s, \A i \in DOMAIN s : SignedInTime(s[i])
  PROVE  PublishedOK(Seal(raw, s))
<1> DEFINE b == Seal(raw, s)
<1>1. b.raw = raw /\ b.sigs = s /\ b = Seal(raw, s)
  BY DEF Seal
<1> HIDE DEF b
<1>. QED  BY <1>1 DEF PublishedOK, Sealed

LEMMA RunHistory == ASSUME QInv, TInv, HInv, NEW n \in Nodes, Run(n) PROVE HInv'
<1>0. now \in Nat /\ WorkOK /\ SentOK /\ WantsTyped(n, {})
  BY DEF TInv, HInv, WantsTyped
<1>1. Later
  <2>1. UNCHANGED <<now, chainVars>>
    BY DEF Run, RunIdle, RunOffDuty, RunSign, RunPublish, RunFinish
  <2>. QED  BY <1>0, <2>1, SameIsLater DEF chainVars
<1>2. UNCHANGED chainVars
  BY DEF Run, RunIdle, RunOffDuty, RunSign, RunPublish, RunFinish
<1> DEFINE nothing == <<>>
<1>3. \A i \in DOMAIN nothing : SignedInTime(nothing[i])
  OBVIOUS
<1>4. CASE RunIdle(n)
  <2>1. UNCHANGED <<cache, sigs>> /\ Pass(n, {})
    BY <1>4 DEF RunIdle, roundVars
  <2>2. WorkOK'
    BY <1>0, <1>1, <1>3, <2>1, WorkAfter
  <2>3. SentOK'
    BY <1>0, <1>1, <2>1, PassAsks, SentAfter
  <2>. QED  BY <1>1, <1>2, <2>2, <2>3, ChainKept
<1>5. CASE RunOffDuty(n) \/ RunFinish(n)
  <2>1. /\ cache' = [cache EXCEPT ![n] = NoBlock]
        /\ sigs' = [sigs EXCEPT ![n] = nothing]
        /\ Pass(n, {})
    BY <1>5 DEF RunOffDuty, RunFinish
  <2> HIDE DEF nothing
  <2>2. WorkOK'
    BY <1>0, <1>1, <1>3, <2>1, WorkAfter
  <2>3. SentOK'
    BY <1>0, <1>1, <2>1, PassAsks, SentAfter
  <2>. QED  BY <1>1, <1>2, <2>2, <2>3, ChainKept
<1>6. CASE RunSign(n)
  <2> DEFINE raw == IF cache[n] = NoBlock THEN GeneratedBlock(n) ELSE cache[n]
  <2>1. /\ cache' = [cache EXCEPT ![n] = raw]
        /\ Pass(n, SignWants(n, raw))
        /\ UNCHANGED sigs
        /\ OnDuty(n) /\ EnoughBallots(n)
    BY <1>6 DEF RunSign, Working
  <2>2. IsRaw(raw) /\ RawOK(raw)
    BY <2>1, GeneratedTyped, GeneratedOK DEF TInv, WorkTyped, HInv, WorkOK
  <2> HIDE DEF raw, nothing
  <2>3. WorkOK'
    BY <1>0, <1>1, <1>3, <2>1, <2>2, WorkAfter
  <2>4. SentOK'
    BY <1>0, <1>1, <2>1, <2>2, SignWantsTyped, PassAsks, SentAfter
  <2>. QED  BY <1>1, <1>2, <2>3, <2>4, ChainKept
<1>7. CASE RunPublish(n)
  <2> DEFINE b == Seal(cache[n], sigs[n])
  <2>1. /\ msgs' = msgs \cup NewMsgs(n, LiveCalls(n), VoteWants(n)) \cup Publications(n, b)
        /\ genState[n] = "publish"
        /\ UNCHANGED <<cache, sigs>>
    BY <1>7 DEF RunPublish
  <2>2. PublishedOK(b)
    <3>1. cache[n] # NoBlock
      BY <2>1 DEF QInv, PublishHasCache
    <3>. QED  BY <3>1, SealedOK DEF HInv, WorkOK
  <2> HIDE DEF b, nothing
  <2>3. \A m \in Publications(n, b) : GoodMessage(m)
    BY <2>2 DEF Publications, GoodMessage
  <2>4. \A m \in NewMsgs(n, LiveCalls(n), VoteWants(n)) : GoodMessage(m)
    BY VoteWantsTyped DEF WantsTyped, NewMsgs, GoodMessage
  <2>5. SentOK'
    BY <1>0, <1>1, <2>1, <2>3, <2>4, SentAfter
  <2>6. WorkOK'
    BY <1>0, <1>1, <1>3, <2>1, WorkAfter
  <2>. QED  BY <1>1, <1>2, <2>5, <2>6, ChainKept
<1>. QED  BY <1>4, <1>5, <1>6, <1>7 DEF Run

------------------------------------------------------------------------------
(***************************************************************************)
(* Requests and answers.                                                   *)
(***************************************************************************)

\* A commissioner signs a raw block only on top of its own chain, whose last
\* block it has: its signature is not older than that block.
LEMMA SignedOnTop ==
  ASSUME QInv, TInv, HInv, NEW n \in Nodes, NEW raw, ValidRaw(chain[n], raw), NEW s,
         s.over = raw, s.ts = now
  PROVE  SignedInTime(s)
<1>1. Len(chain[n]) \in Nat /\ now \in Nat
  BY ChainIsSeq DEF TInv
<1>2. ASSUME raw.height > 1 PROVE TeBelow(raw) <= now
  <2>1. raw.height = Len(chain[n]) - 1 + 1
    BY DEF ValidRaw, Height
  <2>2. Len(chain[n]) - 1 > 0
    BY <1>1, <1>2, <2>1
  <2>3. raw.prev = HeaderHash(chain[n][Len(chain[n])])
    BY <2>2 DEF ValidRaw, Height
  <2>4. TeBelow(raw) = chain[n][Len(chain[n])].te
    BY <2>3 DEF TeBelow, HeaderHash
  <2>. QED  BY <2>4 DEF HInv, AcceptedOK
<1>. QED  BY <1>1, <1>2 DEF SignedInTime

LEMMA RequestHistory ==
  ASSUME QInv, TInv, HInv, NEW n \in Nodes, \/ OnNodeIDRequest(n) \/ OnGroupKeyRequest(n)
         \/ OnVote(n) \/ OnSignatureRequest(n)
  PROVE  HInv'
<1>0. now \in Nat /\ WorkOK /\ SentOK
  BY DEF TInv, HInv
<1>1. UNCHANGED <<now, chainVars, cache, sigs>>
  BY DEF OnNodeIDRequest, OnGroupKeyRequest, OnVote, OnSignatureRequest, roundVars
<1>2. Later
  BY <1>0, <1>1, SameIsLater DEF chainVars
<1>3. WorkOK'
  <2> DEFINE nothing == <<>>
  <2>1. \A i \in DOMAIN nothing : SignedInTime(nothing[i])
    OBVIOUS
  <2> HIDE DEF nothing
  <2>. QED  BY <1>0, <1>1, <1>2, <2>1, WorkAfter
<1>4. SentOK'
  <2>1. CASE OnNodeIDRequest(n) \/ OnGroupKeyRequest(n) \/ OnVote(n)
    <3>1. PICK m \in msgs : Reply(m, NoBody) /\ m.type \in {"NodeID", "GroupKey", "Vote"}
      BY <2>1 DEF OnNodeIDRequest, OnGroupKeyRequest, OnVote, Receive
    <3>2. GoodMessage(Answer(m, NoBody))
      BY <3>1 DEF GoodMessage, Answer
    <3>. QED  BY <1>0, <1>2, <3>1, <3>2, SentAfter DEF Reply
  <2>2. CASE OnSignatureRequest(n)
    <3>1. PICK m \in Receive(n, "Signature"), seed \in Seeds :
             /\ ValidRaw(chain[n], m.body)
             /\ Reply(m, [signer |-> n, over |-> m.body, ts |-> now, seed |-> seed])
      BY <2>2 DEF OnSignatureRequest
    <3> DEFINE s == [signer |-> n, over |-> m.body, ts |-> now, seed |-> seed]
    <3>2. s.over = m.body /\ s.ts = now
      OBVIOUS
    <3> HIDE DEF s
    <3>3. SignedInTime(s)
      BY <3>1, <3>2, SignedOnTop
    <3>4. GoodMessage(Answer(m, s))
      BY <3>3 DEF GoodMessage, Answer
    <3>5. msgs' = (msgs \ {m}) \cup {Answer(m, s)}
      BY <3>1 DEF Reply, s
    <3>. QED  BY <1>0, <1>2, <3>4, <3>5, SentAfter
  <2>. QED  BY <2>1, <2>2
<1>. QED  BY <1>1, <1>2, <1>3, <1>4, ChainKept

LEMMA ResponseHistory == ASSUME QInv, TInv, HInv, NEW n \in Nodes, HandleResponse(n) PROVE HInv'
<1>0. now \in Nat /\ WorkOK /\ SentOK
  BY DEF TInv, HInv
<1>1. UNCHANGED <<now, chainVars, cache>>
  BY DEF HandleResponse, OnNodeID, OnGroupKey, OnVoteResponse, OnSignature, roundVars
<1>2. Later
  BY <1>0, <1>1, SameIsLater DEF chainVars
<1>3. SentOK'
  <2>1. \A m \in msgs' : m \in msgs
    BY DEF HandleResponse, OnNodeID, OnGroupKey, OnVoteResponse, OnSignature, TakeCall
  <2>. QED  BY <1>0, <1>2, <2>1, SentAfter
<1>4. WorkOK'
  <2> DEFINE nothing == <<>>
  <2>0. \A i \in DOMAIN nothing : SignedInTime(nothing[i])
    OBVIOUS
  <2> HIDE DEF nothing
  <2>1. CASE UNCHANGED sigs
    BY <1>0, <1>1, <1>2, <2>0, <2>1, WorkAfter
  <2>2. CASE sigs' # sigs
    <3>1. OnSignature(n)
      BY <2>2 DEF HandleResponse, OnNodeID, OnGroupKey, OnVoteResponse, roundVars
    <3>2. PICK m \in Responses(n, "Signature") : sigs' = [sigs EXCEPT ![n] = Append(sigs[n], m.body)]
      BY <2>2, <3>1 DEF OnSignature
    <3> DEFINE b == m.body
    <3>3. SignedInTime(b)
      <4>1. m \in msgs /\ m.type = "Response" /\ m.re = "Signature"
        BY DEF Responses, Receive
      <4>. QED  BY <4>1 DEF HInv, SentOK
    <3> HIDE DEF b
    <3>4. PICK S : sigs \in [Nodes -> Seq(S)]
      BY DEF QInv, Shape
    <3>5. /\ Len(sigs[n]) \in Nat /\ DOMAIN sigs[n] = 1 .. Len(sigs[n])
          /\ DOMAIN Append(sigs[n], b) = 1 .. Len(sigs[n]) + 1
          /\ \A i \in 1 .. Len(sigs[n]) : Append(sigs[n], b)[i] = sigs[n][i]
          /\ Append(sigs[n], b)[Len(sigs[n]) + 1] = b
      <4>1. sigs[n] \in Seq(S)
        BY <3>4
      <4>. QED  BY <4>1, Appended
    <3>6. \A i \in 1 .. Len(sigs[n]) + 1 : i \in 1 .. Len(sigs[n]) \/ i = Len(sigs[n]) + 1
      BY <3>5
    <3>7. \A i \in DOMAIN sigs[n] : SignedInTime(sigs[n][i])
      BY DEF HInv, WorkOK
    <3>8. \A i \in DOMAIN Append(sigs[n], b) : SignedInTime(Append(sigs[n], b)[i])
      BY <3>3, <3>5, <3>6, <3>7
    <3> DEFINE new == Append(sigs[n], b)
    <3>9. sigs' = [sigs EXCEPT ![n] = new]
      BY <3>2 DEF b
    <3> HIDE DEF new
    <3>10. \A i \in DOMAIN new : SignedInTime(new[i])
      BY <3>8 DEF new
    <3>. QED  BY <1>0, <1>1, <1>2, <3>9, <3>10, WorkAfter
  <2>. QED  BY <2>1, <2>2
<1>. QED  BY <1>1, <1>2, <1>3, <1>4, ChainKept

------------------------------------------------------------------------------
(***************************************************************************)
(* Accepting a block.                                                      *)
(***************************************************************************)
LEMMA AppendIsLater ==
  ASSUME QInv, TInv, NEW n \in Nodes, NEW b, chain' = [chain EXCEPT ![n] = Append(@, b)],
         UNCHANGED now
  PROVE  Later
<1>1. PICK S : /\ chain \in [Nodes -> Seq(S)]
               /\ \A k \in Nodes : Len(chain[k]) \in Nat /\ Len(chain[k]) > 0
  BY ChainIsSeq
<1>2. chain'[n] = Append(chain[n], b) /\ \A k \in Nodes \ {n} : chain'[k] = chain[k]
  BY <1>1
<1>3. /\ Len(chain'[n]) = Len(chain[n]) + 1
      /\ \A h \in 1 .. Len(chain[n]) : /\ chain'[n][h] = chain[n][h]
                                       /\ SubSeq(chain'[n], 1, h) = SubSeq(chain[n], 1, h)
  <2>1. chain[n] \in Seq(S)
    BY <1>1
  <2>. QED  BY <1>2, <2>1, Appended
<1>4. ASSUME NEW k \in Nodes
      PROVE  /\ Len(chain[k]) \in Nat /\ Len(chain'[k]) \in Nat
             /\ Len(chain[k]) <= Len(chain'[k])
             /\ \A h \in 1 .. Len(chain[k]) :
                  /\ chain'[k][h] = chain[k][h]
                  /\ SubSeq(chain'[k], 1, h) = SubSeq(chain[k], 1, h)
  <2>1. CASE k = n
    BY <2>1, <1>1, <1>3
  <2>2. CASE k # n
    BY <2>2, <1>1, <1>2
  <2>. QED  BY <2>1, <2>2
<1>. QED  BY <1>4 DEF Later, TInv

\* What was on duty on the generator's chain was so on the acceptor's: they
\* are the same up to the block that the accepted one names.
LEMMA AcceptedOnDuty ==
  ASSUME QInv, LInv, HInv, NEW n \in Nodes, NEW raw, ValidRaw(chain[n], raw), OnGenesis(raw),
         BuiltOnDuty(raw)
  PROVE  raw.generator = DutyOf(chain[n], raw.cycles)
<1>1. PICK S : /\ chain \in [Nodes -> Seq(S)]
               /\ \A k \in Nodes : Len(chain[k]) \in Nat /\ Len(chain[k]) > 0
  BY ChainIsSeq
<1> DEFINE g == raw.generator
           h == Len(chain[n])
<1>2. raw.height = h /\ raw.prev = HeaderHash(chain[n][h])
  BY AcceptedLinks
<1>3. /\ g \in Nodes /\ h \in 1 .. Len(chain[g])
      /\ HeaderHash(chain[g][h]) = HeaderHash(chain[n][h])
      /\ g = DutyOf(SubSeq(chain[g], 1, h), raw.cycles)
  BY <1>2 DEF BuiltOnDuty
<1>4. h \in 1 .. Len(chain[n]) /\ h <= Len(chain[g])
  BY <1>1, <1>3
<1>5. SubSeq(chain[g], 1, h) = SubSeq(chain[n], 1, h)
  <2> HIDE DEF g, h
  <2>. QED  BY <1>3, <1>4, SamePast DEF HInv, AcceptedOK
<1>6. SubSeq(chain[n], 1, h) = chain[n]
  <2>1. chain[n] \in Seq(S)
    BY <1>1
  <2>. QED  BY <2>1, Appended
<1>. QED  BY <1>3, <1>5, <1>6

\* The time of a block is a whole second between that of the block below it
\* and the present.
LEMMA AcceptedInTime ==
  ASSUME QInv, LInv, TInv, HInv, NEW n \in Nodes, NEW b, ValidBlock(chain[n], b),
         OnGenesis(b.raw), SignedByQuorum(b), \A i \in DOMAIN b.sigs : SignedInTime(b.sigs[i])
  PROVE  /\ InSeconds(b.te) /\ b.te <= now
         /\ chain[n][Len(chain[n])].te <= b.te
<1> DEFINE last == chain[n][Len(chain[n])]
<1>1. /\ IsList(b.sigs) /\ Len(b.sigs) > 0
      /\ \A i \in DOMAIN b.sigs : b.sigs[i].over = b.raw
  BY MoreThanHalfSome DEF SignedByQuorum, IsList, WellSigned
<1>2. \A i \in DOMAIN b.sigs : b.sigs[i].ts \in Nat
  BY DEF SignedInTime
<1>3. PICK i \in DOMAIN b.sigs : Te(b.sigs) = (b.sigs[i].ts \div Sec) * Sec
  BY <1>1, <1>2, TeOfSignatures
<1> DEFINE t == b.sigs[i].ts
<1>4. b.te = (t \div Sec) * Sec
  BY <1>3 DEF ValidBlock
<1>5. t \in Nat /\ t <= now /\ now \in Nat
  BY <1>2 DEF SignedInTime, TInv
<1>6. b.raw.height > 1 => TeBelow(b.raw) <= t
  BY <1>1 DEF SignedInTime
<1>7. b.raw.height = Len(chain[n]) /\ b.raw.prev = HeaderHash(last)
  BY AcceptedLinks DEF ValidBlock
<1>8. TeBelow(b.raw) = last.te
  <2> HIDE DEF last
  <2>. QED  BY <1>7 DEF TeBelow, HeaderHash
<1>9. InSeconds(last.te)
  BY DEF HInv, AcceptedOK
<1>10. last.te <= t
  <2>1. CASE Len(chain[n]) > 1
    BY <2>1, <1>6, <1>7, <1>8
  <2>2. CASE Len(chain[n]) = 1
    <3>1. last = Genesis
      BY <2>2 DEF LInv, Rooted
    <3>. QED  BY <3>1, <1>5, GenesisAssumption
  <2>3. Len(chain[n]) = 1 \/ Len(chain[n]) > 1
    <3> DEFINE len == Len(chain[n])
    <3>1. len \in Nat /\ len > 0
      BY ChainIsSeq
    <3> HIDE DEF len
    <3>2. len = 1 \/ len > 1
      BY <3>1
    <3>. QED  BY <3>2 DEF len
  <2>. QED  BY <2>1, <2>2, <2>3
<1> HIDE DEF last, t
<1>11. PICK k \in Nat : last.te = k * Sec
  <2> DEFINE x == last.te
  <2>1. x \in Nat /\ x % Sec = 0 /\ Sec \in Nat \ {0}
    BY <1>9, AmountsAssumption DEF InSeconds
  <2> HIDE DEF x
  <2>2. \E k \in Nat : x = k * Sec
    BY <2>1, WholeMultiple
  <2>. QED  BY <2>2 DEF x
<1>12. k * Sec <= (t \div Sec) * Sec
  BY <1>5, <1>10, <1>11, WholeSeconds
<1>13. (t \div Sec) \in Nat /\ (t \div Sec) * Sec \in Nat /\ (t \div Sec) * Sec <= t
  BY <1>5, WholeSeconds
<1>14. InSeconds(b.te)
  <2> DEFINE q == t \div Sec
  <2>1. q \in Nat /\ Sec \in Nat \ {0} /\ 0 \in 0 .. Sec - 1
    BY <1>13, AmountsAssumption
  <2>2. b.te = q * Sec
    BY <1>4
  <2> HIDE DEF q
  <2>3. q * Sec \in Nat /\ q * Sec = Sec * q + 0
    BY <2>1
  <2>4. (q * Sec) % Sec = 0
    BY <2>1, <2>3, RemainderIs
  <2>. QED  BY <2>2, <2>3, <2>4 DEF InSeconds
<1>15. b.te <= now
  <2> DEFINE s == (t \div Sec) * Sec
  <2>1. b.te = s /\ s \in Nat /\ s <= t /\ t \in Nat /\ t <= now /\ now \in Nat
    BY <1>4, <1>5, <1>13
  <2> HIDE DEF s
  <2>. QED  BY <2>1
<1>. QED  BY <1>4, <1>11, <1>12, <1>14, <1>15 DEF last

LEMMA AdoptedDuty ==
  ASSUME QInv, TInv, HInv, NEW n \in Nodes, NEW b, AdoptBlock(n, b),
         chain' = [chain EXCEPT ![n] = Append(@, b)]
  PROVE  DutyDerived' /\ PeriodDerived'
<1>1. PICK S : /\ chain \in [Nodes -> Seq(S)]
               /\ \A k \in Nodes : Len(chain[k]) \in Nat /\ Len(chain[k]) > 0
  BY ChainIsSeq
<1> DEFINE ch == chain[n]
           new == Append(ch, b)
<1>2. chain'[n] = new /\ \A k \in Nodes \ {n} : chain'[k] = chain[k]
  BY <1>1
<1>3. ch \in Seq(S) /\ Len(ch) \in Nat /\ Len(ch) > 0
  BY <1>1
<1>4. Len(new) = Len(ch) + 1 /\ new[Len(new)] = b
  <2> HIDE DEF ch
  <2>. QED  BY <1>3, Appended
<1>5. /\ startTime' = [startTime EXCEPT ![n] = b.te]
      /\ initDuty' = [initDuty EXCEPT ![n] = b.next]
      /\ period' = [period EXCEPT ![n] = NextPeriod(@)]
  BY DEF AdoptBlock
<1>6. DutyDerived'
  <2> SUFFICES ASSUME NEW k \in Nodes
               PROVE  /\ startTime'[k] = chain'[k][Len(chain'[k])].te
                      /\ initDuty'[k] = chain'[k][Len(chain'[k])].next
                      /\ \E i \in DOMAIN chain'[k] : /\ IsLastVote(chain'[k], i)
                                                     /\ butlerNum'[k] = PostsSince(chain'[k], i)
    BY DEF DutyDerived
  <2>1. CASE k # n
    <3>1. /\ chain'[k] = chain[k] /\ startTime'[k] = startTime[k] /\ initDuty'[k] = initDuty[k]
          /\ butlerNum'[k] = butlerNum[k]
      BY <2>1, <1>2, <1>5 DEF AdoptBlock, TInv, PostsTyped
    <3>. QED  BY <3>1 DEF HInv, DutyDerived
  <2>2. CASE k = n
    <3>1. startTime'[n] = b.te /\ initDuty'[n] = b.next
      BY <1>5 DEF TInv, PostsTyped
    <3>2. PICK i \in DOMAIN ch : IsLastVote(ch, i) /\ butlerNum[n] = PostsSince(ch, i)
      BY DEF HInv, DutyDerived
    <3>3. butlerNum'[n] = PostsAfter(b, butlerNum[n])
      BY DEF AdoptBlock, TInv, PostsTyped, PostsAfter
    <3> HIDE DEF ch
    <3>4. \E j \in DOMAIN new : IsLastVote(new, j) /\ butlerNum'[n] = PostsSince(new, j)
      BY <1>3, <3>2, <3>3, PostsAdopted
    <3> HIDE DEF new
    <3>. QED  BY <1>2, <1>4, <2>2, <3>1, <3>4
  <2>. QED  BY <2>1, <2>2
<1>7. PeriodDerived'
  <2> SUFFICES ASSUME Fresh, NEW k \in Nodes PROVE period'[k] = Len(chain'[k]) % NumBlocks
    BY DEF PeriodDerived, Fresh
  <2>1. \A j \in Nodes : period[j] = Len(chain[j]) % NumBlocks
    BY DEF HInv, PeriodDerived
  <2>2. CASE k # n
    BY <2>1, <2>2, <1>2, <1>5 DEF TInv, PostsTyped
  <2>3. CASE k = n
    <3>1. period'[n] = ((Len(ch) % NumBlocks) + 1) % NumBlocks
      BY <2>1, <1>5 DEF TInv, PostsTyped, NextPeriod
    <3>2. NumBlocks \in Nat \ {0}
      BY TimesAssumption
    <3> HIDE DEF ch
    <3>3. ((Len(ch) % NumBlocks) + 1) % NumBlocks = (Len(ch) + 1) % NumBlocks
      BY <1>3, <3>2, NextRemainder
    <3> HIDE DEF new
    <3>. QED  BY <2>3, <3>1, <3>3, <1>2, <1>4
  <2>. QED  BY <2>2, <2>3
<1>. QED  BY <1>6, <1>7

LEMMA AcceptHistory == ASSUME QInv, LInv, TInv, HInv, NEW n \in Nodes, OnPublishBlock(n) PROVE HInv'
<1>1. PICK m \in Receive(n, "PublishBlock") :
        /\ ValidBlock(chain[n], m.body)
        /\ msgs' = msgs \ {m}
        /\ UpdateVariables(n, m.body)
        /\ chain' = [chain EXCEPT ![n] = Append(@, m.body)]
  BY DEF OnPublishBlock
<1>2. UNCHANGED now
  BY DEF OnPublishBlock
<1> DEFINE b == m.body
<1>3. m \in msgs /\ m.type = "PublishBlock"
  BY DEF Receive
<1>4. PublishedOK(b) /\ OnGenesis(b.raw) /\ SignedByQuorum(b)
  BY <1>3 DEF HInv, SentOK, LInv, SentOnGenesis, QInv, PublishedByQuorum
<1>5. /\ ValidBlock(chain[n], b) /\ ValidRaw(chain[n], b.raw)
      /\ AdoptBlock(n, b) /\ ResetRound(n)
      /\ chain' = [chain EXCEPT ![n] = Append(@, b)]
      /\ msgs' = msgs \ {m}
  BY <1>1 DEF ValidBlock, UpdateVariables
<1> HIDE DEF b
<1>6. Later
  BY <1>2, <1>5, AppendIsLater
<1>7. DutyDerived' /\ PeriodDerived'
  BY <1>5, AdoptedDuty
<1>8. SentOK'
  <2>1. \A mm \in msgs' : mm \in msgs
    BY <1>5
  <2>. QED  BY <1>6, <2>1, SentAfter DEF HInv
<1>9. WorkOK'
  <2> DEFINE nothing == <<>>
  <2>1. \A i \in DOMAIN nothing : SignedInTime(nothing[i])
    OBVIOUS
  <2>2. cache' = [cache EXCEPT ![n] = NoBlock] /\ sigs' = [sigs EXCEPT ![n] = nothing]
    BY <1>5 DEF ResetRound
  <2> HIDE DEF nothing
  <2>. QED  BY <1>6, <2>1, <2>2, WorkAfter DEF HInv
<1>10. /\ InSeconds(b.te) /\ b.te <= now
       /\ chain[n][Len(chain[n])].te <= b.te
  BY <1>4, <1>5, AcceptedInTime DEF PublishedOK
<1>11. b.raw.generator = DutyOf(chain[n], b.raw.cycles)
  BY <1>4, <1>5, AcceptedOnDuty DEF PublishedOK, RawOK
<1>12. Sealed(b) /\ (Fresh => BuiltInPeriod(b.raw))
  BY <1>4 DEF PublishedOK, RawOK
<1>13. AcceptedOK'
  <2>1. PICK S : /\ chain \in [Nodes -> Seq(S)]
                 /\ \A k \in Nodes : Len(chain[k]) \in Nat /\ Len(chain[k]) > 0
    BY ChainIsSeq
  <2> DEFINE ch == chain[n]
             new == Append(ch, b)
             Good(c, i) ==
               /\ Sealed(c[i])
               /\ c[i].raw.generator = DutyOf(SubSeq(c, 1, i - 1), c[i].raw.cycles)
               /\ Fresh => BuiltInPeriod(c[i].raw)
               /\ c[i - 1].te <= c[i].te
  <2>2. chain'[n] = new /\ \A k \in Nodes \ {n} : chain'[k] = chain[k]
    BY <1>5, <2>1
  <2>3. ch \in Seq(S) /\ Len(ch) \in Nat /\ Len(ch) > 0
    BY <2>1
  <2>4. /\ Len(new) = Len(ch) + 1
        /\ \A i \in 1 .. Len(ch) : new[i] = ch[i]
        /\ new[Len(ch) + 1] = b
        /\ \A h \in 1 .. Len(ch) : SubSeq(new, 1, h) = SubSeq(ch, 1, h)
        /\ SubSeq(ch, 1, Len(ch)) = ch
    <3> HIDE DEF ch
    <3>. QED  BY <2>3, Appended
  <2>5. \A k \in Nodes : /\ \A i \in 2 .. Len(chain[k]) : Good(chain[k], i)
                         /\ InSeconds(chain[k][Len(chain[k])].te)
                         /\ chain[k][Len(chain[k])].te <= now
    BY DEF HInv, AcceptedOK
  <2>6. \A i \in 2 .. Len(ch) : Good(ch, i)
    BY <2>5
  <2>7. ch[Len(ch)].te <= b.te /\ b.raw.generator = DutyOf(ch, b.raw.cycles)
    BY <1>10, <1>11
  <2> HIDE DEF ch, new
  <2>8. ASSUME NEW i \in 2 .. Len(new) PROVE Good(new, i)
    <3>1. i \in 2 .. Len(ch) \/ i = Len(ch) + 1
      BY <2>3, <2>4
    <3>2. CASE i \in 2 .. Len(ch)
      <4>1. i - 1 \in 1 .. Len(ch) /\ i \in 1 .. Len(ch)
        BY <3>2, <2>3
      <4>2. new[i] = ch[i] /\ new[i - 1] = ch[i - 1] /\ SubSeq(new, 1, i - 1) = SubSeq(ch, 1, i - 1)
        BY <4>1, <2>4
      <4>. QED  BY <4>2, <3>2, <2>6
    <3>3. CASE i = Len(ch) + 1
      <4>1. i - 1 = Len(ch) /\ Len(ch) \in 1 .. Len(ch)
        BY <3>3, <2>3
      <4>2. new[i] = b /\ new[i - 1] = ch[Len(ch)] /\ SubSeq(new, 1, i - 1) = ch
        BY <4>1, <3>3, <2>4
      <4>. QED  BY <4>2, <2>7, <1>12
    <3>. QED  BY <3>1, <3>2, <3>3
  <2>9. new[Len(new)] = b
    BY <2>4
  <2>10. ASSUME NEW k \in Nodes
         PROVE  /\ \A i \in 2 .. Len(chain'[k]) : Good(chain'[k], i)
                /\ InSeconds(chain'[k][Len(chain'[k])].te)
                /\ chain'[k][Len(chain'[k])].te <= now
    <3>1. CASE k = n
      <4> HIDE DEF Good
      <4>. QED  BY <3>1, <2>2, <2>8, <2>9, <1>10
    <3>2. CASE k # n
      <4> HIDE DEF Good
      <4>. QED  BY <3>2, <2>2, <2>5
    <3>. QED  BY <3>1, <3>2
  <2>. QED  BY <2>10, <1>2 DEF AcceptedOK, Fresh, BuiltInPeriod, InSeconds, Sealed
<1>. QED  BY <1>7, <1>8, <1>9, <1>13 DEF HInv

------------------------------------------------------------------------------
LEMMA HInit == Init => HInv
<1> SUFFICES ASSUME Init PROVE HInv
  OBVIOUS
<1> DEFINE one == <<Genesis>>
<1>1. /\ \A n \in Nodes : chain[n] = one
      /\ Len(one) = 1 /\ DOMAIN one = 1 .. 1 /\ one[1] = Genesis
  BY DEF Init
<1>2. DutyDerived
  <2>1. IsLastVote(one, 1) /\ 1 \in DOMAIN one
    BY <1>1, GenesisAssumption DEF IsLastVote
  <2>2. \A n \in Nodes : butlerNum[n] = PostsSince(one, 1)
    BY DEF Init, PostsSince
  <2>3. \A n \in Nodes : startTime[n] = Genesis.te /\ initDuty[n] = Genesis.next
    BY DEF Init
  <2> HIDE DEF one
  <2>. QED  BY <1>1, <2>1, <2>2, <2>3 DEF DutyDerived
<1>3. PeriodDerived
  <2> SUFFICES ASSUME Fresh, NEW n \in Nodes PROVE period[n] = Len(chain[n]) % NumBlocks
    BY DEF PeriodDerived
  <2>1. StartPeriod[n] % NumBlocks = 0 /\ StartPeriod[n] \in Nat /\ NumBlocks \in Nat \ {0}
    BY TimesAssumption DEF Fresh
  <2>2. ((StartPeriod[n] % NumBlocks) + 1) % NumBlocks = (StartPeriod[n] + 1) % NumBlocks
    BY <2>1, NextRemainder
  <2>3. period[n] = (StartPeriod[n] + 1) % NumBlocks
    BY DEF Init, NextPeriod
  <2>4. 0 + 1 = Len(chain[n])
    BY <1>1
  <2>. QED  BY <2>1, <2>2, <2>3, <2>4
<1>4. WorkOK
  <2>1. \A n \in Nodes : cache[n] = NoBlock /\ sigs[n] = <<>>
    BY DEF Init
  <2>. QED  BY <2>1 DEF WorkOK
<1>5. SentOK
  BY DEF Init, SentOK
<1>6. AcceptedOK
  <2>1. \A n \in Nodes : Len(chain[n]) = 1 /\ chain[n][1].te = 0 /\ now = 0
    BY <1>1, GenesisAssumption DEF Init
  <2>2. InSeconds(0)
    <3>1. Sec \in Nat \ {0} /\ 0 \in 0 .. Sec - 1 /\ 0 = Sec * 0 + 0
      BY AmountsAssumption
    <3>2. 0 % Sec = 0
      BY <3>1, RemainderIs
    <3>. QED  BY <3>2 DEF InSeconds
  <2>3. ASSUME NEW n \in Nodes, NEW i \in 2 .. Len(chain[n]) PROVE FALSE
    <3>1. Len(chain[n]) = 1
      BY <2>1
    <3>. QED  BY <3>1
  <2>. QED  BY <2>1, <2>2, <2>3 DEF AcceptedOK
<1>. QED  BY <1>2, <1>3, <1>4, <1>5, <1>6 DEF HInv

LEMMA HNext == QInv /\ LInv /\ TInv /\ HInv /\ [Next]_vars => HInv'
<1> SUFFICES ASSUME QInv, LInv, TInv, HInv, [Next]_vars PROVE HInv'
  OBVIOUS
<1>1. CASE Tick \/ UNCHANGED vars
  <2>1. /\ now \in Nat /\ now' \in Nat /\ now <= now'
        /\ UNCHANGED <<msgs, chainVars, cache, sigs>>
    BY <1>1 DEF Tick, vars, clusterVars, roundVars, TInv
  <2>2. Later
    BY <2>1, SameIsLater DEF chainVars
  <2>3. SentOK'
    BY <2>1, <2>2, SentAfter DEF HInv
  <2>4. WorkOK'
    <3>1. CASE Nodes = {}
      BY <3>1 DEF WorkOK
    <3>2. ASSUME NEW n \in Nodes PROVE WorkOK'
      <4>1. \A i \in DOMAIN sigs[n] : SignedInTime(sigs[n][i])
        BY DEF HInv, WorkOK
      <4>2. UNCHANGED cache /\ UNCHANGED sigs /\ (NoBlock = NoBlock \/ RawOK(NoBlock))
        BY <2>1
      <4>. QED  BY <4>1, <4>2, <2>2, WorkAfter DEF HInv
    <3>. QED  BY <3>1, <3>2
  <2>. QED  BY <2>1, <2>2, <2>3, <2>4, ChainKept
<1>2. ASSUME NEW n \in Nodes, Run(n) PROVE HInv'
  BY <1>2, RunHistory
<1>3. ASSUME NEW n \in Nodes, HandleRequest(n) PROVE HInv'
  BY <1>3, RequestHistory, AcceptHistory DEF HandleRequest
<1>4. ASSUME NEW n \in Nodes, HandleResponse(n) PROVE HInv'
  BY <1>4, ResponseHistory
<1>. QED  BY <1>1, <1>2, <1>3, <1>4 DEF Next

LEMMA LInvariant == Spec => []LInv
<1>1. Init => LInv
  BY LInit
<1>2. QInv /\ LInv /\ [Next]_vars => LInv'
  BY LNext
<1>. QED  BY <1>1, <1>2, QInvariant, PTL DEF Spec

\* Duty, periods and times follow from the chains: the invariant on which the
\* theorems below rest.
THEOREM HInvariant == Spec => []HInv
<1>1. Init => HInv
  BY HInit
<1>2. QInv /\ LInv /\ TInv /\ HInv /\ [Next]_vars => HInv'
  BY HNext
<1>. QED  BY <1>1, <1>2, QInvariant, LInvariant, TInvariant, PTL DEF Spec

\* A block on a chain was built by the butler that the chain below it puts on
\* duty in the cycle it names, although nobody who signs or accepts a block
\* looks at its generator.
THEOREM BuilderWasOnDuty == Spec => []GeneratorWasOnDuty
<1>1. HInv => GeneratorWasOnDuty
  BY DEF HInv, AcceptedOK, GeneratorWasOnDuty
<1>. QED  BY <1>1, HInvariant, PTL

\* The times of blocks do not decrease along a chain and do not lie ahead of
\* the clock, whoever was the last to sign them.
THEOREM BlocksInTime == Spec => []TimesOrdered
<1>1. HInv => TimesOrdered
  BY DEF HInv, AcceptedOK, DutyDerived, TimesOrdered
<1>. QED  BY <1>1, HInvariant, PTL

\* If the memory of the period counter was fresh, time, first duty, counter
\* and posts of every node are those its chain determines.
THEOREM ChainDetermines == Fresh => (Spec => []DerivedFromChain)
<1>1. Fresh /\ QInv /\ HInv => DerivedFromChain
  <2> SUFFICES ASSUME Fresh, QInv, HInv, NEW n \in Nodes
               PROVE  /\ startTime[n] = chain[n][Len(chain[n])].te
                      /\ initDuty[n] = chain[n][Len(chain[n])].next
                      /\ period[n] = Len(chain[n]) % NumBlocks
                      /\ butlerNum[n] = PostsOf(chain[n])
    BY DEF DerivedFromChain
  <2>1. PICK S : chain \in [Nodes -> Seq(S)]
    BY ChainIsSeq
  <2>2. PICK i \in DOMAIN chain[n] : /\ IsLastVote(chain[n], i)
                                     /\ butlerNum[n] = PostsSince(chain[n], i)
    BY DEF HInv, DutyDerived
  <2>3. PostsOf(chain[n]) = PostsSince(chain[n], i)
    <3>1. chain[n] \in Seq(S)
      BY <2>1
    <3>. QED  BY <3>1, <2>2, LastVoteIs
  <2>. QED  BY <2>2, <2>3 DEF HInv, DutyDerived, PeriodDerived
<1>2. SUFFICES ASSUME Fresh PROVE Spec => []DerivedFromChain
  OBVIOUS
<1>3. QInv /\ HInv => DerivedFromChain
  BY <1>1, <1>2
<1>. QED  BY <1>3, QInvariant, HInvariant, PTL

\* If the memory of the period counter was fresh, each period ends in exactly
\* one vote block, and that block has the ballots of half of the committee.
THEOREM PeriodsEndInVotes == Fresh => (Spec => []VoteEndsPeriod)
<1>1. SUFFICES ASSUME Fresh PROVE Spec => []VoteEndsPeriod
  OBVIOUS
<1>2. HInv => VoteEndsPeriod
  BY <1>1 DEF HInv, AcceptedOK, BuiltInPeriod, VoteEndsPeriod
<1>. QED  BY <1>2, HInvariant, PTL

\* Two nodes whose chains have one length and end in blocks of one hash have
\* the same chain, and therefore the same time, first duty and posts: they
\* name the same butler on duty.
THEOREM SameTipSameDuty ==
  Spec => [](\A m, n \in Nodes :
    Len(chain[m]) = Len(chain[n])
      /\ HeaderHash(chain[m][Len(chain[m])]) = HeaderHash(chain[n][Len(chain[n])])
    => chain[m] = chain[n] /\ DutyNum(m) = DutyNum(n) /\ DutyButler(m) = DutyButler(n))
<1> DEFINE Agree == \A m, n \in Nodes :
             Len(chain[m]) = Len(chain[n])
               /\ HeaderHash(chain[m][Len(chain[m])]) = HeaderHash(chain[n][Len(chain[n])])
             => chain[m] = chain[n] /\ DutyNum(m) = DutyNum(n) /\ DutyButler(m) = DutyButler(n)
<1>1. QInv /\ LInv /\ HInv => Agree
  <2> SUFFICES ASSUME QInv, LInv, HInv, NEW m \in Nodes, NEW n \in Nodes,
                      Len(chain[m]) = Len(chain[n]),
                      HeaderHash(chain[m][Len(chain[m])]) = HeaderHash(chain[n][Len(chain[n])])
               PROVE  chain[m] = chain[n] /\ DutyNum(m) = DutyNum(n) /\ DutyButler(m) = DutyButler(n)
    OBVIOUS
  <2>1. PICK S : /\ chain \in [Nodes -> Seq(S)]
                 /\ \A k \in Nodes : Len(chain[k]) \in Nat /\ Len(chain[k]) > 0
    BY ChainIsSeq
  <2> DEFINE h == Len(chain[n])
  <2>2. h \in 1 .. Len(chain[n]) /\ h <= Len(chain[m])
        /\ HeaderHash(chain[m][h]) = HeaderHash(chain[n][h])
    BY <2>1
  <2>3. SubSeq(chain[m], 1, h) = SubSeq(chain[n], 1, h)
    <3> HIDE DEF h
    <3>. QED  BY <2>2, SamePast DEF HInv, AcceptedOK
  <2>4. SubSeq(chain[m], 1, Len(chain[m])) = chain[m] /\ SubSeq(chain[n], 1, Len(chain[n])) = chain[n]
    <3>1. chain[m] \in Seq(S) /\ chain[n] \in Seq(S)
      BY <2>1
    <3>. QED  BY <3>1, Appended
  <2>5. chain[m] = chain[n]
    BY <2>3, <2>4
  <2>6. startTime[m] = startTime[n] /\ initDuty[m] = initDuty[n]
    BY <2>5 DEF HInv, DutyDerived
  <2>7. ASSUME NEW k \in Nodes PROVE butlerNum[k] = PostsOf(chain[k])
    <3>1. PICK i \in DOMAIN chain[k] : /\ IsLastVote(chain[k], i)
                                       /\ butlerNum[k] = PostsSince(chain[k], i)
      BY DEF HInv, DutyDerived
    <3>2. chain[k] \in Seq(S)
      BY <2>1
    <3>. QED  BY <3>1, <3>2, LastVoteIs
  <2>8. butlerNum[m] = butlerNum[n]
    BY <2>5, <2>7
  <2>. QED  BY <2>5, <2>6, <2>8 DEF DutyNum, DutyButler
<1> HIDE DEF Agree
<1>2. Spec => []Agree
  BY <1>1, QInvariant, LInvariant, HInvariant, PTL
<1>. QED  BY <1>2 DEF Agree
=============================================================================
