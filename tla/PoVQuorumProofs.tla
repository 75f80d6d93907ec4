--------------------------- MODULE PoVQuorumProofs ---------------------------
(***************************************************************************)
(* Proofs, for any committee, any number of butlers and any bounds, that   *)
(* every accepted block is signed by more than half of the commissioners   *)
(* and that a fork needs a commissioner that signed both of its blocks;    *)
(* and, in the second half of the module, that every variable, request and *)
(* answer of the normal phase has its type, parts of a block included.     *)
(***************************************************************************)
EXTENDS PoVSafety, FiniteSetTheorems, WellFoundedInduction, TLAPS

(***************************************************************************)
(* The inductive invariant.  Chains and signature lists are sequences over *)
(* some set of values; the signatures a butler keeps are those of its raw  *)
(* block, so that there are none while there is no raw block, and a        *)
(* published or accepted block is the work of a quorum.                    *)
(***************************************************************************)
IsList(s) == Len(s) \in Nat /\ DOMAIN s = 1 .. Len(s)

SignedByQuorum(b) ==
  /\ IsList(b.sigs)
  /\ WellSigned(b.raw, b.sigs)
  /\ MoreThanHalf(Len(b.sigs))

Shape ==
  /\ \E S : chain \in [Nodes -> Seq(S)] /\ sigs \in [Nodes -> Seq(S)]
  /\ \E S : genState \in [Nodes -> S] /\ cache \in [Nodes -> S]
  /\ \A n \in Nodes : Len(chain[n]) > 0

Collected == \A n \in Nodes : WellSigned(cache[n], sigs[n])

PublishHasCache == \A n \in Nodes : genState[n] = "publish" => cache[n] # NoBlock

NothingKept == \A n \in Nodes : cache[n] = NoBlock => sigs[n] = <<>>

PublishedByQuorum == \A m \in msgs : m.type = "PublishBlock" => SignedByQuorum(m.body)

AcceptedFromQuorum ==
  \A n \in Nodes : \A i \in 2 .. Len(chain[n]) : SignedByQuorum(chain[n][i])

QInv ==
  /\ Shape
  /\ Collected /\ PublishHasCache /\ NothingKept
  /\ PublishedByQuorum /\ AcceptedFromQuorum

------------------------------------------------------------------------------
(***************************************************************************)
(* Lists of signatures.                                                    *)
(***************************************************************************)

\* In a list without a signer twice there are as many signers as signatures.
LEMMA SignersCount ==
  ASSUME NEW raw, NEW s, IsList(s), WellSigned(raw, s)
  PROVE  /\ IsFiniteSet(Signers(s))
         /\ Cardinality(Signers(s)) = Len(s)
         /\ Signers(s) \subseteq Commissioners
<1> DEFINE f == [i \in 1 .. Len(s) |-> s[i].signer]
<1>1. f \in Bijection(1 .. Len(s), Signers(s))
  BY DEF IsList, WellSigned, Signers, Bijection, Injection, Surjection, IsInjective
<1>2. IsFiniteSet(1 .. Len(s)) /\ Cardinality(1 .. Len(s)) = Len(s)
  <2>1. Len(s) \in Nat
    BY DEF IsList
  <2>2. /\ IsFiniteSet(1 .. Len(s))
        /\ Cardinality(1 .. Len(s)) = IF 1 > Len(s) THEN 0 ELSE Len(s) - 1 + 1
    BY <2>1, FS_Interval
  <2>. QED  BY <2>1, <2>2
<1>3. IsFiniteSet(Signers(s)) /\ Cardinality(Signers(s)) = Len(s)
  BY <1>1, <1>2, FS_Bijection DEF ExistsBijection
<1>4. Signers(s) \subseteq Commissioners
  BY DEF Signers, WellSigned, ValidSignature
<1>. QED  BY <1>3, <1>4

LEMMA CommitteeFinite == IsFiniteSet(Commissioners) /\ Cardinality(Commissioners) \in Nat
BY NodesAssumption, FS_Subset, FS_CardinalityType

\* A quorum of signatures is a quorum of commissioners.
LEMMA QuorumOfCommissioners ==
  ASSUME NEW b, SignedByQuorum(b)
  PROVE  2 * Cardinality(Signers(b.sigs)) > Cardinality(Commissioners)
BY SignersCount DEF SignedByQuorum, MoreThanHalf

\* Two blocks signed by quorums have a signer in common.
LEMMA QuorumsShareSigner ==
  ASSUME NEW a, NEW b, SignedByQuorum(a), SignedByQuorum(b)
  PROVE  \E c \in Commissioners : c \in Signers(a.sigs) /\ c \in Signers(b.sigs)
<1>1. /\ Signers(a.sigs) \subseteq Commissioners
      /\ Signers(b.sigs) \subseteq Commissioners
      /\ Cardinality(Signers(a.sigs)) \in Nat
      /\ Cardinality(Signers(b.sigs)) \in Nat
  BY SignersCount DEF SignedByQuorum, IsList
<1>2. Cardinality(Signers(a.sigs)) + Cardinality(Signers(b.sigs)) > Cardinality(Commissioners)
  BY <1>1, CommitteeFinite, QuorumOfCommissioners
<1>3. Signers(a.sigs) \cap Signers(b.sigs) # {}
  BY <1>1, <1>2, CommitteeFinite, FS_MajoritiesIntersect
<1>. QED  BY <1>1, <1>3

\* A useful signature can be added to a list of good ones.
LEMMA UsefulExtends ==
  ASSUME NEW raw, NEW S, NEW s \in Seq(S), WellSigned(raw, s),
         NEW sig \in S, ValidSignature(raw, sig), sig.signer \notin Signers(s)
  PROVE  WellSigned(raw, Append(s, sig))
BY DEF WellSigned, Signers, ValidSignature

LEMMA EmptyWellSigned == \A raw : WellSigned(raw, <<>>)
BY DEF WellSigned

------------------------------------------------------------------------------
(***************************************************************************)
(* Only RunPublish sends blocks.                                           *)
(***************************************************************************)
NoBlocks(wanted) == \A w \in wanted : w.type # "PublishBlock"

LEMMA VoteWantsNoBlocks == \A n \in Nodes : NoBlocks(VoteWants(n))
BY DEF NoBlocks, VoteWants, Ask

LEMMA SignWantsNoBlocks == \A n \in Nodes : \A raw : NoBlocks(SignWants(n, raw))
BY DEF NoBlocks, SignWants, Ask

LEMMA SentNoBlocks ==
  ASSUME NEW n, NEW live, NEW wanted, NoBlocks(wanted)
  PROVE  \A m \in NewMsgs(n, live, wanted) : m.type # "PublishBlock"
BY DEF NoBlocks, NewMsgs

LEMMA PassNoBlocks ==
  ASSUME PublishedByQuorum, NEW n \in Nodes, NEW wanted, NoBlocks(wanted), Pass(n, wanted)
  PROVE  PublishedByQuorum'
<1>1. NoBlocks(VoteWants(n) \cup wanted)
  BY VoteWantsNoBlocks DEF NoBlocks
<1>2. \A m \in NewMsgs(n, LiveCalls(n), VoteWants(n) \cup wanted) : m.type # "PublishBlock"
  BY <1>1, SentNoBlocks
<1>3. msgs' = msgs \cup NewMsgs(n, LiveCalls(n), VoteWants(n) \cup wanted)
  BY DEF Pass
<1>. QED  BY <1>2, <1>3 DEF PublishedByQuorum

LEMMA ReplyNoBlocks ==
  ASSUME PublishedByQuorum, NEW m, NEW body, Reply(m, body)
  PROVE  PublishedByQuorum'
BY DEF Reply, Answer, PublishedByQuorum

------------------------------------------------------------------------------
LEMMA QInit == Init => QInv
<1> SUFFICES ASSUME Init PROVE QInv
  OBVIOUS
<1>1. Shape
  <2>1. chain \in [Nodes -> Seq({Genesis})] /\ sigs \in [Nodes -> Seq({Genesis})]
    BY DEF Init
  <2>2. genState \in [Nodes -> {"sign", NoBlock}] /\ cache \in [Nodes -> {"sign", NoBlock}]
    BY DEF Init
  <2>3. \A n \in Nodes : Len(chain[n]) = 1
    BY DEF Init
  <2>4. \A n \in Nodes : Len(chain[n]) > 0
    BY <2>3
  <2>. QED  BY ONLY <2>1, <2>2, <2>4 DEF Shape
<1>2. Collected
  <2>1. \A n \in Nodes : sigs[n] = <<>>
    BY DEF Init
  <2>. QED  BY <2>1, EmptyWellSigned DEF Collected
<1>3. PublishHasCache /\ NothingKept /\ PublishedByQuorum /\ AcceptedFromQuorum
  BY DEF Init, PublishHasCache, NothingKept, PublishedByQuorum, AcceptedFromQuorum
<1>. QED  BY <1>1, <1>2, <1>3 DEF QInv
------------------------------------------------------------------------------
(***************************************************************************)
(* The steps.  Most of them leave the chain and the work on the block as   *)
(* they are, or forget that work.                                          *)
(***************************************************************************)
LEMMA UntouchedWork ==
  ASSUME QInv, UNCHANGED <<chain, genState, cache, sigs>>, PublishedByQuorum'
  PROVE  QInv'
<1>1. Shape'
  BY DEF QInv, Shape
<1>2. Collected' /\ PublishHasCache' /\ NothingKept' /\ AcceptedFromQuorum'
  BY DEF QInv, Collected, PublishHasCache, NothingKept, AcceptedFromQuorum
<1>. QED  BY <1>1, <1>2 DEF QInv

\* A node that empties its list of signatures keeps the invariant as long as
\* it is not about to publish.
LEMMA DroppedWork ==
  ASSUME QInv, NEW n \in Nodes, UNCHANGED chain, PublishedByQuorum',
         sigs' = [sigs EXCEPT ![n] = <<>>],
         cache' = [cache EXCEPT ![n] = NoBlock],
         NEW g, g # "publish", genState' = [genState EXCEPT ![n] = g]
  PROVE  QInv'
<1>1. PICK S : chain \in [Nodes -> Seq(S)] /\ sigs \in [Nodes -> Seq(S)]
  BY DEF QInv, Shape
<1>2. PICK T : genState \in [Nodes -> T] /\ cache \in [Nodes -> T]
  BY DEF QInv, Shape
<1>3. Shape'
  <2>1. chain' \in [Nodes -> Seq(S)] /\ sigs' \in [Nodes -> Seq(S)]
    BY <1>1
  <2>2. /\ genState' \in [Nodes -> T \cup {g, NoBlock}]
        /\ cache' \in [Nodes -> T \cup {g, NoBlock}]
    BY <1>2
  <2>3. \A m \in Nodes : Len(chain'[m]) > 0
    BY DEF QInv, Shape
  <2>. QED  BY <2>1, <2>2, <2>3 DEF Shape
<1>4. Collected'
  <2> SUFFICES ASSUME NEW m \in Nodes PROVE WellSigned(cache'[m], sigs'[m])
    BY DEF Collected
  <2>1. CASE m = n
    BY <2>1, <1>1, EmptyWellSigned
  <2>2. CASE m # n
    BY <2>2, <1>1, <1>2 DEF QInv, Collected
  <2>. QED  BY <2>1, <2>2
<1>5. PublishHasCache' /\ NothingKept'
  BY <1>1, <1>2 DEF QInv, PublishHasCache, NothingKept
<1>6. AcceptedFromQuorum'
  BY DEF QInv, AcceptedFromQuorum
<1>. QED  BY <1>3, <1>4, <1>5, <1>6 DEF QInv

LEMMA RunIdleStep == ASSUME QInv, NEW n \in Nodes, RunIdle(n) PROVE QInv'
<1>1. NoBlocks({})
  BY DEF NoBlocks
<1>2. PublishedByQuorum'
  BY <1>1, PassNoBlocks DEF RunIdle, QInv
<1>. QED  BY <1>2, UntouchedWork DEF RunIdle, chainVars, roundVars

LEMMA RunOffDutyStep == ASSUME QInv, NEW n \in Nodes, RunOffDuty(n) PROVE QInv'
<1>1. NoBlocks({})
  BY DEF NoBlocks
<1>2. PublishedByQuorum'
  BY <1>1, PassNoBlocks DEF RunOffDuty, QInv
<1>. QED  BY <1>2, DroppedWork DEF RunOffDuty, chainVars

LEMMA RunFinishStep == ASSUME QInv, NEW n \in Nodes, RunFinish(n) PROVE QInv'
<1>1. NoBlocks({})
  BY DEF NoBlocks
<1>2. PublishedByQuorum'
  BY <1>1, PassNoBlocks DEF RunFinish, QInv
<1>3. genState' = [genState EXCEPT ![n] = "finish"]
  <2>1. genState' = genState /\ genState[n] = "finish"
    BY DEF RunFinish
  <2>. QED  BY <2>1 DEF QInv, Shape
<1>. QED  BY <1>2, <1>3, DroppedWork DEF RunFinish, chainVars

\* A raw block is not NULL.
LEMMA RawIsBlock == \A n \in Nodes : GeneratedBlock(n) # NoBlock
<1> SUFFICES ASSUME NEW n \in Nodes PROVE GeneratedBlock(n) # NoBlock
  OBVIOUS
<1>1. DOMAIN GeneratedBlock(n) = {"height", "cycles", "generator", "prev", "kind", "ballots"}
  BY DEF GeneratedBlock
<1>2. DOMAIN NoBlock = {"height"}
  BY DEF NoBlock
<1>. QED  BY <1>1, <1>2

\* The raw block that signatures are asked for is the one they are kept for:
\* a new one is built only when no signature is kept.
LEMMA RunSignStep == ASSUME QInv, NEW n \in Nodes, RunSign(n) PROVE QInv'
<1> DEFINE raw == IF cache[n] = NoBlock THEN GeneratedBlock(n) ELSE cache[n]
           g == IF MoreThanHalf(Len(sigs[n])) THEN "publish" ELSE "sign"
<1>1. PICK T : genState \in [Nodes -> T] /\ cache \in [Nodes -> T]
  BY DEF QInv, Shape
<1>2. /\ cache' = [cache EXCEPT ![n] = raw]
      /\ Pass(n, SignWants(n, raw))
      /\ genState' = [genState EXCEPT ![n] = g]
      /\ UNCHANGED <<chain, sigs>>
  BY DEF RunSign, chainVars
<1>3. raw # NoBlock
  BY RawIsBlock
<1> HIDE DEF raw
<1>4. Shape'
  <2>1. chain' = chain /\ sigs' = sigs
    BY <1>2
  <2>2. genState' \in [Nodes -> T \cup {g, raw}] /\ cache' \in [Nodes -> T \cup {g, raw}]
    BY <1>1, <1>2
  <2>. QED  BY ONLY <2>1, <2>2, QInv DEF QInv, Shape
<1>5. Collected'
  <2> SUFFICES ASSUME NEW m \in Nodes PROVE WellSigned(cache'[m], sigs'[m])
    BY DEF Collected
  <2>1. CASE m = n /\ cache[n] = NoBlock
    <3>1. sigs'[m] = <<>>
      BY <2>1, <1>2 DEF QInv, NothingKept
    <3>. QED  BY <3>1, EmptyWellSigned
  <2>2. CASE m # n \/ cache[n] # NoBlock
    <3>1. cache'[m] = cache[m] /\ sigs'[m] = sigs[m]
      BY <2>2, <1>1, <1>2 DEF raw
    <3>. QED  BY <3>1 DEF QInv, Collected
  <2>. QED  BY <2>1, <2>2
<1>6. PublishHasCache' /\ NothingKept'
  BY <1>1, <1>2, <1>3 DEF QInv, PublishHasCache, NothingKept
<1>7. PublishedByQuorum'
  BY <1>2, PassNoBlocks, SignWantsNoBlocks DEF QInv
<1>8. AcceptedFromQuorum'
  BY <1>2 DEF QInv, AcceptedFromQuorum
<1>. QED  BY <1>4, <1>5, <1>6, <1>7, <1>8 DEF QInv

\* What is published is sealed with the signatures of a quorum.
LEMMA RunPublishStep == ASSUME QInv, NEW n \in Nodes, RunPublish(n) PROVE QInv'
<1> DEFINE b == Seal(cache[n], sigs[n])
<1>1. PICK S : chain \in [Nodes -> Seq(S)] /\ sigs \in [Nodes -> Seq(S)]
  BY DEF QInv, Shape
<1>2. PICK T : genState \in [Nodes -> T] /\ cache \in [Nodes -> T]
  BY DEF QInv, Shape
<1>3. /\ genState[n] = "publish"
      /\ MoreThanHalf(Len(sigs[n]))
      /\ genState' = [genState EXCEPT ![n] = "finish"]
      /\ UNCHANGED <<chain, cache, sigs>>
  BY DEF RunPublish, chainVars
<1>4. SignedByQuorum(b)
  <2>1. IsList(sigs[n])
    BY <1>1 DEF IsList
  <2>2. b.raw = cache[n] /\ b.sigs = sigs[n]
    BY DEF Seal
  <2>. QED  BY <2>1, <2>2, <1>3 DEF QInv, Collected, SignedByQuorum
<1> HIDE DEF b
<1>5. PublishedByQuorum'
  <2>1. msgs' = msgs \cup NewMsgs(n, LiveCalls(n), VoteWants(n)) \cup Publications(n, b)
    BY DEF RunPublish, b
  <2>2. \A m \in NewMsgs(n, LiveCalls(n), VoteWants(n)) : m.type # "PublishBlock"
    BY VoteWantsNoBlocks, SentNoBlocks
  <2>3. \A m \in Publications(n, b) : m.body = b
    BY DEF Publications
  <2>. QED  BY <2>1, <2>2, <2>3, <1>4 DEF QInv, PublishedByQuorum
<1>6. Shape'
  <2>1. chain' = chain /\ sigs' = sigs
    BY <1>3
  <2>2. genState' \in [Nodes -> T \cup {"finish"}] /\ cache' \in [Nodes -> T \cup {"finish"}]
    BY <1>2, <1>3
  <2>. QED  BY ONLY <2>1, <2>2, QInv DEF QInv, Shape
<1>7. Collected' /\ NothingKept' /\ AcceptedFromQuorum'
  BY <1>3 DEF QInv, Collected, NothingKept, AcceptedFromQuorum
<1>8. PublishHasCache'
  BY <1>2, <1>3 DEF QInv, PublishHasCache
<1>. QED  BY <1>5, <1>6, <1>7, <1>8 DEF QInv

------------------------------------------------------------------------------
(***************************************************************************)
(* The messages.                                                           *)
(***************************************************************************)
LEMMA FewerMessages ==
  ASSUME PublishedByQuorum, NEW m, msgs' = msgs \ {m} PROVE PublishedByQuorum'
BY DEF PublishedByQuorum

LEMMA RequestStep ==
  ASSUME QInv, NEW n \in Nodes, \/ OnNodeIDRequest(n) \/ OnGroupKeyRequest(n)
         \/ OnVote(n) \/ OnSignatureRequest(n)
  PROVE  QInv'
<1>1. PublishedByQuorum'
  BY ReplyNoBlocks DEF OnNodeIDRequest, OnGroupKeyRequest, OnVote, OnSignatureRequest, QInv
<1>2. UNCHANGED <<chain, genState, cache, sigs>>
  BY DEF OnNodeIDRequest, OnGroupKeyRequest, OnVote, OnSignatureRequest, chainVars, roundVars
<1>. QED  BY <1>1, <1>2, UntouchedWork

LEMMA ResponseStep ==
  ASSUME QInv, NEW n \in Nodes, OnNodeID(n) \/ OnGroupKey(n) \/ OnVoteResponse(n)
  PROVE  QInv'
<1>1. PublishedByQuorum'
  BY FewerMessages DEF OnNodeID, OnGroupKey, OnVoteResponse, TakeCall, QInv
<1>2. UNCHANGED <<chain, genState, cache, sigs>>
  BY DEF OnNodeID, OnGroupKey, OnVoteResponse, chainVars, roundVars
<1>. QED  BY <1>1, <1>2, UntouchedWork

\* A signature is kept only if it is one of the raw block being signed.
LEMMA OnSignatureStep == ASSUME QInv, NEW n \in Nodes, OnSignature(n) PROVE QInv'
<1>1. PICK m \in Responses(n, "Signature") :
         /\ TakeCall(n, m)
         /\ IF Useful(n, m.body)
            THEN LET new == m.body.signer \notin ringPool[n]
                 IN  /\ sigs' = [sigs EXCEPT ![n] = Append(@, m.body)]
                     /\ ringPool' = [ringPool EXCEPT ![n] = @ \cup {m.body.signer}]
                     /\ genState' = [genState EXCEPT ![n] =
                          IF new /\ AtLeastHalf(Len(sigs[n]) + 1) THEN "publish" ELSE @]
            ELSE UNCHANGED <<sigs, ringPool, genState>>
  BY DEF OnSignature
<1>2. UNCHANGED <<chain, cache>>
  BY DEF OnSignature, chainVars
<1>3. PublishedByQuorum'
  BY <1>1, FewerMessages DEF TakeCall, QInv
<1>4. CASE ~ Useful(n, m.body)
  BY <1>1, <1>2, <1>3, <1>4, UntouchedWork
<1>5. CASE Useful(n, m.body)
  <2> DEFINE g == IF m.body.signer \notin ringPool[n] /\ AtLeastHalf(Len(sigs[n]) + 1)
                  THEN "publish" ELSE genState[n]
  <2>1. /\ sigs' = [sigs EXCEPT ![n] = Append(sigs[n], m.body)]
        /\ genState' = [genState EXCEPT ![n] = g]
    BY <1>1, <1>5
  <2> HIDE DEF g
  <2>2. PICK S : chain \in [Nodes -> Seq(S)] /\ sigs \in [Nodes -> Seq(S)]
    BY DEF QInv, Shape
  <2>3. PICK T : genState \in [Nodes -> T] /\ cache \in [Nodes -> T]
    BY DEF QInv, Shape
  <2>4. Shape'
    <3> DEFINE U == S \cup {m.body}
    <3>1. \A k \in Nodes : chain[k] \in Seq(U) /\ sigs[k] \in Seq(U)
      BY <2>2
    <3>2. chain' \in [Nodes -> Seq(U)]
      BY <3>1, <2>2, <1>2
    <3>3. Append(sigs[n], m.body) \in Seq(U)
      BY <3>1
    <3>4. sigs' \in [Nodes -> Seq(U)]
      BY <3>1, <3>3, <2>1, <2>2
    <3> HIDE DEF U
    <3>5. genState' \in [Nodes -> T \cup {g}] /\ cache' \in [Nodes -> T \cup {g}]
      BY <2>1, <2>3, <1>2
    <3>6. \A k \in Nodes : Len(chain'[k]) > 0
      BY <1>2 DEF QInv, Shape
    <3>. QED  BY ONLY <3>2, <3>4, <3>5, <3>6 DEF Shape
  <2>5. Collected'
    <3> SUFFICES ASSUME NEW k \in Nodes PROVE WellSigned(cache'[k], sigs'[k])
      BY DEF Collected
    <3>1. CASE k # n
      BY <3>1, <2>1, <2>2, <1>2 DEF QInv, Collected
    <3>2. CASE k = n
      <4>1. WellSigned(cache[n], sigs[n])
        BY DEF QInv, Collected
      <4>2. sigs[n] \in Seq(S \cup {m.body}) /\ m.body \in S \cup {m.body}
        BY <2>2
      <4>3. WellSigned(cache[n], Append(sigs[n], m.body))
        BY <4>1, <4>2, <1>5, UsefulExtends DEF Useful
      <4>. QED  BY <4>3, <3>2, <2>1, <2>2, <1>2
    <3>. QED  BY <3>1, <3>2
  <2>6. PublishHasCache' /\ NothingKept'
    BY <2>1, <2>2, <2>3, <1>2, <1>5 DEF Useful, g, QInv, PublishHasCache, NothingKept
  <2>7. AcceptedFromQuorum'
    BY <1>2 DEF QInv, AcceptedFromQuorum
  <2>. QED  BY <2>4, <2>5, <2>6, <2>7, <1>3 DEF QInv
<1>. QED  BY <1>4, <1>5

\* A block enters a chain only out of a message, where it was signed by a
\* quorum; the work on the next block starts with no signature.
LEMMA OnPublishBlockStep == ASSUME QInv, NEW n \in Nodes, OnPublishBlock(n) PROVE QInv'
<1>1. PICK m \in Receive(n, "PublishBlock") :
         /\ msgs' = msgs \ {m}
         /\ UpdateVariables(n, m.body)
         /\ chain' = [chain EXCEPT ![n] = Append(@, m.body)]
  BY DEF OnPublishBlock
<1>2. SignedByQuorum(m.body)
  BY <1>1 DEF Receive, QInv, PublishedByQuorum
<1>3. /\ cache' = [cache EXCEPT ![n] = NoBlock]
      /\ sigs' = [sigs EXCEPT ![n] = <<>>]
      /\ genState' = [genState EXCEPT ![n] = "sign"]
  BY <1>1 DEF UpdateVariables, ResetRound
<1>4. PICK S : chain \in [Nodes -> Seq(S)] /\ sigs \in [Nodes -> Seq(S)]
  BY DEF QInv, Shape
<1>5. PICK T : genState \in [Nodes -> T] /\ cache \in [Nodes -> T]
  BY DEF QInv, Shape
<1> DEFINE b == m.body
           U == S \cup {b}
<1> HIDE DEF b
<1>6. chain' = [chain EXCEPT ![n] = Append(chain[n], b)]
  BY <1>1 DEF b
<1>7. \A k \in Nodes : chain[k] \in Seq(U) /\ sigs[k] \in Seq(U)
  BY <1>4
<1>8. /\ Append(chain[n], b) \in Seq(U)
      /\ Len(Append(chain[n], b)) = Len(chain[n]) + 1
      /\ \A i \in 1 .. Len(chain[n]) : Append(chain[n], b)[i] = chain[n][i]
      /\ Append(chain[n], b)[Len(chain[n]) + 1] = b
  BY <1>7
<1>9. Shape'
  <2>1. chain' \in [Nodes -> Seq(U)]
    BY <1>4, <1>6, <1>7, <1>8
  <2>2. sigs' \in [Nodes -> Seq(U)]
    BY <1>3, <1>4, <1>7
  <2>3. genState' \in [Nodes -> T \cup {"sign", NoBlock}] /\ cache' \in [Nodes -> T \cup {"sign", NoBlock}]
    BY <1>3, <1>5
  <2>4. \A k \in Nodes : Len(chain[k]) > 0 /\ Len(chain[k]) \in Nat
    BY <1>4 DEF QInv, Shape
  <2>5. \A k \in Nodes : Len(chain'[k]) > 0
    BY <2>4, <1>4, <1>6, <1>8
  <2> HIDE DEF U
  <2>. QED  BY ONLY <2>1, <2>2, <2>3, <2>5 DEF Shape
<1>10. Collected'
  BY <1>3, <1>4, <1>5, EmptyWellSigned DEF QInv, Collected
<1>11. PublishHasCache' /\ NothingKept'
  BY <1>3, <1>4, <1>5 DEF QInv, PublishHasCache, NothingKept
<1>12. PublishedByQuorum'
  BY <1>1, FewerMessages DEF QInv
<1>13. AcceptedFromQuorum'
  <2> SUFFICES ASSUME NEW k \in Nodes, NEW i \in 2 .. Len(chain'[k])
               PROVE  SignedByQuorum(chain'[k][i])
    BY DEF AcceptedFromQuorum
  <2>1. CASE k # n
    <3>1. chain'[k] = chain[k]
      BY <2>1, <1>4, <1>6
    <3>. QED  BY <3>1 DEF QInv, AcceptedFromQuorum
  <2>2. CASE k = n
    <3>1. chain'[k] = Append(chain[n], b) /\ Len(chain[n]) \in Nat
      BY <2>2, <1>4, <1>6
    <3>2. i \in 2 .. Len(chain[n]) \/ i = Len(chain[n]) + 1
      BY <3>1, <1>8
    <3>3. CASE i \in 2 .. Len(chain[n])
      <4>1. chain'[k][i] = chain[n][i]
        BY <3>1, <3>3, <1>8
      <4>. QED  BY <4>1, <3>3 DEF QInv, AcceptedFromQuorum
    <3>4. CASE i = Len(chain[n]) + 1
      <4>1. chain'[k][i] = b
        BY <3>1, <3>4, <1>8
      <4>. QED  BY <4>1, <1>2 DEF b
    <3>. QED  BY <3>2, <3>3, <3>4
  <2>. QED  BY <2>1, <2>2
<1>. QED  BY <1>9, <1>10, <1>11, <1>12, <1>13 DEF QInv

------------------------------------------------------------------------------
LEMMA QNext == QInv /\ [Next]_vars => QInv'
<1> SUFFICES ASSUME QInv, [Next]_vars PROVE QInv'
  OBVIOUS
<1>1. CASE Tick
  <2>1. UNCHANGED <<msgs, chain, genState, cache, sigs>>
    BY <1>1 DEF Tick, chainVars, roundVars
  <2>2. PublishedByQuorum'
    BY <2>1 DEF QInv, PublishedByQuorum
  <2>. QED  BY <2>1, <2>2, UntouchedWork
<1>2. ASSUME NEW n \in Nodes, Run(n) PROVE QInv'
  BY <1>2, RunIdleStep, RunOffDutyStep, RunSignStep, RunPublishStep, RunFinishStep DEF Run
<1>3. ASSUME NEW n \in Nodes, HandleRequest(n) PROVE QInv'
  BY <1>3, RequestStep, OnPublishBlockStep DEF HandleRequest
<1>4. ASSUME NEW n \in Nodes, HandleResponse(n) PROVE QInv'
  BY <1>4, ResponseStep, OnSignatureStep DEF HandleResponse
<1>5. CASE UNCHANGED vars
  <2>1. UNCHANGED <<msgs, chain, genState, cache, sigs>>
    BY <1>5 DEF vars, clusterVars, chainVars, roundVars
  <2>2. PublishedByQuorum'
    BY <2>1 DEF QInv, PublishedByQuorum
  <2>. QED  BY <2>1, <2>2, UntouchedWork
<1>. QED  BY <1>1, <1>2, <1>3, <1>4, <1>5 DEF Next

\* The invariant of the proof holds in every reachable state.
THEOREM QInvariant == Spec => []QInv
BY QInit, QNext, PTL DEF Spec

\* Every block that a node has accepted above the genesis block is signed,
\* over its own raw header, by more than half of the commissioners.
THEOREM Quorum == Spec => []QuorumSigned
<1>1. QInv => QuorumSigned
  <2> SUFFICES ASSUME QInv, NEW n \in Nodes, NEW i \in 2 .. Len(chain[n])
               PROVE  /\ WellSigned(chain[n][i].raw, chain[n][i].sigs)
                      /\ 2 * Cardinality(Signers(chain[n][i].sigs)) > Cardinality(Commissioners)
    BY DEF QuorumSigned
  <2>1. SignedByQuorum(chain[n][i])
    BY DEF QInv, AcceptedFromQuorum
  <2>. QED  BY <2>1, QuorumOfCommissioners DEF SignedByQuorum
<1>. QED  BY <1>1, QInvariant, PTL

\* Two nodes that hold different blocks at a height hold the signatures of
\* one commissioner over both: any two quorums share a signer.
THEOREM ForkEvidence == Spec => []ForkNeedsDoubleSigner
<1>1. QInv => ForkNeedsDoubleSigner
  <2> SUFFICES ASSUME QInv, NEW m \in Nodes, NEW n \in Nodes,
                      NEW i \in 2 .. Len(chain[m]), i <= Len(chain[n])
               PROVE  \E c \in Commissioners :
                        \E j \in DOMAIN chain[m][i].sigs, k \in DOMAIN chain[n][i].sigs :
                          /\ chain[m][i].sigs[j].signer = c
                          /\ chain[m][i].sigs[j].over = chain[m][i].raw
                          /\ chain[n][i].sigs[k].signer = c
                          /\ chain[n][i].sigs[k].over = chain[n][i].raw
    BY DEF ForkNeedsDoubleSigner
  <2>1. Len(chain[m]) \in Nat /\ Len(chain[n]) \in Nat
    BY DEF QInv, Shape
  <2>2. SignedByQuorum(chain[m][i]) /\ SignedByQuorum(chain[n][i])
    BY <2>1 DEF QInv, AcceptedFromQuorum
  <2> DEFINE a == chain[m][i]
             b == chain[n][i]
  <2> HIDE DEF a, b
  <2>3. SignedByQuorum(a) /\ SignedByQuorum(b)
    BY <2>2 DEF a, b
  <2>4. PICK c \in Commissioners : c \in Signers(a.sigs) /\ c \in Signers(b.sigs)
    BY <2>3, QuorumsShareSigner
  <2>5. PICK j \in DOMAIN a.sigs : a.sigs[j].signer = c
    BY <2>4 DEF Signers
  <2>6. PICK k \in DOMAIN b.sigs : b.sigs[k].signer = c
    BY <2>4 DEF Signers
  <2>7. a.sigs[j].over = a.raw /\ b.sigs[k].over = b.raw
    BY <2>3, <2>5, <2>6 DEF SignedByQuorum, WellSigned, ValidSignature
  <2>. QED  BY <2>5, <2>6, <2>7 DEF a, b
<1>. QED  BY <1>1, QInvariant, PTL

\* A node in its publish state has a raw block to publish, and the signatures
\* it keeps are those of that block.
THEOREM PublishSafe == Spec => []PublishHasBlock
<1>1. QInv => PublishHasBlock
  BY DEF QInv, Collected, PublishHasCache, PublishHasBlock
<1>. QED  BY <1>1, QInvariant, PTL
------------------------------------------------------------------------------
(***************************************************************************)
(* The latest signature, from which a block takes its time and the first   *)
(* butler on duty after it.                                                *)
(***************************************************************************)
LEMMA LatestIn ==
  ASSUME NEW s, IsList(s), Len(s) > 0, \A i \in DOMAIN s : s[i].ts \in Nat
  PROVE  Latest(s) \in DOMAIN s
<1> DEFINE D == 1 .. Len(s)
           Before(i, j) == s[i].ts >= s[j].ts /\ (s[i].ts = s[j].ts => i < j)
           Above(i) == {j \in D : Before(j, i)}
           T == {Above(i) : i \in D}
           R == StrictSubsetOrdering(D)
<1>1. Len(s) \in Nat /\ D = DOMAIN s /\ 1 \in D
  BY DEF IsList
<1>2. T \subseteq FiniteSubsetsOf(D) /\ T # {}
  <2>1. IsFiniteSet(D)
    BY <1>1, FS_Interval
  <2>2. \A i \in D : Above(i) \subseteq D
    OBVIOUS
  <2>3. \A i \in D : IsFiniteSet(Above(i))
    <3> HIDE DEF Above, D
    <3>. QED  BY <2>1, <2>2, FS_Subset
  <2> HIDE DEF Above, D
  <2>. QED  BY <1>1, <2>2, <2>3 DEF FiniteSubsetsOf
<1>3. PICK t \in T : \A u \in T : <<u, t>> \notin R
  <2> HIDE DEF T, R, D
  <2>1. IsWellFoundedOn(R, FiniteSubsetsOf(D))
    BY FS_StrictSubsetOrderingWellFounded DEF R
  <2>. QED  BY <1>2, <2>1, WFMin
<1>4. PICK i \in D : t = Above(i)
  OBVIOUS
<1>5. \A j \in D : s[j].ts \in Nat
  BY <1>1
<1>6. Above(i) = {}
  <2> SUFFICES ASSUME NEW j \in D, Before(j, i) PROVE FALSE
    OBVIOUS
  <2>1. ASSUME NEW k \in D, Before(k, j) PROVE Before(k, i)
    BY <2>1, <1>5
  <2>2. ~ Before(j, j)
    BY <1>5
  <2> HIDE DEF Before
  <2>3. Above(j) \subseteq Above(i) /\ j \in Above(i) /\ j \notin Above(j) /\ Above(i) \subseteq D
    BY <2>1, <2>2
  <2>4. <<Above(j), Above(i)>> \in R
    BY <2>3 DEF StrictSubsetOrdering
  <2>. QED  BY <1>3, <1>4, <2>4
<1>7. \A j \in D : s[j].ts <= s[i].ts /\ (j < i => s[j].ts < s[i].ts)
  <2>1. \A j \in D : ~ Before(j, i)
    <3> HIDE DEF Before
    <3>. QED  BY <1>6
  <2>. QED  BY <2>1, <1>5
<1> DEFINE First(k) == \A j \in DOMAIN s : s[j].ts <= s[k].ts /\ (j < k => s[j].ts < s[k].ts)
<1>8. \E k \in DOMAIN s : First(k)
  BY <1>1, <1>7
<1>9. Latest(s) = CHOOSE k \in DOMAIN s : First(k)
  BY DEF Latest
<1> HIDE DEF First, D
<1>. QED  BY <1>8, <1>9

\* A whole number of seconds, and the last one before t.
LEMMA WholeSeconds ==
  ASSUME NEW t \in Nat
  PROVE  /\ (t \div Sec) \in Nat
         /\ (t \div Sec) * Sec \in Nat
         /\ (t \div Sec) * Sec <= t
         /\ \A k \in Nat : k * Sec <= t => k * Sec <= (t \div Sec) * Sec
<1>1. Sec \in Nat /\ Sec > 0
  BY AmountsAssumption
<1> DEFINE q == t \div Sec
           r == t % Sec
<1>2. q \in Nat /\ r \in 0 .. Sec - 1 /\ t = Sec * q + r
  BY <1>1
<1> HIDE DEF q, r
<1>3. q * Sec \in Nat /\ q * Sec <= t /\ t < (q + 1) * Sec
  BY <1>1, <1>2
<1>4. ASSUME NEW k \in Nat, k * Sec <= t PROVE k * Sec <= q * Sec
  <2>1. CASE k <= q
    BY <2>1, <1>1, <1>2
  <2>2. CASE k >= q + 1
    <3>1. k * Sec >= (q + 1) * Sec
      BY <2>2, <1>1, <1>2
    <3>. QED  BY <3>1, <1>3, <1>4, <1>1, <1>2
  <2>. QED  BY <2>1, <2>2, <1>2
<1>. QED  BY <1>2, <1>3, <1>4 DEF q

\* The time and the first duty of a block come from one of its signatures.
LEMMA TeOfSignatures ==
  ASSUME NEW s, IsList(s), Len(s) > 0, \A i \in DOMAIN s : s[i].ts \in Nat
  PROVE  /\ Te(s) \in Nat
         /\ \E i \in DOMAIN s : /\ NextButler(s) = s[i].seed
                                /\ Te(s) = (s[i].ts \div Sec) * Sec
<1>1. Latest(s) \in DOMAIN s
  BY LatestIn
<1>2. Te(s) = (s[Latest(s)].ts \div Sec) * Sec /\ NextButler(s) = s[Latest(s)].seed
  BY DEF Te, NextButler
<1>3. s[Latest(s)].ts \in Nat
  BY <1>1
<1>. QED  BY <1>1, <1>2, <1>3, WholeSeconds

LEMMA MoreThanHalfSome == \A k \in Nat : MoreThanHalf(k) => k > 0
BY CommitteeFinite DEF MoreThanHalf

------------------------------------------------------------------------------
(***************************************************************************)
(* The types, by parts.  A request goes to a commissioner where only a     *)
(* commissioner can answer it, and a ballot comes from one.                *)
(***************************************************************************)
MessagesTyped == \A m \in msgs : IsMessage(m)

ChainTyped ==
  \A n \in Nodes : /\ Len(chain[n]) \in Nat \ {0}
                   /\ \A i \in 2 .. Len(chain[n]) : IsBlock(chain[n][i])

WorkTyped ==
  \A n \in Nodes : /\ cache[n] = NoBlock \/ IsRaw(cache[n])
                   /\ \A i \in DOMAIN sigs[n] : IsSignature(sigs[n][i])

CallsTyped == /\ DOMAIN calls = Nodes
              /\ \A n \in Nodes : \A c \in calls[n] : IsCall(c)

PostsTyped ==
  /\ startTime \in [Nodes -> Nat]
  /\ initDuty \in [Nodes -> 0 .. ButlerAmount - 1]
  /\ period \in [Nodes -> 0 .. NumBlocks - 1]
  /\ butlerNum \in [Nodes -> [0 .. ButlerAmount - 1 -> Nodes \cup {NoKey}]]
  /\ butlerList \in [Nodes -> SUBSET (Nodes \cup {NoKey})]

RoundTyped ==
  /\ pool \in [Nodes -> SUBSET Commissioners]
  /\ genState \in [Nodes -> {"sign", "publish", "finish"}]
  /\ ringPool \in [Nodes -> SUBSET Nodes]

PeersTyped ==
  /\ commIds \in [Nodes -> SUBSET Commissioners]
  /\ butlerIds \in [Nodes -> SUBSET Nodes]
  /\ groupKeys \in [Nodes -> SUBSET Commissioners]

TInv ==
  /\ now \in Nat
  /\ MessagesTyped /\ ChainTyped /\ WorkTyped /\ CallsTyped
  /\ PostsTyped /\ RoundTyped /\ PeersTyped

LEMMA TypeParts == TInv => TypeOK
BY DEF TInv, TypeOK, MessagesTyped, ChainTyped, WorkTyped, CallsTyped, PostsTyped,
   RoundTyped, PeersTyped

\* What the assumptions say of the amounts.
LEMMA Amounts ==
  /\ ButlerAmount \in Nat /\ ButlerAmount > 0 /\ VoteAmount \in Nat
  /\ Tcut \in Nat /\ Tcut > 0 /\ NumBlocks \in Nat /\ NumBlocks > 0
  /\ NoKey \notin Nodes /\ Commissioners \subseteq Nodes
BY AmountsAssumption, TimesAssumption, NodesAssumption DEF NoKey

\* An election fills its posts with nodes, or leaves them empty.
LEMMA ElectionTyped ==
  \A b : Election(b) \in [1 .. VoteAmount -> Nodes \cup {NoKey}]
<1> SUFFICES ASSUME NEW f PROVE BallotStatistic(f) \in [1 .. VoteAmount -> Nodes \cup {NoKey}]
  BY DEF Election
<1> DEFINE At(i) == {c \in Voted(f) : Cardinality({d \in Voted(f) : Beats(f, d, c)}) = i - 1}
           W(i) == IF At(i) = {} THEN NoKey ELSE CHOOSE c \in At(i) : TRUE
<1>1. ASSUME NEW i \in 1 .. VoteAmount PROVE W(i) \in Nodes \cup {NoKey}
  <2>1. At(i) \subseteq Nodes
    BY DEF Voted
  <2> HIDE DEF At
  <2>. QED  BY <2>1
<1>2. BallotStatistic(f) = [i \in 1 .. VoteAmount |-> W(i)]
  BY DEF BallotStatistic
<1> HIDE DEF W
<1>. QED  BY <1>1, <1>2

LEMMA TInit == Init => TInv
<1> SUFFICES ASSUME Init PROVE TInv
  OBVIOUS
<1>1. now \in Nat /\ MessagesTyped /\ CallsTyped
  BY DEF Init, MessagesTyped, CallsTyped
<1>2. ChainTyped
  <2>1. \A n \in Nodes : Len(chain[n]) = 1
    BY DEF Init
  <2>2. \A n \in Nodes : Len(chain[n]) \in Nat \ {0}
    BY <2>1
  <2>3. \A n \in Nodes : \A i \in 2 .. Len(chain[n]) : FALSE
    <3>1. 2 .. 1 = {}
      OBVIOUS
    <3>. QED  BY <2>1, <3>1
  <2>. QED  BY ONLY <2>2, <2>3 DEF ChainTyped
<1>3. WorkTyped /\ RoundTyped /\ PeersTyped
  BY DEF Init, WorkTyped, RoundTyped, PeersTyped
<1>4. PostsTyped
  <2>1. startTime \in [Nodes -> Nat] /\ initDuty \in [Nodes -> 0 .. ButlerAmount - 1]
    BY GenesisAssumption DEF Init
  <2>2. period \in [Nodes -> 0 .. NumBlocks - 1]
    <3>1. \A n \in Nodes : NextPeriod(StartPeriod[n]) \in 0 .. NumBlocks - 1
      <4>1. \A n \in Nodes : StartPeriod[n] + 1 \in Nat
        BY TimesAssumption
      <4>. QED  BY <4>1, Amounts DEF NextPeriod
    <3>. QED  BY <3>1 DEF Init
  <2>3. butlerNum \in [Nodes -> [0 .. ButlerAmount - 1 -> Nodes \cup {NoKey}]]
    <3>1. ASSUME NEW i \in 0 .. ButlerAmount - 1, i < VoteAmount PROVE GenesisVote[i + 1] \in Nodes \cup {NoKey}
      <4>1. i + 1 \in 1 .. VoteAmount
        BY <3>1, Amounts
      <4>. QED  BY <4>1, GenesisAssumption
    <3>. QED  BY <3>1 DEF Init
  <2>4. butlerList \in [Nodes -> SUBSET (Nodes \cup {NoKey})]
    BY GenesisAssumption DEF Init
  <2>. QED  BY <2>1, <2>2, <2>3, <2>4 DEF PostsTyped
<1>. QED  BY <1>1, <1>2, <1>3, <1>4 DEF TInv

------------------------------------------------------------------------------
(***************************************************************************)
(* Messages and calls.                                                     *)
(***************************************************************************)
WantsTyped(n, wanted) ==
  \A w \in wanted :
    /\ w.type \in {"NodeID", "GroupKey", "Vote", "Signature"}
    /\ w.to \in Nodes \cup {NoKey}
    /\ w.type = "GroupKey" => w.to \in Commissioners
    /\ w.type = "Vote" => n \in Commissioners /\ w.to \in Nodes
    /\ w.type = "Signature" => w.to \in Commissioners /\ IsRaw(w.body)

LEMMA VoteWantsTyped == ASSUME TInv, NEW n \in Nodes PROVE WantsTyped(n, VoteWants(n))
<1>1. \A i \in 0 .. ButlerAmount - 1 : butlerNum[n][i] \in Nodes \cup {NoKey}
  <2>1. butlerNum \in [Nodes -> [0 .. ButlerAmount - 1 -> Nodes \cup {NoKey}]]
    BY DEF TInv, PostsTyped
  <2>2. butlerNum[n] \in [0 .. ButlerAmount - 1 -> Nodes \cup {NoKey}]
    BY ONLY <2>1
  <2>. QED  BY ONLY <2>2
<1>2. butlerIds[n] \subseteq Nodes
  BY DEF TInv, PeersTyped
<1>3. \A w \in VoteWants(n) :
        /\ n \in Commissioners
        /\ w.to \in Nodes \cup {NoKey}
        /\ \/ w.type = "NodeID"
           \/ w.type = "Vote" /\ w.to \in butlerIds[n]
  <2> SUFFICES ASSUME NEW w \in VoteWants(n)
               PROVE  /\ n \in Commissioners
                      /\ w.to \in Nodes \cup {NoKey}
                      /\ w.type = "NodeID" \/ (w.type = "Vote" /\ w.to \in butlerIds[n])
    OBVIOUS
  <2>1. n \in Commissioners
    BY DEF VoteWants
  <2>2. PICK b \in {butlerNum[n][i] : i \in 0 .. ButlerAmount - 1} :
           w = IF b \in butlerIds[n] THEN Ask("Vote", b, BallotOf[n]) ELSE Ask("NodeID", b, NoBody)
    BY DEF VoteWants
  <2>. QED  BY <1>1, <2>1, <2>2 DEF Ask
<1>. QED  BY <1>2, <1>3 DEF WantsTyped

LEMMA SignWantsTyped ==
  ASSUME NEW n \in Nodes, NEW raw, IsRaw(raw) PROVE WantsTyped(n, SignWants(n, raw))
<1> SUFFICES ASSUME NEW w \in SignWants(n, raw)
             PROVE  /\ w.type \in {"NodeID", "GroupKey", "Signature"}
                    /\ w.to \in Commissioners
                    /\ w.type = "Signature" => w.body = raw
  BY Amounts DEF WantsTyped
<1>1. PICK i \in DOMAIN CommissionerList :
        \/ w = Ask("NodeID", CommissionerList[i], NoBody)
        \/ w = Ask("GroupKey", CommissionerList[i], NoBody)
        \/ w = Ask("Signature", CommissionerList[i], raw)
  BY DEF SignWants
<1>2. CommissionerList[i] \in Commissioners
  BY ListAssumption
<1>. QED  BY <1>1, <1>2 DEF Ask

LEMMA AllTyped ==
  ASSUME NEW n, NEW a, NEW b, WantsTyped(n, a), WantsTyped(n, b) PROVE WantsTyped(n, a \cup b)
BY DEF WantsTyped

LEMMA NewMsgsTyped ==
  ASSUME TInv, NEW n \in Nodes, NEW live, NEW wanted, WantsTyped(n, wanted)
  PROVE  \A m \in NewMsgs(n, live, wanted) : IsMessage(m)
<1> SUFFICES ASSUME NEW m \in NewMsgs(n, live, wanted) PROVE IsMessage(m)
  OBVIOUS
<1>1. PICK w \in wanted :
        m = [type |-> w.type, from |-> n, to |-> w.to, at |-> now, body |-> w.body]
  BY DEF NewMsgs
<1>2. m.type = w.type /\ m.from = n /\ m.to = w.to /\ m.at = now /\ m.body = w.body
  BY <1>1
<1>3. m.at \in Nat
  BY <1>2 DEF TInv
<1>. QED  BY <1>2, <1>3 DEF WantsTyped, IsMessage

LEMMA NewCallsTyped ==
  ASSUME TInv, NEW n \in Nodes, NEW wanted, WantsTyped(n, wanted)
  PROVE  \A c \in LiveCalls(n) \cup NewCalls(LiveCalls(n), wanted) : IsCall(c)
<1>1. \A c \in LiveCalls(n) : IsCall(c)
  BY DEF LiveCalls, TInv, CallsTyped
<1>2. ASSUME NEW c \in NewCalls(LiveCalls(n), wanted) PROVE IsCall(c)
  <2>1. PICK w \in wanted : c = [type |-> w.type, child |-> w.to, at |-> now]
    BY <1>2 DEF NewCalls
  <2>. QED  BY <2>1 DEF WantsTyped, IsCall, TInv
<1>. QED  BY <1>1, <1>2

\* What a pass sends and waits for.
LEMMA PassTyped ==
  ASSUME TInv, NEW n \in Nodes, NEW wanted, WantsTyped(n, wanted), Pass(n, wanted)
  PROVE  MessagesTyped' /\ CallsTyped'
<1> DEFINE all == VoteWants(n) \cup wanted
           kept == LiveCalls(n) \cup NewCalls(LiveCalls(n), all)
           sent == NewMsgs(n, LiveCalls(n), all)
<1>1. WantsTyped(n, all)
  BY VoteWantsTyped, AllTyped
<1>2. calls' = [calls EXCEPT ![n] = kept] /\ msgs' = msgs \cup sent
  BY DEF Pass
<1> HIDE DEF all
<1>3. \A c \in kept : IsCall(c)
  BY <1>1, NewCallsTyped
<1>4. \A m \in sent : IsMessage(m)
  BY <1>1, NewMsgsTyped
<1> HIDE DEF kept, sent
<1>. QED  BY <1>2, <1>3, <1>4 DEF TInv, MessagesTyped, CallsTyped

\* A request of one of the four types, at the node it was sent to.
LEMMA RequestIs ==
  ASSUME TInv, NEW n \in Nodes,
         NEW type \in {"NodeID", "GroupKey", "Vote", "Signature"}, NEW m \in Receive(n, type)
  PROVE  /\ m.type = type /\ m.to = n /\ m.at \in Nat /\ m.from \in Nodes /\ m \in msgs
         /\ type = "GroupKey" => n \in Commissioners
         /\ type = "Vote" => m.from \in Commissioners
         /\ type = "Signature" => n \in Commissioners /\ IsRaw(m.body)
<1>1. IsMessage(m) /\ m.type = type /\ m.to = n /\ m \in msgs
  BY DEF Receive, TInv, MessagesTyped
<1>. QED  BY <1>1, Amounts DEF IsMessage

LEMMA ReplyTyped ==
  ASSUME TInv, NEW n \in Nodes,
         NEW type \in {"NodeID", "GroupKey", "Vote", "Signature"}, NEW m \in Receive(n, type),
         NEW body, type = "Signature" => IsSignature(body) /\ body.signer = n, Reply(m, body)
  PROVE  MessagesTyped'
<1>1. /\ m.type = type /\ m.to = n /\ m.at \in Nat /\ m.from \in Nodes
      /\ type = "GroupKey" => n \in Commissioners
  BY RequestIs
<1>2. IsMessage(Answer(m, body))
  BY <1>1 DEF IsMessage, Answer
<1>. QED  BY <1>2 DEF Reply, TInv, MessagesTyped

\* An answer, at the node that waits for it.
LEMMA AnswerIs ==
  ASSUME TInv, NEW n \in Nodes, NEW type, NEW m \in Responses(n, type)
  PROVE  /\ m.from \in Nodes
         /\ type = "GroupKey" => m.from \in Commissioners
         /\ type = "Signature" => IsSignature(m.body) /\ m.body.signer = m.from
<1>1. IsMessage(m) /\ m.type = "Response" /\ m.re = type
  BY DEF Responses, Receive, TInv, MessagesTyped
<1>. QED  BY <1>1 DEF IsMessage

LEMMA TakeTyped ==
  ASSUME TInv, NEW n \in Nodes, NEW m, TakeCall(n, m) PROVE MessagesTyped' /\ CallsTyped'
BY DEF TakeCall, TInv, MessagesTyped, CallsTyped

------------------------------------------------------------------------------
(***************************************************************************)
(* The steps.                                                              *)
(***************************************************************************)
LEMMA GeneratedTyped ==
  ASSUME TInv, NEW n \in Nodes PROVE IsRaw(GeneratedBlock(n))
<1>1. Len(chain[n]) \in Nat \ {0} /\ pool[n] \subseteq Commissioners
      /\ now - startTime[n] \in Int
  BY DEF TInv, ChainTyped, RoundTyped, PostsTyped
<1>2. (now - startTime[n]) \div Tcut \in Int
  BY <1>1, Amounts
<1>3. Len(chain[n]) - 1 + 1 \in Nat
  BY <1>1
<1>. QED  BY <1>1, <1>2, <1>3 DEF GeneratedBlock, IsRaw, Height

LEMMA SealTyped ==
  ASSUME TInv, NEW raw, IsRaw(raw), NEW s, IsList(s), MoreThanHalf(Len(s)),
         \A i \in DOMAIN s : IsSignature(s[i])
  PROVE  IsBlock(Seal(raw, s))
<1>1. Len(s) > 0
  BY MoreThanHalfSome DEF IsList
<1>2. \A i \in DOMAIN s : s[i].ts \in Nat /\ s[i].seed \in 0 .. ButlerAmount - 1
  BY DEF IsSignature
<1>3. Te(s) \in Nat /\ NextButler(s) \in 0 .. ButlerAmount - 1
  BY <1>1, <1>2, TeOfSignatures
<1>. QED  BY <1>3 DEF Seal, IsBlock

LEMMA RunTypes == ASSUME QInv, TInv, NEW n \in Nodes, Run(n) PROVE TInv'
<1>0. WantsTyped(n, {})
  BY DEF WantsTyped
<1>s. PICK T : cache \in [Nodes -> T]
  BY DEF QInv, Shape
<1>q. PICK S : sigs \in [Nodes -> Seq(S)]
  BY DEF QInv, Shape
<1>1. CASE RunIdle(n)
  <2>1. MessagesTyped' /\ CallsTyped'
    BY <1>0, <1>1, PassTyped DEF RunIdle
  <2>2. UNCHANGED <<now, chainVars, roundVars, peerVars>>
    BY <1>1 DEF RunIdle
  <2>. QED  BY <2>1, <2>2 DEF TInv, ChainTyped, WorkTyped, PostsTyped, RoundTyped, PeersTyped,
              chainVars, roundVars, peerVars
<1>2. CASE RunOffDuty(n) \/ RunFinish(n)
  <2>1. MessagesTyped' /\ CallsTyped'
    BY <1>0, <1>2, PassTyped DEF RunOffDuty, RunFinish
  <2>2. /\ UNCHANGED <<now, chainVars, pool, ringPool, peerVars>>
        /\ genState' = [genState EXCEPT ![n] = "sign"] \/ UNCHANGED genState
        /\ cache' = [cache EXCEPT ![n] = NoBlock]
        /\ sigs' = [sigs EXCEPT ![n] = <<>>]
    BY <1>2 DEF RunOffDuty, RunFinish
  <2>3. WorkTyped'
    BY <2>2, <1>s, <1>q DEF TInv, WorkTyped
  <2>4. RoundTyped'
    BY <2>2 DEF TInv, RoundTyped
  <2>. QED  BY <2>1, <2>2, <2>3, <2>4 DEF TInv, ChainTyped, PostsTyped, PeersTyped,
              chainVars, peerVars
<1>3. CASE RunSign(n)
  <2> DEFINE raw == IF cache[n] = NoBlock THEN GeneratedBlock(n) ELSE cache[n]
             g == IF MoreThanHalf(Len(sigs[n])) THEN "publish" ELSE "sign"
  <2>1. /\ cache' = [cache EXCEPT ![n] = raw]
        /\ Pass(n, SignWants(n, raw))
        /\ genState' = [genState EXCEPT ![n] = g]
        /\ UNCHANGED <<now, chainVars, pool, sigs, ringPool, peerVars>>
    BY <1>3 DEF RunSign
  <2>2. IsRaw(raw)
    BY GeneratedTyped DEF TInv, WorkTyped
  <2>3. g \in {"sign", "publish", "finish"}
    OBVIOUS
  <2> HIDE DEF raw, g
  <2>4. MessagesTyped' /\ CallsTyped'
    BY <2>1, <2>2, SignWantsTyped, PassTyped
  <2>5. WorkTyped'
    BY <2>1, <2>2, <1>s DEF TInv, WorkTyped
  <2>6. RoundTyped'
    BY <2>1, <2>3 DEF TInv, RoundTyped
  <2>. QED  BY <2>1, <2>4, <2>5, <2>6 DEF TInv, ChainTyped, PostsTyped, PeersTyped,
              chainVars, peerVars
<1>4. CASE RunPublish(n)
  <2> DEFINE b == Seal(cache[n], sigs[n])
             kept == LiveCalls(n) \cup NewCalls(LiveCalls(n), VoteWants(n))
  <2>1. /\ calls' = [calls EXCEPT ![n] = kept]
        /\ msgs' = msgs \cup NewMsgs(n, LiveCalls(n), VoteWants(n)) \cup Publications(n, b)
        /\ genState[n] = "publish" /\ MoreThanHalf(Len(sigs[n]))
        /\ genState' = [genState EXCEPT ![n] = "finish"]
        /\ UNCHANGED <<now, chainVars, pool, cache, sigs, ringPool, peerVars>>
    BY <1>4 DEF RunPublish
  <2>2. IsBlock(b)
    <3>1. cache[n] # NoBlock
      BY <2>1 DEF QInv, PublishHasCache
    <3>2. IsRaw(cache[n]) /\ \A i \in DOMAIN sigs[n] : IsSignature(sigs[n][i])
      BY <3>1 DEF TInv, WorkTyped
    <3>3. IsList(sigs[n])
      BY <1>q DEF IsList
    <3>. QED  BY <2>1, <3>2, <3>3, SealTyped
  <2> HIDE DEF b
  <2>3. \A m \in Publications(n, b) : IsMessage(m)
    BY <2>2 DEF Publications, IsMessage, TInv
  <2>4. \A m \in NewMsgs(n, LiveCalls(n), VoteWants(n)) : IsMessage(m)
    BY VoteWantsTyped, NewMsgsTyped
  <2>5. \A c \in kept : IsCall(c)
    BY VoteWantsTyped, NewCallsTyped
  <2> HIDE DEF kept
  <2>6. MessagesTyped' /\ CallsTyped'
    BY <2>1, <2>3, <2>4, <2>5 DEF TInv, MessagesTyped, CallsTyped
  <2>7. WorkTyped' /\ RoundTyped'
    BY <2>1 DEF TInv, WorkTyped, RoundTyped
  <2>. QED  BY <2>1, <2>6, <2>7 DEF TInv, ChainTyped, PostsTyped, PeersTyped,
              chainVars, peerVars
<1>. QED  BY <1>1, <1>2, <1>3, <1>4 DEF Run

LEMMA AnsweredTypes ==
  ASSUME TInv, NEW n \in Nodes, \/ OnNodeIDRequest(n) \/ OnGroupKeyRequest(n)
         \/ OnVote(n) \/ OnSignatureRequest(n)
  PROVE  TInv'
<1>1. CASE OnNodeIDRequest(n) \/ OnGroupKeyRequest(n)
  <2>1. MessagesTyped'
    BY <1>1, ReplyTyped DEF OnNodeIDRequest, OnGroupKeyRequest
  <2>2. UNCHANGED <<now, chainVars, roundVars, peerVars, calls>>
    BY <1>1 DEF OnNodeIDRequest, OnGroupKeyRequest
  <2>. QED  BY <2>1, <2>2 DEF TInv, ChainTyped, WorkTyped, PostsTyped, RoundTyped, PeersTyped,
              CallsTyped, chainVars, roundVars, peerVars
<1>2. CASE OnVote(n)
  <2>1. PICK m \in Receive(n, "Vote") :
           Reply(m, NoBody) /\ pool' = [pool EXCEPT ![n] = @ \cup {m.from}]
    BY <1>2 DEF OnVote
  <2>2. MessagesTyped' /\ m.from \in Commissioners
    BY <2>1, RequestIs, ReplyTyped
  <2>3. UNCHANGED <<now, chainVars, genState, cache, sigs, ringPool, peerVars, calls>>
    BY <1>2 DEF OnVote
  <2>4. RoundTyped'
    BY <2>1, <2>2, <2>3 DEF TInv, RoundTyped
  <2>. QED  BY <2>2, <2>3, <2>4 DEF TInv, ChainTyped, WorkTyped, PostsTyped, PeersTyped,
              CallsTyped, chainVars, peerVars
<1>3. CASE OnSignatureRequest(n)
  <2>1. PICK m \in Receive(n, "Signature"), seed \in Seeds :
           Reply(m, [signer |-> n, over |-> m.body, ts |-> now, seed |-> seed])
    BY <1>3 DEF OnSignatureRequest
  <2> DEFINE s == [signer |-> n, over |-> m.body, ts |-> now, seed |-> seed]
  <2>2. IsSignature(s) /\ s.signer = n
    <3>1. IsRaw(m.body)
      BY <2>1, RequestIs
    <3>. QED  BY <3>1, TimesAssumption DEF IsSignature, TInv
  <2> HIDE DEF s
  <2>3. MessagesTyped'
    BY <2>1, <2>2, ReplyTyped DEF s
  <2>4. UNCHANGED <<now, chainVars, roundVars, peerVars, calls>>
    BY <1>3 DEF OnSignatureRequest
  <2>. QED  BY <2>3, <2>4 DEF TInv, ChainTyped, WorkTyped, PostsTyped, RoundTyped, PeersTyped,
              CallsTyped, chainVars, roundVars, peerVars
<1>. QED  BY <1>1, <1>2, <1>3

LEMMA AnswersTypes == ASSUME QInv, TInv, NEW n \in Nodes, HandleResponse(n) PROVE TInv'
<1>1. CASE OnNodeID(n) \/ OnGroupKey(n) \/ OnVoteResponse(n)
  <2>1. MessagesTyped' /\ CallsTyped'
    BY <1>1, TakeTyped DEF OnNodeID, OnGroupKey, OnVoteResponse
  <2>2. UNCHANGED <<now, chainVars, roundVars>>
    BY <1>1 DEF OnNodeID, OnGroupKey, OnVoteResponse
  <2>3. PeersTyped'
    <3>1. CASE OnNodeID(n)
      <4>1. PICK m \in Responses(n, "NodeID") :
              /\ commIds' = [commIds EXCEPT ![n] = @ \cup ({m.from} \cap Commissioners)]
              /\ butlerIds' = [butlerIds EXCEPT ![n] = @ \cup ({m.from} \cap butlerList[n])]
        BY <3>1 DEF OnNodeID
      <4>2. m.from \in Nodes /\ UNCHANGED groupKeys
        BY <3>1, AnswerIs DEF OnNodeID
      <4>. QED  BY <4>1, <4>2 DEF TInv, PeersTyped
    <3>2. CASE OnGroupKey(n)
      <4>1. PICK m \in Responses(n, "GroupKey") :
              groupKeys' = [groupKeys EXCEPT ![n] = @ \cup {m.from}]
        BY <3>2 DEF OnGroupKey
      <4>2. m.from \in Commissioners /\ UNCHANGED <<commIds, butlerIds>>
        BY <3>2, AnswerIs DEF OnGroupKey
      <4>. QED  BY <4>1, <4>2 DEF TInv, PeersTyped
    <3>3. CASE OnVoteResponse(n)
      BY <3>3 DEF OnVoteResponse, TInv, PeersTyped, peerVars
    <3>. QED  BY <1>1, <3>1, <3>2, <3>3
  <2>. QED  BY <2>1, <2>2, <2>3 DEF TInv, ChainTyped, WorkTyped, PostsTyped, RoundTyped,
              chainVars, roundVars
<1>2. CASE OnSignature(n)
  <2>1. PICK m \in Responses(n, "Signature") :
          /\ TakeCall(n, m)
          /\ IF Useful(n, m.body)
             THEN LET new == m.body.signer \notin ringPool[n]
                  IN  /\ sigs' = [sigs EXCEPT ![n] = Append(@, m.body)]
                      /\ ringPool' = [ringPool EXCEPT ![n] = @ \cup {m.body.signer}]
                      /\ genState' = [genState EXCEPT ![n] =
                           IF new /\ AtLeastHalf(Len(sigs[n]) + 1) THEN "publish" ELSE @]
             ELSE UNCHANGED <<sigs, ringPool, genState>>
    BY <1>2 DEF OnSignature
  <2>2. UNCHANGED <<now, chainVars, pool, cache, peerVars>>
    BY <1>2 DEF OnSignature
  <2>3. MessagesTyped' /\ CallsTyped'
    BY <2>1, TakeTyped
  <2>4. IsSignature(m.body) /\ m.body.signer \in Nodes
    BY AnswerIs DEF IsSignature
  <2>5. RoundTyped'
    BY <2>1, <2>2, <2>4 DEF TInv, RoundTyped
  <2>6. WorkTyped'
    <3>1. CASE ~ Useful(n, m.body)
      BY <2>1, <2>2, <3>1 DEF TInv, WorkTyped
    <3>2. CASE Useful(n, m.body)
      <4> DEFINE b == m.body
      <4>1. PICK S : sigs \in [Nodes -> Seq(S)]
        BY DEF QInv, Shape
      <4>2. sigs[n] \in Seq(S \cup {b}) /\ b \in S \cup {b}
        BY <4>1
      <4>3. sigs' = [sigs EXCEPT ![n] = Append(sigs[n], b)]
        BY <2>1, <3>2
      <4> HIDE DEF b
      <4>4. /\ DOMAIN Append(sigs[n], b) = 1 .. Len(sigs[n]) + 1
            /\ DOMAIN sigs[n] = 1 .. Len(sigs[n])
            /\ \A i \in 1 .. Len(sigs[n]) : Append(sigs[n], b)[i] = sigs[n][i]
            /\ Append(sigs[n], b)[Len(sigs[n]) + 1] = b
            /\ Len(sigs[n]) \in Nat
        BY <4>2
      <4>5. \A i \in DOMAIN Append(sigs[n], b) : IsSignature(Append(sigs[n], b)[i])
        <5>1. IsSignature(b)
          BY <2>4 DEF b
        <5>2. \A i \in 1 .. Len(sigs[n]) + 1 : i \in 1 .. Len(sigs[n]) \/ i = Len(sigs[n]) + 1
          BY <4>4
        <5>. QED  BY <4>4, <5>1, <5>2 DEF TInv, WorkTyped
      <4>. QED  BY <2>2, <4>1, <4>3, <4>5 DEF TInv, WorkTyped
    <3>. QED  BY <3>1, <3>2
  <2>. QED  BY <2>2, <2>3, <2>5, <2>6 DEF TInv, ChainTyped, PostsTyped, PeersTyped,
              chainVars, peerVars
<1>. QED  BY <1>1, <1>2 DEF HandleResponse

LEMMA AdoptTyped ==
  ASSUME TInv, NEW n \in Nodes, NEW b, IsBlock(b), AdoptBlock(n, b) PROVE PostsTyped'
<1>1. startTime' \in [Nodes -> Nat] /\ initDuty' \in [Nodes -> 0 .. ButlerAmount - 1]
  BY DEF AdoptBlock, IsBlock, TInv, PostsTyped
<1>2. period' \in [Nodes -> 0 .. NumBlocks - 1]
  <2>1. period[n] + 1 \in Nat
    BY DEF TInv, PostsTyped
  <2>2. NextPeriod(period[n]) \in 0 .. NumBlocks - 1
    BY <2>1, Amounts DEF NextPeriod
  <2>. QED  BY <2>2 DEF AdoptBlock, TInv, PostsTyped
<1>3. CASE b.raw.kind = "vote"
  <2> DEFINE won == Election(b)
             posts == [i \in 0 .. ButlerAmount - 1 |->
                         IF i < VoteAmount THEN won[i + 1] ELSE butlerNum[n][i]]
  <2>1. butlerNum' = [butlerNum EXCEPT ![n] = posts]
        /\ butlerList' = [butlerList EXCEPT ![n] = @ \cup Elected(b)]
    BY <1>3 DEF AdoptBlock
  <2>2. won \in [1 .. VoteAmount -> Nodes \cup {NoKey}]
    BY ElectionTyped
  <2>3. Elected(b) \subseteq Nodes \cup {NoKey}
    BY <2>2 DEF Elected
  <2> HIDE DEF won
  <2>4. posts \in [0 .. ButlerAmount - 1 -> Nodes \cup {NoKey}]
    <3>1. \A i \in 0 .. ButlerAmount - 1 : i < VoteAmount => i + 1 \in 1 .. VoteAmount
      BY Amounts
    <3>2. butlerNum[n] \in [0 .. ButlerAmount - 1 -> Nodes \cup {NoKey}]
      BY DEF TInv, PostsTyped
    <3>. QED  BY <2>2, <3>1, <3>2
  <2> HIDE DEF posts
  <2>. QED  BY <1>1, <1>2, <2>1, <2>3, <2>4 DEF TInv, PostsTyped
<1>4. CASE b.raw.kind # "vote"
  BY <1>1, <1>2, <1>4 DEF AdoptBlock, TInv, PostsTyped
<1>. QED  BY <1>3, <1>4

LEMMA AcceptTypes == ASSUME QInv, TInv, NEW n \in Nodes, OnPublishBlock(n) PROVE TInv'
<1>1. PICK m \in Receive(n, "PublishBlock") :
        /\ msgs' = msgs \ {m}
        /\ UpdateVariables(n, m.body)
        /\ chain' = [chain EXCEPT ![n] = Append(@, m.body)]
  BY DEF OnPublishBlock
<1>2. UNCHANGED <<now, peerVars, calls>>
  BY DEF OnPublishBlock
<1> DEFINE b == m.body
<1>3. IsBlock(b)
  <2>1. IsMessage(m) /\ m.type = "PublishBlock"
    BY DEF Receive, TInv, MessagesTyped
  <2>. QED  BY <2>1 DEF IsMessage
<1>4. MessagesTyped' /\ CallsTyped' /\ PeersTyped' /\ now' \in Nat
  BY <1>1, <1>2 DEF TInv, MessagesTyped, CallsTyped, PeersTyped, peerVars
<1>5. PostsTyped'
  BY <1>1, <1>3, AdoptTyped DEF UpdateVariables
<1>6. ResetRound(n)
  BY <1>1 DEF UpdateVariables
<1>7. RoundTyped'
  BY <1>6 DEF ResetRound, TInv, RoundTyped
<1>8. WorkTyped'
  <2>1. PICK S : sigs \in [Nodes -> Seq(S)]
    BY DEF QInv, Shape
  <2>2. PICK T : cache \in [Nodes -> T]
    BY DEF QInv, Shape
  <2>. QED  BY <1>6, <2>1, <2>2 DEF ResetRound, TInv, WorkTyped
<1>9. ChainTyped'
  <2>1. PICK S : chain \in [Nodes -> Seq(S)]
    BY DEF QInv, Shape
  <2> DEFINE ch == chain[n]
  <2>2. chain' = [chain EXCEPT ![n] = Append(ch, b)]
    BY <1>1
  <2> HIDE DEF b
  <2>3. ch \in Seq(S \cup {b}) /\ b \in S \cup {b}
    BY <2>1
  <2> HIDE DEF ch
  <2>4. /\ Len(Append(ch, b)) = Len(ch) + 1 /\ Len(ch) \in Nat
        /\ \A i \in 1 .. Len(ch) : Append(ch, b)[i] = ch[i]
        /\ Append(ch, b)[Len(ch) + 1] = b
    BY <2>3
  <2>5. \A i \in 2 .. Len(ch) + 1 : i \in 2 .. Len(ch) \/ i = Len(ch) + 1
    BY <2>4
  <2>6. \A i \in 2 .. Len(Append(ch, b)) : IsBlock(Append(ch, b)[i])
    <3>1. \A i \in 2 .. Len(ch) : IsBlock(ch[i])
      BY DEF TInv, ChainTyped, ch
    <3>. QED  BY <1>3, <2>4, <2>5, <3>1
  <2>7. Len(Append(ch, b)) \in Nat \ {0}
    BY <2>4
  <2>. QED  BY <2>1, <2>2, <2>6, <2>7 DEF TInv, ChainTyped
<1>. QED  BY <1>4, <1>5, <1>7, <1>8, <1>9 DEF TInv

LEMMA TNext == QInv /\ TInv /\ [Next]_vars => TInv'
<1> SUFFICES ASSUME QInv, TInv, [Next]_vars PROVE TInv'
  OBVIOUS
<1>1. CASE Tick \/ UNCHANGED vars
  <2>1. now' \in Nat
    BY <1>1 DEF Tick, vars, clusterVars, TInv
  <2>2. UNCHANGED <<msgs, chainVars, roundVars, peerVars, calls>>
    BY <1>1 DEF Tick, vars, clusterVars
  <2>. QED  BY <2>1, <2>2 DEF TInv, MessagesTyped, ChainTyped, WorkTyped, CallsTyped,
              PostsTyped, RoundTyped, PeersTyped, chainVars, roundVars, peerVars
<1>2. ASSUME NEW n \in Nodes, Run(n) PROVE TInv'
  BY <1>2, RunTypes
<1>3. ASSUME NEW n \in Nodes, HandleRequest(n) PROVE TInv'
  BY <1>3, AnsweredTypes, AcceptTypes DEF HandleRequest
<1>4. ASSUME NEW n \in Nodes, HandleResponse(n) PROVE TInv'
  BY <1>4, AnswersTypes
<1>. QED  BY <1>1, <1>2, <1>3, <1>4 DEF Next

\* The parts of the types together are inductive.
THEOREM TInvariant == Spec => []TInv
<1>1. Init => TInv
  BY TInit
<1>2. QInv /\ TInv /\ [Next]_vars => TInv'
  BY TNext
<1>. QED  BY <1>1, <1>2, QInvariant, PTL DEF Spec

\* In every reachable state every variable has its type: among others a
\* commissioner's key or signature comes from a commissioner, the period
\* counter stays below NumBlocks, and a post is a node's or empty.
THEOREM ConsensusTypes == Spec => []TypeOK
BY TypeParts, TInvariant, PTL
==============================================================================
