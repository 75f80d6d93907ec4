------------------------------ MODULE PoVBlocks ------------------------------
(***************************************************************************)
(* Blocks, signatures and ballots of the PoV protocol, and the functions   *)
(* POV.cc computes from them without touching the state of a node.         *)
(*                                                                         *)
(* A node, its account and its public key are one value, a positive number *)
(* (the code's NodeID).  The order of the numbers is also the order of the *)
(* public keys, which BallotStatistic uses to break ties.                  *)
(*                                                                         *)
(* A definition marked "mutant" is the definition below it with a plausible *)
(* mistake in it; the runs show that the properties notice the mistake.    *)
(*                                                                         *)
(* Signatures and hashes are perfect: a signature names the header it was  *)
(* made over, and a hash is an injective image of the header.              *)
(***************************************************************************)
EXTENDS Integers, Sequences, FiniteSets

CONSTANTS
  Nodes,          \* every node of the network, as NodeIDs
  Commissioners,  \* the committee that the genesis block fixed
  ButlerAmount,   \* number of butler posts
  VoteAmount,     \* entries of a ballot, and winners of an election
  Sec             \* clock ticks per second

ASSUME NodesAssumption ==
  /\ Nodes \subseteq Nat \ {0}
  /\ IsFiniteSet(Nodes)
  /\ Commissioners \subseteq Nodes

ASSUME AmountsAssumption ==
  /\ ButlerAmount \in Nat \ {0}
  /\ VoteAmount \in Nat
  /\ Sec \in Nat \ {0}

NoKey == 0        \* the empty public key, and the NodeID of an unknown node

(***************************************************************************)
(* The code compares a number of signatures or ballots with                *)
(* getCommissionerAmount()/2.0; the comparisons are made without division. *)
(***************************************************************************)
MoreThanHalfTruncated(k) == k >= Cardinality(Commissioners) \div 2   \* mutant

MoreThanHalf(k) == 2 * k > Cardinality(Commissioners)
AtLeastHalf(k)  == 2 * k >= Cardinality(Commissioners)

(***************************************************************************)
(* A signature [signer, over, ts, seed] is made over a raw header with its *)
(* Te set to the signer's clock ts.  ECDSA is randomised: seed stands for  *)
(* the last four bytes of the signature bytes, reduced modulo the number   *)
(* of posts, which is all that getNextButler reads of them.                *)
(***************************************************************************)
Signers(sigs) == {sigs[i].signer : i \in DOMAIN sigs}

\* The first signature whose timestamp no other one exceeds.
Latest(sigs) ==
  CHOOSE i \in DOMAIN sigs :
    \A j \in DOMAIN sigs : /\ sigs[j].ts <= sigs[i].ts
                           /\ j < i => sigs[j].ts < sigs[i].ts

NextButler(sigs) == sigs[Latest(sigs)].seed

TeRoundedUp(sigs) == ((sigs[Latest(sigs)].ts + Sec - 1) \div Sec) * Sec   \* mutant

\* The return type of getTe is uint32_t: the fraction of a second is lost.
Te(sigs) == (sigs[Latest(sigs)].ts \div Sec) * Sec

ValidSignature(raw, sig) ==
  /\ sig.over = raw
  /\ sig.signer \in Commissioners

(***************************************************************************)
(* A raw block [height, cycles, generator, prev, kind, ballots] is what    *)
(* the commissioners sign: kind is "vote" for the block that ends a        *)
(* period, which carries the ballots of the voters in ballots, and         *)
(* "normal" for the others.  A block adds the signatures and what follows  *)
(* from them; its hash covers the whole header, signatures included.       *)
(***************************************************************************)
HeaderHash(b) == <<"hash", b.raw, b.sigs, b.next, b.te>>

Seal(raw, sigs) ==
  [raw |-> raw, sigs |-> sigs, next |-> NextButler(sigs), te |-> Te(sigs)]

(***************************************************************************)
(* The validity of a block for a node whose chain is ch (the block of      *)
(* height h is ch[h + 1]).  The previous hash is compared only from height *)
(* 2 on, and neither the generator nor its duty is looked at outside the   *)
(* genesis phase.  Of a vote block the ballots are validated; the result   *)
(* is compared with the ballots by the addresses of two C strings, which   *)
(* always differ, so that the comparison never rejects a block.            *)
(***************************************************************************)
Height(ch) == Len(ch) - 1

ValidRawOfAnyHeight(ch, raw) ==   \* mutant
  /\ Height(ch) > 0 => raw.prev = HeaderHash(ch[Len(ch)])
  /\ raw.kind = "vote" => raw.ballots \subseteq Commissioners

ValidRaw(ch, raw) ==
  /\ raw.height = Height(ch) + 1
  /\ Height(ch) > 0 => raw.prev = HeaderHash(ch[Len(ch)])
  /\ raw.kind = "vote" => raw.ballots \subseteq Commissioners

ValidBlock(ch, b) ==
  /\ ValidRaw(ch, b.raw)
  /\ MoreThanHalf(Len(b.sigs))
  /\ \A i \in DOMAIN b.sigs : ValidSignature(b.raw, b.sigs[i])
  /\ b.next = NextButler(b.sigs)
  /\ b.te = Te(b.sigs)

(***************************************************************************)
(* The election.  ballots maps each voter to its list of candidates.  The  *)
(* i-th winner is the candidate that i - 1 others beat; when fewer than    *)
(* VoteAmount accounts got a vote the remaining places go to the empty key.*)
(***************************************************************************)
VotesFor(ballots, c) ==
  Cardinality({p \in (DOMAIN ballots) \X (1 .. VoteAmount) :
                 /\ p[2] \in DOMAIN ballots[p[1]]
                 /\ ballots[p[1]][p[2]] = c})

Beats(ballots, c, d) ==
  \/ VotesFor(ballots, c) > VotesFor(ballots, d)
  \/ VotesFor(ballots, c) = VotesFor(ballots, d) /\ c < d

Voted(ballots) == {c \in Nodes : VotesFor(ballots, c) > 0}

BallotStatistic(ballots) ==
  [i \in 1 .. VoteAmount |->
     LET at == {c \in Voted(ballots) :
                  Cardinality({d \in Voted(ballots) : Beats(ballots, d, c)}) = i - 1}
     IN  IF at = {} THEN NoKey ELSE CHOOSE c \in at : TRUE]
==============================================================================
