----------------------------- MODULE PoVSafety -------------------------------
(***************************************************************************)
(* What the normal phase of PoV promises.                                  *)
(***************************************************************************)
EXTENDS PoVConsensus

(***************************************************************************)
(* The types of the variables.  A previous hash is left untyped: it nests  *)
(* the whole chain below it.                                               *)
(***************************************************************************)
IsRaw(r) ==
  /\ r.height \in Nat
  /\ r.cycles \in Int
  /\ r.generator \in Nodes
  /\ r.kind \in {"vote", "normal"}
  /\ r.ballots \subseteq Commissioners

IsSignature(s) ==
  /\ s.signer \in Nodes
  /\ IsRaw(s.over)
  /\ s.ts \in Nat
  /\ s.seed \in 0 .. ButlerAmount - 1

IsBlock(b) ==
  /\ IsRaw(b.raw)
  /\ b.next \in 0 .. ButlerAmount - 1
  /\ b.te \in Nat

IsMessage(m) ==
  /\ m.at \in Nat
  /\ CASE m.type = "NodeID"       -> m.from \in Nodes
       [] m.type = "GroupKey"     -> m.from \in Nodes /\ m.to \in Commissioners
       [] m.type = "Vote"         -> m.from \in Commissioners /\ m.to \in Nodes
       [] m.type = "Signature"    -> m.from \in Nodes /\ m.to \in Commissioners /\ IsRaw(m.body)
       [] m.type = "PublishBlock" -> m.from \in Nodes /\ m.to \in Nodes /\ IsBlock(m.body)
       [] m.type = "Response"     ->
            /\ m.from \in Nodes /\ m.to \in Nodes
            /\ m.re = "GroupKey" => m.from \in Commissioners
            /\ m.re = "Signature" => IsSignature(m.body) /\ m.body.signer = m.from
       [] OTHER -> FALSE

IsCall(c) == /\ c.type \in {"NodeID", "GroupKey", "Vote", "Signature"}
             /\ c.child \in Nodes \cup {NoKey}
             /\ c.at \in Nat

TypeOK ==
  /\ now \in Nat
  /\ \A m \in msgs : IsMessage(m)
  /\ \A n \in Nodes :
       /\ Len(chain[n]) \in Nat \ {0}
       /\ \A i \in 2 .. Len(chain[n]) : IsBlock(chain[n][i])
       /\ cache[n] = NoBlock \/ IsRaw(cache[n])
       /\ \A i \in DOMAIN sigs[n] : IsSignature(sigs[n][i])
       /\ \A c \in calls[n] : IsCall(c)
  /\ startTime \in [Nodes -> Nat]
  /\ initDuty \in [Nodes -> 0 .. ButlerAmount - 1]
  /\ period \in [Nodes -> 0 .. NumBlocks - 1]
  /\ butlerNum \in [Nodes -> [0 .. ButlerAmount - 1 -> Nodes \cup {NoKey}]]
  /\ butlerList \in [Nodes -> SUBSET (Nodes \cup {NoKey})]
  /\ pool \in [Nodes -> SUBSET Commissioners]
  /\ genState \in [Nodes -> {"sign", "publish", "finish"}]
  /\ ringPool \in [Nodes -> SUBSET Nodes]
  /\ commIds \in [Nodes -> SUBSET Commissioners]
  /\ butlerIds \in [Nodes -> SUBSET Nodes]
  /\ groupKeys \in [Nodes -> SUBSET Commissioners]

------------------------------------------------------------------------------
(***************************************************************************)
(* Signatures and quorums.                                                 *)
(***************************************************************************)
WellSigned(raw, s) ==
  /\ \A i \in DOMAIN s : s[i].over = raw /\ s[i].signer \in Commissioners
  /\ \A i, j \in DOMAIN s : s[i].signer = s[j].signer => i = j

\* Every block above the genesis block that any node has accepted carries,
\* over that very raw header, signatures of more than half of the
\* commissioners, no commissioner counted twice.  validateBlock does not
\* look for duplicate signers: it rests on handleResponseBlockSignature,
\* and on late answers for a dropped block never being taken for the next.
QuorumSigned ==
  \A n \in Nodes : \A i \in 2 .. Len(chain[n]) :
    /\ WellSigned(chain[n][i].raw, chain[n][i].sigs)
    /\ 2 * Cardinality(Signers(chain[n][i].sigs)) > Cardinality(Commissioners)

\* When two nodes hold blocks of the same height built on different raw
\* blocks, some commissioner has signed both: the fork is never the work of
\* two disjoint halves of the committee.
ForkNeedsDoubleSigner ==
  \A m, n \in Nodes : \A i \in 2 .. Len(chain[m]) :
    i <= Len(chain[n]) =>
      \E c \in Commissioners : \E j \in DOMAIN chain[m][i].sigs, k \in DOMAIN chain[n][i].sigs :
        /\ chain[m][i].sigs[j].signer = c /\ chain[m][i].sigs[j].over = chain[m][i].raw
        /\ chain[n][i].sigs[k].signer = c /\ chain[n][i].sigs[k].over = chain[n][i].raw

\* Normal_GenerateBlock in its publish state dereferences cache_block: no
\* order of passes, answers and blocks leads there without a raw block, and
\* the signatures kept are always those of the raw block being signed.
PublishHasBlock ==
  \A n \in Nodes :
    /\ genState[n] = "publish" => cache[n] # NoBlock
    /\ WellSigned(cache[n], sigs[n])

------------------------------------------------------------------------------
(***************************************************************************)
(* The variables updateVariables derives, as a function of a chain.        *)
(***************************************************************************)
LastVote(ch) == CHOOSE i \in DOMAIN ch : /\ ch[i].raw.kind = "vote"
                                         /\ \A j \in i + 1 .. Len(ch) : ch[j].raw.kind # "vote"

PostsOf(ch) ==
  LET won == IF LastVote(ch) = 1 THEN GenesisVote ELSE Election(ch[LastVote(ch)])
  IN  [i \in 0 .. ButlerAmount - 1 |->
         IF i < VoteAmount THEN won[i + 1] ELSE NoKey]

DutyOf(ch, cycles) == PostsOf(ch)[(cycles + ch[Len(ch)].next) % ButlerAmount]

\* Whatever the interleaving, start_time, init_duty_butler_num, the period
\* counter and the posts are those of the node's own chain, so that two
\* nodes with the same last block compute the same butler on duty.
DerivedFromChain ==
  \A n \in Nodes :
    /\ startTime[n] = chain[n][Len(chain[n])].te
    /\ initDuty[n] = chain[n][Len(chain[n])].next
    /\ period[n] = Len(chain[n]) % NumBlocks
    /\ butlerNum[n] = PostsOf(chain[n])

\* A block on a chain was generated by the butler that the chain below it
\* puts on duty in the cycle the block names, although nobody who signs or
\* accepts a block checks its generator.
GeneratorWasOnDuty ==
  \A n \in Nodes : \A i \in 2 .. Len(chain[n]) :
    LET raw == chain[n][i].raw
    IN  raw.generator = DutyOf(SubSeq(chain[n], 1, i - 1), raw.cycles)

\* Each period ends in exactly one vote block, with ballots of at least half
\* of the commissioners; nobody who receives a block checks either.
VoteEndsPeriod ==
  \A n \in Nodes : \A i \in 2 .. Len(chain[n]) :
    LET raw == chain[n][i].raw
    IN  /\ raw.kind = "vote" <=> raw.height % NumBlocks = 0
        /\ raw.kind = "vote" => 2 * Cardinality(raw.ballots) >= Cardinality(Commissioners)

\* Accepted blocks link by hash down to the genesis block, also at height 1
\* where validateRawBlock does not compare the hash.
HashLinked ==
  \A n \in Nodes : \A i \in 2 .. Len(chain[n]) :
    /\ chain[n][i].raw.height = i - 1
    /\ chain[n][i].raw.prev = HeaderHash(chain[n][i - 1])

\* Publication times never decrease along a chain and never lie ahead of the
\* clock, so that (now - start_time)/Tcut is not negative when it is added
\* to the unsigned duty number.
TimesOrdered ==
  \A n \in Nodes :
    /\ startTime[n] <= now
    /\ \A i \in 2 .. Len(chain[n]) : chain[n][i - 1].te <= chain[n][i].te
==============================================================================
