------------------------------ MODULE PoVGenesis -------------------------------
(***************************************************************************)
(* The genesis phase of PoV (consensus/POV.cc, state generate_first_block):*)
(* every node asks the configured commissioners for their keys; the        *)
(* commissioners apply for their posts at the agent among them; a butler   *)
(* candidate gets a letter from one commissioner, signatures of the letter *)
(* from all, and applies at all; a commissioner that has registered every  *)
(* candidate votes; and the agent builds the genesis block, has it signed  *)
(* by all and publishes it, once.                                          *)
(*                                                                         *)
(* Keys are configured, so that a node keeps its key when it restarts.     *)
(* A request that is repeated until it is answered and whose answer adds   *)
(* one fact is one action with its answer: not taking the action is losing *)
(* either.  Where the request changes its receiver, the answer may be lost *)
(* by itself (answered); where the sender may have moved on when the       *)
(* answer comes, request and answer are actions of their own.              *)
(***************************************************************************)
EXTENDS Integers, Sequences, SequencesExt, FiniteSets

CONSTANTS
  Commissioners,   \* Initial_Commissioner_Nodes
  Candidates,      \* Initial_Butler_Candidate_Nodes
  AgentCommissioner,
  Nobody,          \* no commissioner: there is no letter
  MayRestart,      \* bound of the model: the nodes that may restart
  MaxRestarts      \* bound of the model: number of restarts

ASSUME GenesisAssumption ==
  /\ IsFiniteSet(Commissioners) /\ IsFiniteSet(Candidates)
  /\ AgentCommissioner \in Commissioners /\ Nobody \notin Commissioners
  /\ MayRestart \subseteq Commissioners \cup Candidates /\ MaxRestarts \in Nat

Nodes == Commissioners \cup Candidates

VARIABLES
  state,     \* "sync", "first" (generate_first_block) or "normal"
  known,     \* commissioner_list: whose keys the node has
  applied,   \* gegenerate_first_bolck_apply_commissioner_state
  appliedBy, \* Apply_Commissioner_Signatures: the signers
  stage,     \* generate_first_bolck_apply_butler_candidate_state
  letter,    \* RecommendationLetter: the commissioner that wrote it
  sigs,      \* Apply_Butler_Candidate_Signatures: the signers
  asked,     \* requests for signatures that wait for an answer: <<signer, writer>>
  apps,      \* applications of candidates on their way
  acks,      \* candidates an answer to their application is on its way to
  pool,      \* ApplyButlerCandidatePool, and the candidates of AccountManager
  voted,     \* GenerateFirstBlock_vote = Vote_finish
  commPool,  \* ApplyCommissionerPool of the agent: applicant and signers
  ballots,   \* BallotPool of the agent: the voters
  genState,  \* GenerateFirstBlock of the agent
  cache,     \* cache_block of the agent
  blockSigs, \* raw_block_signatures of the agent: the signers
  published, \* the genesis blocks sent to all, with their signers
  inbox,     \* nodes such a block is on its way to
  genesis,   \* the nodes that have the genesis block
  vouched,   \* history: <<commissioner, candidate, writer>>, letters signed
  restarts   \* history: the nodes that restarted, one entry per restart

candidateVars == <<stage, letter, sigs, asked, apps, acks>>
applyVars == <<applied, appliedBy, commPool>>
agentVars == <<genState, cache, blockSigs, published>>
vars == <<state, known, applyVars, candidateVars, pool, voted, ballots, agentVars,
          inbox, genesis, vouched, restarts>>

NoBlock == [applicants |-> {}, candidates |-> {}, voters |-> {}]

------------------------------------------------------------------------------
(***************************************************************************)
(* What a node checks with the keys it has.                                *)
(***************************************************************************)
\* getCommissionerAmount
Amount(n) == Cardinality(known[n])

\* have_all_commissoner_pubkey
HaveAll(n) == state[n] = "first" /\ known[n] = Commissioners

\* The rounded-down first half of the signatures gathered.
FirstHalf(s) == {s[i] : i \in 1 .. Len(s) \div 2}

\* In the normal phase a registered candidate is refused a second letter.
ValidLetter(n, d, writer) ==
  writer \in known[n] /\ (state[n] = "first" \/ ~ \E e \in pool[n] : e.who = d)

ValidApplication(n, a) ==
  /\ ValidLetter(n, a.who, a.letter)
  /\ a.signers # {} /\ a.signers \subseteq known[n]

ValidApply(n, a) == a.signers \subseteq known[n] /\ a.who \in known[n]

\* validateRawBlock before there is a block: the height is that of the next one.
ValidRaw(n, b) ==
  /\ state[n] = "first" /\ n \notin genesis
  /\ \A a \in b.applicants : ValidApply(n, a)
  /\ \A a \in b.candidates : ValidApplication(n, a)
  /\ b.voters \subseteq known[n]
  /\ AgentCommissioner \in known[n]

ValidBlock(n, b, signers) ==
  /\ ValidRaw(n, b)
  /\ 2 * Cardinality(signers) > Amount(n)
  /\ signers \subseteq known[n]

------------------------------------------------------------------------------
(***************************************************************************)
(* Start, keys and the posts of the commissioners.                         *)
(***************************************************************************)
\* No peer reported a block before the wait was over.
EndSync(n) ==
  /\ state[n] = "sync"
  /\ state' = [state EXCEPT ![n] = "first"]
  /\ UNCHANGED <<known, applyVars, candidateVars, pool, voted, ballots, agentVars,
                 inbox, genesis, vouched, restarts>>

\* A node that starts late fetches the genesis block of a peer (PoVSync).
FetchGenesis(n) ==
  /\ state[n] = "sync" /\ genesis # {}
  /\ state' = [state EXCEPT ![n] = "normal"]
  /\ genesis' = genesis \cup {n}
  /\ UNCHANGED <<known, applyVars, candidateVars, pool, voted, ballots, agentVars,
                 inbox, vouched, restarts>>

LearnKey(n, c) ==
  /\ state[n] = "first" /\ c \notin known[n]
  /\ known' = [known EXCEPT ![n] = @ \cup {c}]
  /\ UNCHANGED <<state, applyVars, candidateVars, pool, voted, ballots, agentVars,
                 inbox, genesis, vouched, restarts>>

\* Every process signs an application, whatever its state.
SignApplication(c, by) ==
  /\ HaveAll(c) /\ applied[c] = "signatures" /\ by \notin appliedBy[c]
  /\ appliedBy' = [appliedBy EXCEPT ![c] = @ \cup {by}]
  /\ applied' = [applied EXCEPT ![c] =
                   IF Cardinality(appliedBy'[c]) >= Amount(c) THEN "final" ELSE @]
  /\ UNCHANGED <<state, known, commPool, candidateVars, pool, voted, ballots, agentVars,
                 inbox, genesis, vouched, restarts>>

TakeApplicationAnswersAlways(c, answered) ==   \* mutant
  LET a == [who |-> c, signers |-> appliedBy[c]]
  IN  /\ HaveAll(c) /\ applied[c] = "final"
      /\ state[AgentCommissioner] = "first"
      /\ commPool' = IF ~ ValidApply(AgentCommissioner, a) THEN commPool ELSE commPool \cup {a}
      /\ applied' = [applied EXCEPT ![c] = IF answered THEN "finish" ELSE @]
      /\ UNCHANGED <<state, known, appliedBy, candidateVars, pool, voted, ballots, agentVars,
                     inbox, genesis, vouched, restarts>>

\* The agent keeps one application of each commissioner, and answers each that
\* it finds valid.
TakeApplication(c, answered) ==
  LET a == [who |-> c, signers |-> appliedBy[c]]
  IN  /\ HaveAll(c) /\ applied[c] = "final"
      /\ state[AgentCommissioner] = "first" /\ ValidApply(AgentCommissioner, a)
      /\ commPool' = IF \E e \in commPool : e.who = c THEN commPool ELSE commPool \cup {a}
      /\ applied' = [applied EXCEPT ![c] = IF answered THEN "finish" ELSE @]
      /\ UNCHANGED <<state, known, appliedBy, candidateVars, pool, voted, ballots, agentVars,
                     inbox, genesis, vouched, restarts>>

------------------------------------------------------------------------------
(***************************************************************************)
(* Butler candidates.                                                      *)
(***************************************************************************)
GetLetter(d, writer) ==
  /\ HaveAll(d) /\ stage[d] = "letter"
  /\ letter' = [letter EXCEPT ![d] = writer]
  /\ stage' = [stage EXCEPT ![d] = "signatures"]
  /\ UNCHANGED <<state, known, applyVars, sigs, asked, apps, acks, pool, voted, ballots,
                 agentVars, inbox, genesis, vouched, restarts>>

\* A pass asks every commissioner of whom no answer is awaited, those that
\* have signed already among them.
AskSignatures(d) ==
  /\ HaveAll(d) /\ stage[d] = "signatures"
  /\ asked' = [asked EXCEPT ![d] = @ \cup known[d] \X {letter[d]}]
  /\ asked' # asked
  /\ UNCHANGED <<state, known, applyVars, stage, letter, sigs, apps, acks, pool, voted,
                 ballots, agentVars, inbox, genesis, vouched, restarts>>

\* generate_first_block wants all signatures at once.
Enough(d, n) == n = Amount(d)

OnCandidateSignatureTwice(d, c, w) ==   \* mutant
  /\ <<c, w>> \in asked[d] /\ ValidLetter(c, d, w)
  /\ asked' = [asked EXCEPT ![d] = @ \ {<<c, w>>}]
  /\ vouched' = vouched \cup {<<c, d, w>>}
  /\ sigs' = [sigs EXCEPT ![d] = Append(@, c)]
  /\ stage' = [stage EXCEPT ![d] =
                 IF state[d] = "first" /\ Enough(d, Len(sigs'[d])) THEN "final" ELSE @]
  /\ UNCHANGED <<state, known, applyVars, letter, apps, acks, pool, voted, ballots,
                 agentVars, inbox, genesis, restarts>>

OnCandidateSignatureResets(d, c, w) ==   \* mutant
  /\ <<c, w>> \in asked[d] /\ ValidLetter(c, d, w)
  /\ asked' = [asked EXCEPT ![d] = @ \ {<<c, w>>}]
  /\ vouched' = vouched \cup {<<c, d, w>>}
  /\ sigs' = [sigs EXCEPT ![d] = IF c \in Range(@) THEN @ ELSE Append(@, c)]
  /\ stage' = [stage EXCEPT ![d] = IF Enough(d, Len(sigs'[d])) THEN "final" ELSE "signatures"]
  /\ UNCHANGED <<state, known, applyVars, letter, apps, acks, pool, voted, ballots,
                 agentVars, inbox, genesis, restarts>>

\* Commissioner c signs the letter it was asked about, that of w.  The answer is
\* kept even when d has finished and has no letter any more.
OnCandidateSignature(d, c, w) ==
  /\ <<c, w>> \in asked[d] /\ ValidLetter(c, d, w)
  /\ asked' = [asked EXCEPT ![d] = @ \ {<<c, w>>}]
  /\ vouched' = vouched \cup {<<c, d, w>>}
  /\ sigs' = [sigs EXCEPT ![d] = IF c \in Range(@) THEN @ ELSE Append(@, c)]
  /\ stage' = [stage EXCEPT ![d] =
                 IF state[d] = "first" /\ sigs'[d] # sigs[d] /\ Enough(d, Len(sigs'[d]))
                 THEN "final" ELSE @]
  /\ UNCHANGED <<state, known, applyVars, letter, apps, acks, pool, voted, ballots,
                 agentVars, inbox, genesis, restarts>>

\* Tells the processes of a node apart: an answer to another one finds no callback.
Life(n) == Cardinality({i \in DOMAIN restarts : restarts[i] = n})

SendApplications(d) ==
  LET a == [who |-> d, letter |-> letter[d], signers |-> FirstHalf(sigs[d])]
  IN  /\ HaveAll(d) /\ stage[d] = "final"
      /\ apps' = apps \cup {<<c, a, Life(d)>> : c \in known[d]}
      /\ UNCHANGED <<state, known, applyVars, stage, letter, sigs, asked, acks, pool,
                     voted, ballots, agentVars, inbox, genesis, vouched, restarts>>

\* A commissioner that lacks the key of the writer or of a signer does not answer.
OnApplication(c, a, life) ==
  /\ <<c, a, life>> \in apps
  /\ apps' = apps \ {<<c, a, life>>}
  /\ IF state[c] = "first" /\ ValidApplication(c, a)
     THEN /\ pool' = [pool EXCEPT ![c] =
                        IF \E e \in @ : e.who = a.who THEN @ ELSE @ \cup {a}]
          /\ acks' = IF life = Life(a.who) THEN acks \cup {a.who} ELSE acks
     ELSE UNCHANGED <<pool, acks>>
  /\ UNCHANGED <<state, known, applyVars, stage, letter, sigs, asked, voted, ballots,
                 agentVars, inbox, genesis, vouched, restarts>>

\* The first answer ends the application, whoever has not answered.
OnApplicationAnswer(d) ==
  /\ d \in acks /\ state[d] = "first"
  /\ acks' = acks \ {d}
  /\ letter' = [letter EXCEPT ![d] = Nobody]
  /\ sigs' = [sigs EXCEPT ![d] = <<>>]
  /\ stage' = [stage EXCEPT ![d] = "finish"]
  /\ UNCHANGED <<state, known, applyVars, asked, apps, pool, voted, ballots, agentVars,
                 inbox, genesis, vouched, restarts>>

------------------------------------------------------------------------------
(***************************************************************************)
(* Ballots and the genesis block.                                          *)
(***************************************************************************)
Registered(c) == {e.who : e \in pool[c]}

Vote(c, answered) ==
  /\ c \in Commissioners /\ HaveAll(c) /\ ~ voted[c]
  /\ Cardinality(pool[c]) = Cardinality(Candidates)
  /\ state[AgentCommissioner] = "first" /\ c \in known[AgentCommissioner]
  /\ ballots' = ballots \cup {c}
  /\ voted' = [voted EXCEPT ![c] = answered]
  /\ UNCHANGED <<state, known, applyVars, candidateVars, pool, agentVars, inbox, genesis,
                 vouched, restarts>>

\* The block is made once; its transactions are the pools of that moment.
GenerateFirstBlock ==
  LET ag == AgentCommissioner
  IN  /\ HaveAll(ag) /\ genState = "sign" /\ cache = NoBlock
      /\ Cardinality(commPool) >= Cardinality(Commissioners)
      /\ Cardinality(pool[ag]) >= Cardinality(Candidates)
      /\ Cardinality(ballots) >= Cardinality(Commissioners)
      /\ cache' = [applicants |-> commPool, candidates |-> pool[ag], voters |-> ballots]
      /\ UNCHANGED <<state, known, applyVars, candidateVars, pool, voted, ballots, genState,
                     blockSigs, published, inbox, genesis, vouched, restarts>>

PublishesAt(n) == n >= Amount(AgentCommissioner) - 1   \* mutant

AllSigned(n) == n = Amount(AgentCommissioner)

\* Commissioner c signs the block, and the agent counts it.
SignBlock(c) ==
  LET ag == AgentCommissioner
  IN  /\ state[ag] = "first" /\ cache # NoBlock /\ c \in known[ag] \ blockSigs
      /\ ValidRaw(c, cache)
      /\ blockSigs' = blockSigs \cup {c}
      /\ genState' = IF AllSigned(Cardinality(blockSigs')) THEN "publish" ELSE genState
      /\ UNCHANGED <<state, known, applyVars, candidateVars, pool, voted, ballots, cache,
                     published, inbox, genesis, vouched, restarts>>

\* The block is sent once to every node.
PublishFirstBlock ==
  /\ HaveAll(AgentCommissioner) /\ genState = "publish"
  /\ AllSigned(Cardinality(blockSigs))
  /\ published' = published \cup {[block |-> cache, signers |-> blockSigs]}
  /\ inbox' = Nodes
  /\ genState' = "finish"
  /\ UNCHANGED <<state, known, applyVars, candidateVars, pool, voted, ballots, cache,
                 blockSigs, genesis, vouched, restarts>>

\* The pass after the one that published, if the agent makes it before it
\* takes the block itself.
FinishPass ==
  /\ HaveAll(AgentCommissioner) /\ genState = "finish" /\ cache # NoBlock
  /\ cache' = NoBlock /\ blockSigs' = {}
  /\ UNCHANGED <<state, known, applyVars, candidateVars, pool, voted, ballots, genState,
                 published, inbox, genesis, vouched, restarts>>

OnPublishBlock(n) ==
  /\ n \in inbox
  /\ inbox' = inbox \ {n}
  /\ IF \E p \in published : ValidBlock(n, p.block, p.signers)
     THEN genesis' = genesis \cup {n} /\ state' = [state EXCEPT ![n] = "normal"]
     ELSE UNCHANGED <<genesis, state>>
  /\ UNCHANGED <<known, applyVars, candidateVars, pool, voted, ballots, agentVars, vouched,
                 restarts>>

------------------------------------------------------------------------------
(***************************************************************************)
(* A process that has no block yet ends and starts again.  What others     *)
(* sent to it, or it to others, may still arrive; answers to the requests  *)
(* of the old process find no callback in the new one.                     *)
(***************************************************************************)
Restart(n) ==
  /\ n \in MayRestart \ genesis /\ Len(restarts) < MaxRestarts
  /\ restarts' = Append(restarts, n)
  /\ state' = [state EXCEPT ![n] = "sync"]
  /\ known' = [known EXCEPT ![n] = {}]
  /\ applied' = [applied EXCEPT ![n] = "signatures"]
  /\ appliedBy' = [appliedBy EXCEPT ![n] = {}]
  /\ stage' = [stage EXCEPT ![n] = "letter"]
  /\ letter' = [letter EXCEPT ![n] = Nobody]
  /\ sigs' = [sigs EXCEPT ![n] = <<>>]
  /\ asked' = [asked EXCEPT ![n] = {}]
  /\ acks' = acks \ {n}
  /\ pool' = [pool EXCEPT ![n] = {}]
  /\ voted' = [voted EXCEPT ![n] = FALSE]
  /\ IF n = AgentCommissioner
     THEN /\ commPool' = {} /\ ballots' = {} /\ genState' = "sign"
          /\ cache' = NoBlock /\ blockSigs' = {}
     ELSE UNCHANGED <<commPool, ballots, genState, cache, blockSigs>>
  /\ UNCHANGED <<apps, published, inbox, genesis, vouched>>

Init ==
  /\ state = [n \in Nodes |-> "sync"]
  /\ known = [n \in Nodes |-> {}]
  /\ applied = [n \in Nodes |-> "signatures"]
  /\ appliedBy = [n \in Nodes |-> {}]
  /\ stage = [n \in Nodes |-> "letter"]
  /\ letter = [n \in Nodes |-> Nobody]
  /\ sigs = [n \in Nodes |-> <<>>]
  /\ asked = [n \in Nodes |-> {}]
  /\ apps = {} /\ acks = {}
  /\ pool = [n \in Nodes |-> {}]
  /\ voted = [n \in Nodes |-> FALSE]
  /\ commPool = {} /\ ballots = {}
  /\ genState = "sign" /\ cache = NoBlock /\ blockSigs = {}
  /\ published = {} /\ inbox = {} /\ genesis = {}
  /\ vouched = {} /\ restarts = <<>>

Agent ==
  GenerateFirstBlock \/ PublishFirstBlock \/ FinishPass \/ \E c \in Commissioners : SignBlock(c)

Commissioner(c) ==
  \/ \E by \in Commissioners : SignApplication(c, by)
  \/ \E answered \in BOOLEAN : TakeApplication(c, answered)
  \/ \E answered \in BOOLEAN : Vote(c, answered)
  \/ \E m \in apps : m[1] = c /\ OnApplication(c, m[2], m[3])

Candidate(d) ==
  \/ \E c \in Commissioners : GetLetter(d, c)
  \/ AskSignatures(d)
  \/ \E r \in asked[d] : OnCandidateSignature(d, r[1], r[2])
  \/ SendApplications(d)
  \/ OnApplicationAnswer(d)

Node(n) ==
  EndSync(n) \/ FetchGenesis(n) \/ OnPublishBlock(n) \/ \E c \in Commissioners : LearnKey(n, c)

Next ==
  \/ \E n \in Nodes : Node(n) \/ Restart(n)
  \/ \E c \in Commissioners : Commissioner(c)
  \/ \E d \in Candidates : Candidate(d)
  \/ Agent

Spec == Init /\ [][Next]_vars

(***************************************************************************)
(* run is called every 10 ms, and an unanswered request is repeated: what  *)
(* can be done for good is done.  The block is sent once, so that its      *)
(* delivery is an assumption about the network.                            *)
(***************************************************************************)
Fairness ==
  /\ \A n \in Nodes : /\ WF_vars(EndSync(n)) /\ WF_vars(OnPublishBlock(n))
                      /\ \A c \in Commissioners : WF_vars(LearnKey(n, c))
  /\ \A c \in Commissioners : /\ \A by \in Commissioners : WF_vars(SignApplication(c, by))
                              /\ WF_vars(TakeApplication(c, TRUE)) /\ WF_vars(Vote(c, TRUE))
                              /\ WF_vars(SignBlock(c))
  /\ WF_vars(GenerateFirstBlock) /\ WF_vars(PublishFirstBlock)

FairSpec == Spec /\ Fairness
==============================================================================
