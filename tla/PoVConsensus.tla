---------------------------- MODULE PoVConsensus -----------------------------
(***************************************************************************)
(* The normal phase of the PoV protocol (consensus/POV.cc): butlers take   *)
(* turns on duty, the butler on duty builds a raw block, collects the      *)
(* commissioners' signatures and publishes the block, and every node       *)
(* appends the blocks it receives.                                         *)
(*                                                                         *)
(* One mutex per node makes each pass of run() and each received message   *)
(* atomic (blockchain-network.cc), so each is one action here.  Messages   *)
(* overtake each other, and one that is never received is a lost one; a    *)
(* message that its handler would ignore stays unreceived, which leaves    *)
(* the node in the same state.  A node handles a message once: msgCache    *)
(* drops the copies that forwarding makes.                                 *)
(*                                                                         *)
(* The behaviours start when every node has accepted the genesis block;    *)
(* the committee does not change afterwards, because run() has the calls   *)
(* that apply for and resign from it commented out.                        *)
(***************************************************************************)
EXTENDS PoVBlocks

CONSTANTS
  CommissionerList,  \* account_manager.commissioner_list, in its order
  BallotOf,          \* BallotOf[c]: the vote_list of commissioner c's ballot
  NumBlocks,         \* blocks of a period (num_blocks)
  StartPeriod,       \* period_generated_block_num before the genesis block:
                     \* nothing initialises it
  Tcut,              \* length of a duty slot, in ticks
  DeferTime,         \* the butler on duty waits this long in its slot
  CallWait,          \* lifetime of an unanswered request (10 s in the code)
  EndHeight,         \* a node exits when it accepts block EndHeight + 1
  MaxTime,           \* bound of the model: the clock stops here
  Seeds,             \* bound of the model: the seeds signatures may have
  Genesis,           \* the block of height 0
  GenesisVote        \* the result of the election in the genesis block

ASSUME ListAssumption ==
  /\ CommissionerList \in Seq(Commissioners)
  /\ Commissioners = {CommissionerList[i] : i \in DOMAIN CommissionerList}

ASSUME BallotAssumption ==
  BallotOf \in [Commissioners -> [1 .. VoteAmount -> Nodes]]

ASSUME TimesAssumption ==
  /\ NumBlocks \in Nat \ {0}
  /\ StartPeriod \in [Nodes -> Nat]
  /\ Tcut \in Nat \ {0}
  /\ {DeferTime, CallWait, EndHeight, MaxTime} \subseteq Nat
  /\ Seeds \subseteq 0 .. ButlerAmount - 1

\* The genesis block carries the first election, like a vote block.
ASSUME GenesisAssumption ==
  /\ Genesis.raw.kind = "vote"
  /\ Genesis.next \in 0 .. ButlerAmount - 1
  /\ Genesis.te = 0
  /\ GenesisVote \in [1 .. VoteAmount -> Nodes \cup {NoKey}]

NoBlock == [height |-> -1]    \* cache_block == NULL

VARIABLES
  now,         \* the clock all nodes read (getCurrentTime)
  msgs,        \* messages sent and not yet received
  chain,       \* blockchain: the blocks in the node's database
  startTime,   \* start_time
  initDuty,    \* init_duty_butler_num
  period,      \* period_generated_block_num
  butlerNum,   \* AccountManager.butler_number: post -> public key
  butlerList,  \* AccountManager.butler_list: never emptied
  pool,        \* BallotPool: the voters whose ballot is in it
  genState,    \* GenerateBlock: "sign", "publish" or "finish"
  cache,       \* cache_block: the raw block being signed, or NoBlock
  sigs,        \* raw_block_signatures
  ringPool,    \* ring_sigs_pool: the signers of the ring signatures in it
  commIds,     \* the commissioners whose NodeID is known (not 0)
  butlerIds,   \* the butlers whose NodeID is known (not 0)
  groupKeys,   \* group_list: the commissioners whose group key is known
  calls        \* CallBackList: the requests that wait for an answer

clusterVars == <<now, msgs>>
chainVars   == <<chain, startTime, initDuty, period, butlerNum, butlerList>>
roundVars   == <<pool, genState, cache, sigs, ringPool>>
peerVars    == <<commIds, butlerIds, groupKeys>>
vars == <<clusterVars, chainVars, roundVars, peerVars, calls>>

------------------------------------------------------------------------------
(***************************************************************************)
(* Duty.                                                                   *)
(***************************************************************************)
IsButler(n) == n \in butlerList[n]

DutyNum(n) == (((now - startTime[n]) \div Tcut) + initDuty[n]) % ButlerAmount

DutyButler(n) == butlerNum[n][DutyNum(n)]

OnDutyAlways(n) == IsButler(n)   \* mutant

OnDuty(n) == IsButler(n) /\ DutyButler(n) = n

PassedTime(n) == (now - startTime[n]) % Tcut

\* A node that has accepted the block after EndHeight has exited.
Up(n) == Height(chain[n]) <= EndHeight

------------------------------------------------------------------------------
(***************************************************************************)
(* Requests and the callbacks that wait for their answers.                 *)
(*                                                                         *)
(* A request is kept in CallBackList under (type, childtype) and is not    *)
(* sent while one with the same pair waits there.  The time it was sent    *)
(* stands for the index of the message, by which an answer is matched.     *)
(***************************************************************************)
LiveCalls(n) == {c \in calls[n] : c.at + CallWait > now}

Waiting(live, type, child) == \E c \in live : c.type = type /\ c.child = child

\* The callbacks that a set of wanted requests adds to the live ones.
NewCalls(live, wanted) ==
  {[type |-> w.type, child |-> w.to, at |-> now] :
     w \in {x \in wanted : ~ Waiting(live, x.type, x.to)}}

NewMsgs(n, live, wanted) ==
  {[type |-> w.type, from |-> n, to |-> w.to, at |-> now, body |-> w.body] :
     w \in {x \in wanted : ~ Waiting(live, x.type, x.to)}}

Ask(type, to, body) == [type |-> type, to |-> to, body |-> body]

NoBody == <<>>

\* Answer(m, body): the response to request m.
Answer(m, body) ==
  [type |-> "Response", re |-> m.type, from |-> m.to, to |-> m.from,
   at |-> m.at, body |-> body]

(***************************************************************************)
(* Normal_Vote: while the next block is a vote block a commissioner sends  *)
(* its ballot to every butler, and asks for the NodeIDs it does not know.  *)
(***************************************************************************)
VoteWants(n) ==
  IF n \in Commissioners /\ period[n] = 0
  THEN {IF b \in butlerIds[n] THEN Ask("Vote", b, BallotOf[n])
                              ELSE Ask("NodeID", b, NoBody) :
          b \in {butlerNum[n][i] : i \in 0 .. ButlerAmount - 1}}
  ELSE {}

(***************************************************************************)
(* Normal_GenerateBlock, the loop over the commissioners: an unknown       *)
(* NodeID is asked for; the first commissioner whose group key is unknown  *)
(* is asked for it and ends the loop; the others are asked for a signature *)
(* of raw unless they have given it.                                       *)
(***************************************************************************)
KeyMissing(n, i) == /\ CommissionerList[i] \in commIds[n]
                    /\ CommissionerList[i] \notin groupKeys[n]

Reached(n, i) == \A j \in 1 .. i - 1 : ~ KeyMissing(n, j)

SignWants(n, raw) ==
  UNION {LET c == CommissionerList[i]
         IN  IF c \notin commIds[n] THEN {Ask("NodeID", c, NoBody)}
             ELSE IF KeyMissing(n, i) THEN {Ask("GroupKey", c, NoBody)}
             ELSE IF c \in Signers(sigs[n]) THEN {}
             ELSE {Ask("Signature", c, raw)} :
         i \in {k \in DOMAIN CommissionerList : Reached(n, k)}}

\* generateBlock: the raw block node n would build now.
GeneratedBlock(n) ==
  [height    |-> Height(chain[n]) + 1,
   cycles    |-> (now - startTime[n]) \div Tcut,
   generator |-> n,
   prev      |-> HeaderHash(chain[n][Len(chain[n])]),
   kind      |-> IF period[n] = 0 THEN "vote" ELSE "normal",
   ballots   |-> IF period[n] = 0 THEN pool[n] ELSE {}]

------------------------------------------------------------------------------
(***************************************************************************)
(* The passes of run() in the normal state.  Each drops the expired        *)
(* callbacks first and then sends what Normal_Vote and, on duty,           *)
(* Normal_GenerateBlock want to send.                                      *)
(***************************************************************************)
Pass(n, wanted) ==
  LET live == LiveCalls(n)
      all  == VoteWants(n) \cup wanted
  IN  /\ calls' = [calls EXCEPT ![n] = live \cup NewCalls(live, all)]
      /\ msgs' = msgs \cup NewMsgs(n, live, all)

\* The butler on duty works on its block once DeferTime has passed.
Working(n) == OnDuty(n) /\ PassedTime(n) > DeferTime

EnoughBallotsUnasked(n) == TRUE   \* mutant

EnoughBallots(n) == period[n] = 0 => AtLeastHalf(Cardinality(pool[n]))

\* Not a butler, or on duty with nothing to do in this pass.
RunIdle(n) ==
  /\ Up(n)
  /\ \/ ~ IsButler(n)
     \/ OnDuty(n) /\ ~ Working(n)
     \/ Working(n) /\ genState[n] = "sign" /\ ~ EnoughBallots(n)
     \/ Working(n) /\ genState[n] = "publish" /\ ~ MoreThanHalf(Len(sigs[n]))
  /\ Pass(n, {})
  /\ UNCHANGED <<now, chainVars, roundVars, peerVars>>

\* A butler that is not on duty drops the block it was working on.
RunOffDutyKeepsSignatures(n) ==   \* mutant
  /\ Up(n)
  /\ IsButler(n) /\ ~ OnDuty(n)
  /\ Pass(n, {})
  /\ genState' = [genState EXCEPT ![n] = "sign"]
  /\ cache' = [cache EXCEPT ![n] = NoBlock]
  /\ UNCHANGED <<now, chainVars, pool, sigs, ringPool, peerVars>>

RunOffDuty(n) ==
  /\ Up(n)
  /\ IsButler(n) /\ ~ OnDuty(n)
  /\ Pass(n, {})
  /\ genState' = [genState EXCEPT ![n] = "sign"]
  /\ cache' = [cache EXCEPT ![n] = NoBlock]
  /\ sigs' = [sigs EXCEPT ![n] = <<>>]
  /\ UNCHANGED <<now, chainVars, pool, ringPool, peerVars>>

\* GenerateBlock_sign: build the block if there is none, ask for signatures.
RunSign(n) ==
  /\ Up(n)
  /\ Working(n) /\ genState[n] = "sign" /\ EnoughBallots(n)
  /\ LET raw == IF cache[n] = NoBlock THEN GeneratedBlock(n) ELSE cache[n]
     IN  /\ cache' = [cache EXCEPT ![n] = raw]
         /\ Pass(n, SignWants(n, raw))
  /\ genState' = [genState EXCEPT ![n] =
                    IF MoreThanHalf(Len(sigs[n])) THEN "publish" ELSE "sign"]
  /\ UNCHANGED <<now, chainVars, pool, sigs, ringPool, peerVars>>

\* GenerateBlock_publish: seal the block and send it to every node.
Publications(n, b) ==
  {[type |-> "PublishBlock", from |-> n, to |-> m, at |-> now, body |-> b] : m \in Nodes}

RunPublish(n) ==
  /\ Up(n)
  /\ Working(n) /\ genState[n] = "publish" /\ MoreThanHalf(Len(sigs[n]))
  /\ LET live == LiveCalls(n)
     IN  /\ calls' = [calls EXCEPT ![n] = live \cup NewCalls(live, VoteWants(n))]
         /\ msgs' = msgs \cup NewMsgs(n, live, VoteWants(n))
                         \cup Publications(n, Seal(cache[n], sigs[n]))
  /\ genState' = [genState EXCEPT ![n] = "finish"]
  /\ UNCHANGED <<now, chainVars, pool, cache, sigs, ringPool, peerVars>>

\* GenerateBlock_finish: forget the published block.
RunFinish(n) ==
  /\ Up(n)
  /\ Working(n) /\ genState[n] = "finish"
  /\ Pass(n, {})
  /\ cache' = [cache EXCEPT ![n] = NoBlock]
  /\ sigs' = [sigs EXCEPT ![n] = <<>>]
  /\ UNCHANGED <<now, chainVars, pool, genState, ringPool, peerVars>>

------------------------------------------------------------------------------
(***************************************************************************)
(* handleMessage, for the requests.                                        *)
(***************************************************************************)
Receive(n, type) == {m \in msgs : m.type = type /\ m.to = n /\ Up(n)}

Reply(m, body) == msgs' = (msgs \ {m}) \cup {Answer(m, body)}

\* The owner of the public key that was asked for answers.
OnNodeIDRequest(n) ==
  /\ \E m \in Receive(n, "NodeID") : Reply(m, NoBody)
  /\ UNCHANGED <<now, chainVars, roundVars, peerVars, calls>>

\* The key of the asker in this node's group; what it keeps of it is its own.
OnGroupKeyRequest(n) ==
  /\ \E m \in Receive(n, "GroupKey") : Reply(m, NoBody)
  /\ UNCHANGED <<now, chainVars, roundVars, peerVars, calls>>

\* A valid ballot enters the pool unless the voter's is there already.
OnVote(n) ==
  /\ \E m \in Receive(n, "Vote") :
       /\ Reply(m, NoBody)
       /\ pool' = [pool EXCEPT ![n] = @ \cup {m.from}]
  /\ UNCHANGED <<now, chainVars, genState, cache, sigs, ringPool, peerVars, calls>>

\* A raw block that fits the receiver's chain is signed.
OnSignatureRequest(n) ==
  /\ \E m \in Receive(n, "Signature"), seed \in Seeds :
       /\ ValidRaw(chain[n], m.body)
       /\ Reply(m, [signer |-> n, over |-> m.body, ts |-> now, seed |-> seed])
  /\ UNCHANGED <<now, chainVars, roundVars, peerVars, calls>>

(***************************************************************************)
(* updateVariables(block), then pushbackBlockToDatabase(block).            *)
(***************************************************************************)
Election(b) == BallotStatistic([c \in b.raw.ballots |-> BallotOf[c]])

Elected(b) == {Election(b)[i] : i \in 1 .. VoteAmount}

NextPeriodUnbounded(p) == p + 1   \* mutant

NextPeriod(p) == (p + 1) % NumBlocks

\* What the chain determines: the winners of an election take the posts, and
\* duty, time and period restart from the block.
AdoptBlock(n, b) ==
  /\ IF b.raw.kind = "vote"
     THEN /\ butlerList' = [butlerList EXCEPT ![n] = @ \cup Elected(b)]
          /\ butlerNum' = [butlerNum EXCEPT ![n] =
               [i \in 0 .. ButlerAmount - 1 |->
                  IF i < VoteAmount THEN Election(b)[i + 1] ELSE @[i]]]
     ELSE UNCHANGED <<butlerList, butlerNum>>
  /\ initDuty' = [initDuty EXCEPT ![n] = b.next]
  /\ startTime' = [startTime EXCEPT ![n] = b.te]
  /\ period' = [period EXCEPT ![n] = NextPeriod(@)]

\* The work on the next block starts afresh.
ResetRound(n) ==
  /\ ringPool' = [ringPool EXCEPT ![n] = {}]
  /\ pool' = [pool EXCEPT ![n] = {}]
  /\ cache' = [cache EXCEPT ![n] = NoBlock]
  /\ sigs' = [sigs EXCEPT ![n] = <<>>]
  /\ genState' = [genState EXCEPT ![n] = "sign"]

UpdateVariables(n, b) == AdoptBlock(n, b) /\ ResetRound(n)

\* A published block is appended if it is valid and next in height.
OnPublishBlock(n) ==
  /\ \E m \in Receive(n, "PublishBlock") :
       /\ ValidBlock(chain[n], m.body)
       /\ msgs' = msgs \ {m}
       /\ UpdateVariables(n, m.body)
       /\ chain' = [chain EXCEPT ![n] = Append(@, m.body)]
  /\ UNCHANGED <<now, peerVars, calls>>

------------------------------------------------------------------------------
(***************************************************************************)
(* handleMessage, for the responses: the callback that waits for the       *)
(* answer is taken off the list and called.                                *)
(***************************************************************************)
CallOf(m) == [type |-> m.re, child |-> m.from, at |-> m.at]

Responses(n, type) ==
  {m \in Receive(n, "Response") : m.re = type /\ CallOf(m) \in calls[n]}

TakeCall(n, m) == /\ calls' = [calls EXCEPT ![n] = @ \ {CallOf(m)}]
                  /\ msgs' = msgs \ {m}

\* handleResponseNodeID
OnNodeID(n) ==
  /\ \E m \in Responses(n, "NodeID") :
       /\ TakeCall(n, m)
       /\ commIds' = [commIds EXCEPT ![n] = @ \cup ({m.from} \cap Commissioners)]
       /\ butlerIds' = [butlerIds EXCEPT ![n] = @ \cup ({m.from} \cap butlerList[n])]
  /\ UNCHANGED <<now, chainVars, roundVars, groupKeys>>

\* handleResponseGroupKey
OnGroupKey(n) ==
  /\ \E m \in Responses(n, "GroupKey") :
       /\ TakeCall(n, m)
       /\ groupKeys' = [groupKeys EXCEPT ![n] = @ \cup {m.from}]
  /\ UNCHANGED <<now, chainVars, roundVars, commIds, butlerIds>>

\* handleResponseVote: nothing in the normal phase depends on it.
OnVoteResponse(n) ==
  /\ \E m \in Responses(n, "Vote") : TakeCall(n, m)
  /\ UNCHANGED <<now, chainVars, roundVars, peerVars>>

(***************************************************************************)
(* handleResponseBlockSignature.  A signature is kept if there is a raw    *)
(* block, the signature is one of it, and its signer has given none.  When *)
(* the signer's ring signature is in the pool already, from a block this   *)
(* node had to drop, the handler returns before it looks at the threshold. *)
(***************************************************************************)
Useful(n, sig) ==
  /\ cache[n] # NoBlock
  /\ ValidSignature(cache[n], sig)
  /\ sig.signer \notin Signers(sigs[n])

OnSignature(n) ==
  /\ \E m \in Responses(n, "Signature") :
       /\ TakeCall(n, m)
       /\ IF Useful(n, m.body)
          THEN LET new == m.body.signer \notin ringPool[n]
               IN  /\ sigs' = [sigs EXCEPT ![n] = Append(@, m.body)]
                   /\ ringPool' = [ringPool EXCEPT ![n] = @ \cup {m.body.signer}]
                   /\ genState' = [genState EXCEPT ![n] =
                        IF new /\ AtLeastHalf(Len(sigs[n]) + 1) THEN "publish" ELSE @]
          ELSE UNCHANGED <<sigs, ringPool, genState>>
  /\ UNCHANGED <<now, chainVars, pool, cache, peerVars>>

------------------------------------------------------------------------------
Tick == /\ now < MaxTime
        /\ now' = now + 1
        /\ UNCHANGED <<msgs, chainVars, roundVars, peerVars, calls>>

\* The state in which a node has accepted the genesis block.
Init ==
  /\ now = 0
  /\ msgs = {}
  /\ chain = [n \in Nodes |-> <<Genesis>>]
  /\ startTime = [n \in Nodes |-> Genesis.te]
  /\ initDuty = [n \in Nodes |-> Genesis.next]
  /\ period = [n \in Nodes |-> NextPeriod(StartPeriod[n])]
  /\ butlerNum = [n \in Nodes |-> [i \in 0 .. ButlerAmount - 1 |->
                    IF i < VoteAmount THEN GenesisVote[i + 1] ELSE NoKey]]
  /\ butlerList = [n \in Nodes |-> {GenesisVote[i] : i \in 1 .. VoteAmount}]
  /\ pool = [n \in Nodes |-> {}]
  /\ genState = [n \in Nodes |-> "sign"]
  /\ cache = [n \in Nodes |-> NoBlock]
  /\ sigs = [n \in Nodes |-> <<>>]
  /\ ringPool = [n \in Nodes |-> {}]
  /\ commIds = [n \in Nodes |-> {}]
  /\ butlerIds = [n \in Nodes |-> {}]
  /\ groupKeys = [n \in Nodes |-> {}]
  /\ calls = [n \in Nodes |-> {}]

Run(n) == RunIdle(n) \/ RunOffDuty(n) \/ RunSign(n) \/ RunPublish(n) \/ RunFinish(n)

HandleRequest(n) ==
  \/ OnNodeIDRequest(n) \/ OnGroupKeyRequest(n) \/ OnVote(n)
  \/ OnSignatureRequest(n) \/ OnPublishBlock(n)

HandleResponse(n) ==
  OnNodeID(n) \/ OnGroupKey(n) \/ OnVoteResponse(n) \/ OnSignature(n)

Next == Tick \/ \E n \in Nodes : Run(n) \/ HandleRequest(n) \/ HandleResponse(n)

Spec == Init /\ [][Next]_vars
==============================================================================
