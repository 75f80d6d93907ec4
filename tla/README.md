# PoV and PhxPaxos: models, checks and proofs

The repository holds two consensus systems in one source tree.

* **PoV** (`phxpaxos/src/consensus`, C++): a permissioned blockchain by *proof
  of vote*.  A committee of commissioners elects butlers by ballots; the
  butlers take turns on duty, and the one on duty builds a block, collects the
  signatures of the commissioners and publishes it.
* **PhxPaxos** (the rest of `phxpaxos/src`): a Multi-Paxos library with
  learner, checkpoints, a log store and a master lease.  PoV uses its TCP
  transport (`DFNetWork`) and nothing else of it.

Paths below are relative to `src/PoVBlockchain/phxpaxos/src/`.

## 1. Inventory

### 1.1 PoV

| Part | State it keeps | Operations | Interacts with |
|---|---|---|---|
| Normal phase, `consensus/POV.cc` | role flags, `start_time`, `init_duty_butler_num`, `period_generated_block_num`, `GenerateBlock`, `cache_block`, `raw_block_signatures`, `ring_sigs_pool`, `BallotPool` | `run` (`Normal_Vote`, `Normal_GenerateBlock`), the requests of `handleMessage`, the `handleResponse*` callbacks, `updateVariables` | the block store, the accounts, the network |
| Genesis phase, same file | the flags of each application, `RecommendLetters`, the agent | `generateFirstBlock`, `Initial_*` | as above |
| Synchronisation, same file | list of syncers, fetched height | `syncBlockSequence`, `handleResponseBlock` | block store |
| Accounts, `AccountManager.cc`, `account.cc` | `commissioner_list`, `butler_list` (only grows), `butler_number`, candidates, scores | push, lookup, setters | `updateVariables` |
| Callbacks, `CallBackInstance.cc`, `MessageManager.cc` | `CallBackList`, message index | `sendMessage`, the expiry in `run` | network |
| Block store, `PoVBlockChain.cc` | blocks in MongoDB | `getHeight`, `getBlock`, `pushbackBlockToDatabase` | MongoDB |
| Network, `blockchain-network.cc` | `msgCache`, list of peers | receive, forward, the 10 ms loop | `DFNetWork` |

One mutex per node makes a pass of `run` and the handling of one message
atomic; between nodes everything interleaves.  What is hard: answers that come
back after the block they were asked for is gone, two butlers whose slots
follow each other working at one height, clocks and duty arithmetic, messages
lost for good (a request is repeated only after 10 s), and a restart, after
which the state is rebuilt from the stored blocks.

What makes it correct: an accepted block has the signatures of a majority over
its own header; a fork needs a commissioner that signed twice; who is on duty
is a function of the chain; each period ends in one vote block backed by
enough ballots; the handlers never touch a raw block that is gone.

### 1.2 PhxPaxos

| Part | State it keeps | Operations |
|---|---|---|
| `algorithm/acceptor.cpp`, `proposer.cpp`, `msg_counter.cpp`, `instance.cpp`, `base.cpp` | promise, accepted ballot and value (persistent); proposal id, counters, skip-prepare flag | prepare, accept, their replies, timeouts, new instance, restart |
| `algorithm/learner.cpp`, `learner_sender.cpp` | learned value, instance id | success broadcast, asking for and sending learned values |
| `algorithm/committer.cpp`, `commitctx.cpp`, `ioloop.cpp` | one commit context, a wait lock, the queues of the loop | new value from several threads, message and retry queues |
| `algorithm/checkpoint_*`, `checkpoint/*` | sequence and acknowledgement counters, files; minimal chosen instance | send and receive a checkpoint, replay, clean |
| `master/*` | master, version, lease times | try to become master, execute, lease checks |
| `logstorage/*` | value log files, LevelDB index | append, read, delete, rebuild after a crash |
| `config/*`, `node/*`, `sm-base/*`, `communicate/*`, `utils/*` | membership, wiring, batches, sockets, locks | |

What makes it correct: at most one value is chosen per instance and every
learned value is the chosen one, through crashes and lost, doubled and
reordered messages; at most one node at a time believes itself master; the
cleaner never deletes what the replayer or a learner still needs.

## 2. Plan

Modules in the order in which they are written; the most important behaviour
of each system comes first.

| # | Modules | What | State |
|---|---|---|---|
| 1 | `PoVBlocks`, `PoVConsensus`, `PoVSafety` | blocks, signatures, elections; the normal phase; its properties | written |
| 2 | `PoVQuorumProofs`, `PoVLinkProofs` | theorems of the normal phase: quorum, fork and types; hash links, duty, periods and times | written |
| 3 | `Paxos`, `PaxosSafety`, `PaxosLog` | acceptor, proposer, instance and learner of PhxPaxos, with restarts; the abstract promise, a log that all nodes play in order | written |
| 4 | `PoVSync`, `PoVSyncSafety`, `PoVSyncProofs` | start, restart and synchronisation: fetched blocks stored without validation, replay of the stored blocks; its theorems | written |
| 5 | `PaxosMaster`, `PaxosMasterSafety`, `PaxosMasterProofs` | the lease of the master on a chosen log; its theorems | written |
| 6 | `PoVGenesis`, `PoVGenesisSafety`, `PoVGenesisProofs` | applications, recommendation letters and the genesis block, from which `PoVConsensus` starts; its theorems | written |
| 7 | `PaxosCommit`, `PaxosCommitSafety`, `PaxosCommitProofs` | the commit context and wait lock that proposing threads, the batch thread and the I/O loop share; its theorems | written |
| 8 | `PaxosCheckpoint`, `PaxosCheckpointSafety`, `PaxosCheckpointProofs` | cleaner against replayer, checkpoint transfer, the start on what a broken transfer leaves; its theorems | written |
| 9 | `PaxosProofs` | the theorems of `Paxos` in a group of any size, with restarts and timeouts, up to the refinement of `PaxosLog` | written |
| 10 | `PoVNetwork`, `PaxosLogStore`, membership | message indices and `msgCache`; recovery of the value log; groups that change | open |

How the modules rest on each other: `PoVConsensus` extends `PoVBlocks` and
starts from the block whose making `PoVGenesis` models; `PoVSync` assumes of
published blocks what `Quorum` and `ForkEvidence` prove; `Paxos` refines
`PaxosLog`, and `PaxosMaster`, `PaxosCommit` and `PaxosCheckpoint` each take
that log as the promise they stand on.  Each module is checked by the `MC`
module of its name.

Liveness that would follow: a slot in which no message is lost publishes a block (with an odd
committee), and a lone Paxos proposer decides.

## 3. The normal phase of PoV

**`PoVBlocks`** holds what `POV.cc` computes from blocks alone: the two
thresholds, `getTe`, `getNextButler`, the validation functions and
`BallotStatistic`.  A node, its account and its public key are one number, in
the order of the keys.  Signatures are perfect: `[signer, over, ts, seed]`
names the raw header it was made over.  `seed` is the part of the signature's
bytes that `getNextButler` reads, which ECDSA makes random.  A hash is an
injective image of the header.  Transactions, Merkle roots and ring signatures
of a block are not part of it, but `ring_sigs_pool` is, because a repeated ring
signature makes a handler return early.

**`PoVConsensus`** has one action per pass of `run` in each state of
`GenerateBlock` (`RunIdle`, `RunOffDuty`, `RunSign`, `RunPublish`,
`RunFinish`), one per request and one per response that `handleMessage`
handles.  Every pass also does what comes before the `switch`: it drops the
expired callbacks and sends what `Normal_Vote` wants to send.  A message that
its handler would ignore is not received.  `Tick` advances the clock that all
nodes read.

| Variable | In the code |
|---|---|
| `chain` | the blocks in the node's database |
| `startTime`, `initDuty`, `period` | `start_time`, `init_duty_butler_num`, `period_generated_block_num` |
| `butlerNum`, `butlerList` | posts and list of `AccountManager` |
| `pool`, `genState`, `cache`, `sigs`, `ringPool` | `BallotPool`, `GenerateBlock`, `cache_block`, `raw_block_signatures`, `ring_sigs_pool` |
| `commIds`, `butlerIds`, `groupKeys` | the accounts whose NodeID is not 0; `group_list` |
| `calls` | `CallBackList` |
| `msgs`, `now` | messages on their way; the clock |

Abstractions, each a restriction or a widening to keep in mind:

* the committee is fixed: the calls that apply for and resign from it are
  commented out in `run` (`POV.cc:121-133`);
* a commissioner's ballot is a constant (`BallotOf`), because the scores it is
  derived from change only through transactions that are not modelled; every
  candidate is a node;
* a request is matched with its answer by the time it was sent instead of by
  the message index; a request is not sent while one of its type to the same
  node waits, so two that could be confused are out only when the first was
  answered in the same tick;
* `StartPeriod` is what `period_generated_block_num` holds before the genesis
  block, which the code does not initialise (`POV.h:280`): 0 in the runs;
* clocks do not drift apart.  `cycles`, `Te` and the duty number come from
  this one clock;
* a node that accepts the block after `EndHeight` stops, as in the code;
  `EndHeight` bounds the chain in the runs.

### Properties

| Property | Hazard it is about |
|---|---|
| `QuorumSigned` | late answers for a dropped block counted for the next; signers counted twice (validation looks for neither) |
| `ForkNeedsDoubleSigner` | two butlers in neighbouring slots; the threshold |
| `PublishHasBlock` | `cache_block` dereferenced in the publish state after losing duty, after another block, after a repeated ring signature |
| `GeneratorWasOnDuty` | nobody who signs or accepts checks the generator |
| `VoteEndsPeriod` | nobody who signs or accepts counts the ballots |
| `HashLinked` | the first link is never compared |
| `DerivedFromChain` | variables beside the database that every node must derive alike |
| `TimesOrdered` | truncated seconds, signed and unsigned arithmetic of the duty number |

### Runs

| Run | Instance | Why it is enough |
|---|---|---|
| `pov_round` | 3 commissioners, 2 butlers, one height, 7 ticks (slots of 2) | both butlers get a slot in which they can gather signatures of one height; requests of the first are still out when the second begins, and signatures come after publication |
| `pov_chain` | 2 nodes, from `Init`, periods of two blocks | keys and NodeIDs exchanged from nothing, a normal block, then the vote block that ends the period, whose ballots arrive late, twice or never, an election |

`pov_round` starts in `KnownInit`, at the beginning of the second turn
of the butlers.  `Init` leads there: in their first turn the butlers asked for
the NodeIDs and group keys and learned them, but their requests for signatures
or the answers were lost.  Two butlers dropped their blocks when they lost
duty; a single butler, which never does, still has the block of its first slot.
The runs set
`CHECK_DEADLOCK FALSE` because the clock bound (`MaxTime`) and the exit after
`EndHeight` end every behaviour.

No fairness is assumed here: all properties are safety properties, and messages
may be lost forever.

### Start, restart and synchronisation

**`PoVSync`** models what `PoVConsensus` leaves out: a process that ends and
starts again on its database, and a node that joins late.  `EndSync`,
`AskHeight` and `TakeSyncer` are the passes of `syncBlockSequence` that change
something; `OnRequestHeight`, `OnResponseHeight`, `OnRequestBlock` and
`OnResponseBlock` the handlers; `OnPublishBlock` accepts in any state.  All
that `updateVariables` derives is a function of the blocks it is given, so
`applied` (these blocks) stands for `start_time`, the duty, the posts, the
period and the committee.  `db` is what MongoDB holds.

How normal nodes agree on a block is the business of `PoVConsensus`.
`Publish` assumes of it that a published block has the signatures of more than
half of the commissioners (`Quorum`, section 7) and that no second block of
its height has as many (`ForkEvidence`: that takes a commissioner that signs
twice).  With two branches a node could fetch a block from each and store a
chain that does not link.

Time is abstracted to the ends of the three waits.  A syncer is given up only
after its requests have expired (15 s after it was last asked, against 5 and
10 s for a request), and an answer may come when no request waits for it any
more; it is then ignored.  An answer is matched with a request by its
height, which is wider than the code's index and covers answers to the process
before the restart.  The joiners are chosen in `Init`; `MayStart` and
`MaxStarts` bound who starts late or restarts, and how often.

| Property | Hazard it is about |
|---|---|
| `StoredChain` | fetched blocks are stored unseen, published ones arrive in any order |
| `AtMostOneUnapplied` | blocks stored without `updateVariables` |
| `SyncEnds` | the queue of syncers is refilled while one is waited for; every other failure must let the loop end |
| `VariablesOfLastBlock` | violated, see section 5 |

| Run | Instance | Why it is enough |
|---|---|---|
| `sync_restart` | a commissioner and a second node, 2 blocks, two starts or restarts of the second node, height requests without bound | the node starts before, between and after all publications and again while it synchronises; it fetches 0 to 3 blocks while more are published, its peer may fall silent, and several reports of different ages wait in its queue; that several peers add nothing to the safety properties is proved (section 7) |
| `sync_replay` | 3 commissioners, 2 blocks, one start or restart | the shortest violation |

Fairness (`FairSpec`): the thread of `blockchain_network::run` calls `run` every
10 ms, so a pass that is due is made and a wait that is over is noticed;
requests for blocks that stay possible are answered.  Height requests and
their answers have no fairness, and a node repeats its request as long as its
queue is empty, also while it waits for a syncer.  So `SyncEnds` has an
exception, which the run reaches: peers that for ever report heights above the
node's own and let every request for a block expire refill the queue each time,
and the node never goes on, for the end of `fetch_height_wait_time` counts only
with an empty queue.  Reports without expired requests or expired requests
without reports do not suffice: either the node's chain grows, which `MaxHeight`
ends, or the queue runs dry.

### The genesis block

**`PoVGenesis`** models the state `generate_first_block` of `run` and its
handlers: a node learns the keys of the configured commissioners, the
commissioners apply for their posts at the agent, a butler candidate gets a
letter from one commissioner, signatures of it from all, and applies at all;
a commissioner that registered every candidate votes; the agent builds the
block, has it signed by all and publishes it, once.

| Variable | In the code |
|---|---|
| `state`, `known`, `genesis` | the phase of `run`, `commissioner_list`, block 0 in the database |
| `applied`, `appliedBy`, `commPool` | state and signatures of a commissioner's application, the agent's `ApplyCommissionerPool` |
| `stage`, `letter`, `sigs`, `asked`, `apps`, `acks` | state, letter and signatures of a candidate; its requests, applications and their answers on their way |
| `pool`, `voted`, `ballots` | `ApplyButlerCandidatePool` with the registered candidates; `Vote_finish`; the agent's `BallotPool` |
| `genState`, `cache`, `blockSigs`, `published`, `inbox` | the agent's `GenerateBlock`, raw block and signatures; blocks sent and not yet received |
| `vouched`, `restarts` | history |

A request that is repeated until it is answered, and whose answer adds one
fact, is one action with its answer; where the sender may have moved on before
the answer comes, they are two.  What letters and ballots say is left out.  A
restarted process keeps its configured key and loses the rest; a node whose key
pair is drawn anew at each start is left out.

| Property | Hazard it is about |
|---|---|
| `GenesisUnanimous` | the block needs the share of every commissioner and candidate, some of which a restarted process has forgotten |
| `LetterSignedByAll` | an application carries half of the signatures gathered; who registers cannot see that all signed |
| `FinishedStaysFinished` | signatures asked for before the application ended arrive after |
| `CommitteeCanAccept` | the block is sent once, to nodes that may lack keys |
| `GenesisFollows` | a state that waits for what nobody repeats |

Run `genesis`: 2 commissioners, a candidate, and the second commissioner may
restart once at any moment.  Two commissioners are the least for which half a
list of signatures is not all, and the agent is not the only one to sign.
`GenesisFollows` assumes that the loop runs and that requests made again and
again, and the one publication, arrive (`FairSpec`), and promises nothing after
a restart: a node that comes back after publication has no keys to check the
block with and drops it.  `CommitteeCanAccept` is about the nodes that never
restarted.  Should the *agent* restart after it has published and before it
stores its block, the phase starts again: what it then publishes finds nodes
that have a block already, so `CommitteeCanAccept` is promised only until the
agent restarts.  The other theorems of section 7 hold then, too.

## 4. PhxPaxos

**`Paxos`** models one group.  One I/O loop per node runs every handler, so
each handler is one action; what a node sends to itself is handled inside the
sending action, as `Base::SendMessage` and `BroadcastMessage` do.  Messages are
never taken out of `msgs`: each may be lost, delayed, reordered and received
any number of times.

| Variable | In the code |
|---|---|
| `acc` | instance id and `AcceptorState`; the promise outlives the instance |
| `prop` | `ProposerState`, the flags of `Proposer` and the promise/accept set of `MsgCounter` |
| `log` | the record `WriteState` keeps for each instance |
| `busy` | `CommitCtx`: a commit is under way |
| `executed` | history: every `(instance, value)` handed to `SMExecute` or replayed |
| `votes` | history: what each acceptor has accepted, in which instance and under which ballot |
| `mishaps` | history: which of three steps that Paxos does not have were taken, see below |
| `timeouts`, `restarts` | counters for the bounds |

`NewValue` is `CheckNewValue` with the skipped or the full prepare phase;
`CommitTimeout`, `PrepareTimeout` and `AcceptTimeout` are the three timers;
`OnPrepare` and `OnAccept` include the shortcut by which a message of the next
instance counts as the news that this one is over; `OnPrepareReply` and
`OnAcceptReply` include the accept phase and the success broadcast that follow
a majority; `OnExpiredReply` is the rejection that comes one instance late;
`OnSendLearnValue` learns from another node's log; `Restart` is
`Instance::Init` on what the disk holds.

Left out: followers, changes of membership, failing writes, state machines that
fail, the checksum that asserts equal previous values, checkpoints, and the
handshake (ask, confirm, acknowledge) that decides from whom a node learns: any
node that is behind may learn from any that is ahead.  `IsIMLatest` only delays
proposals.  The group has more than one member.

Three steps of the code are not steps of Paxos.  `mishaps` collects them, each
noticed at the very step; nothing depends on it but the hypotheses of theorems.

| Mishap | Step | When | In the code |
|---|---|---|---|
| `"reused"` | `Prepare` | a ballot is prepared again under which an accept was sent, and the node's own acceptor, which would answer with the value, rejects it by then | `OnAcceptTimeout` without a rejection, `proposer.cpp:510` |
| `"misheard"` | `OnPrepare`, `OnAccept` | a message of the next instance makes a node execute a value which no majority had accepted | `ReceiveMsgForAcceptor`, `instance.cpp:611` |
| `"forgot"` | `Restart` | the acceptor comes back with less than it had promised | `LearnValue` over the acceptor's record, `learner.cpp:78` |

`AcceptTimeout` has a parameter for the runs: with `QuietAcceptTimeouts = FALSE`
an accept phase times out only after some rejection has arrived, which keeps
`"reused"` out.  The code does not enforce that.  The theorems leave the parameter
open.

### Properties

`Agreement` (no two values for one instance, over all nodes and restarts, which
`ImplementsLog` below contains, and which two runs violate),
`OneValuePerBallot` (a ballot carries into later instances and through
timeouts and new clients), `ChosenOnce` (majorities never accept two values of
one instance, under whatever ballots), `VoteOnDisk` (a vote that was reported is on disk
until a higher one replaces it), `ReplaySame` (what would be replayed is what
was executed), `TypeOK`.

**`PaxosLog`** is the promise to the state machines above: one log whose
entries are values that clients offered for that instance, played in order by
every node; a restart takes a node back by at most one entry.
`ImplementsLog` is the refinement: `executed` stands for itself, the instance
of a node's acceptor for its position in the log.  It contains `Agreement` and
adds that no node skips an entry, that a restart replays what was played, and
that nothing but a client's value is played.

### Runs

| Run | Instance | Why it is enough |
|---|---|---|
| `paxos_voter` | 2 proposers and a voter, 2 instances, 2 proposal ids, 3 timeouts, 1 restart | the voter that both quorums need restarts between any two steps; node 1 skips the prepare phase of the second instance, where node 2 prepares; rejected rounds, new proposal ids, a commit timeout between two clients, messages of the first instance that arrive in the second |
| `paxos_reuse` | restricted steps, see section 5 | a violation |
| `paxos_announce` | five nodes, restricted steps, see section 5 | a violation; with three nodes the accept of a proposer that nobody rejects and one other node are a majority |

Node 2 has a client in the last instance only (`MCTurns`).  No acceptor then
promises more than the ballot it learns in an earlier instance, which is what
`MCPaxosForget.cfg` needs (section 6).

`MCPaxos` restricts these runs to fewer steps than `Next` allows
(`VoterNext`, `ReuseNext`, `AnnounceNext`, `ForgetNext`); each step of these is a step of
`Next`.  A passing run so restricted says nothing about the rest, a violation
is one of `Spec`.  The behaviours are finite because of the bounds (`MaxId`,
`MaxTimeouts`, `MaxRestarts`, `LastInstance`), hence `CHECK_DEADLOCK FALSE`.

### The master

**`PaxosMaster`** has the log of `PaxosLog` and, per node, the memory
(`master`, `version`, `expire`, `leaseTime`) and disk (`store`) of
`MasterStateMachine` and the thread of `MasterMgr` (`setting`, `round`).  A round
of `TryBeMaster` is `CheckMaster`, `MakeOperation` and the proposal; an operation
is chosen at the next instance or lost, executed late, and its commit may time
out although it was chosen.  Each node has a clock; `Drift` bounds how far two
are apart.  `hist` is history: what the log makes of the office after each
instance.  `sid`, the random tag by which a master knows its own operation, is
the time it was made.

| Property | Hazard it is about |
|---|---|
| `AtMostOneMaster` | a deadline counted from before the proposal at the master, from execution at the others; clocks; restarts that forget |
| `TakeoverAfterExpiry` | an operation proposed before a takeover and chosen after it |
| `ReplicasAgree` | versions repaired from an operation's last version, restarts from the store |

Run `master_lease`: 2 nodes, a lease of 3 with margin 2 and drift 1, clocks up
to 3, 2 operations at a time, 2 instances, one restart.  A lease can begin, be
renewed, run out and be taken over; the theorems of section 7 say the same of
any number.  `Spec` takes no checkpoints and never shortens a lease;
`SpecCheckpoint` (section 5) and `SpecShorten` add one each.

`MCPaxosMasterShorten.cfg` is not one of the runs: with leases 3 and 6 TLC finds
two masters once a node shortens its lease: the others count the shorter lease
while the master may still hold the deadline of the longer.  The library's
`README.md:462` allows setting it "at any moment".

### The threads that propose

**`PaxosCommit`**: every thread makes one proposal, by itself or through the
batch queue.  Whoever proposes takes the wait lock, fills the one `CommitCtx`
and waits; the I/O loop starts the commit (`CheckNewValue`), and ends it when an
instance is learned (`Learn`), a timer runs out (`CommitTimer`), the value is
refused or the state machine fails.

| Variable | In the code |
|---|---|
| `thread`, `answer` | where a caller is; what it was told |
| `queue`, `isEnd`, `ended` | `m_oQueue`, `m_bIsEnd`, and whether the batch thread has returned |
| `run`, `holder`, `ctx` | each call of `NewValueGetID`, the wait lock, the commit context |
| `pvalue`, `timers`, `timer` | the proposer's value; the timers that are set and the id that is kept of one |
| `chosen`, `pending`, `latest` | the log; a value whose execution failed; `IsIMLatest` |

Left out: the random rejections of a wait lock under load, the limits of the
loop's queues and the retry queue of paxos messages, the retries of the master
state machine (its operations are those of `PaxosMaster`).  The value another
node has chosen, or the system variables' first one, is `Foreign`.  A wait with
a timeout may end at any moment.

| Property | Hazard it is about |
|---|---|
| `OwnAnswer` | one context for all threads: results of one commit reaching the next |
| `NeverTwice` | `NewValueGetID` proposes again what may still be chosen |
| `NoMeansNo` | a value refused or in conflict that the proposer keeps |
| `TimerOfCommit` | the one copy of the timer's id |
| `EveryoneReturns` | notifications in a batch, the end of the batch thread, a node that is behind |

Run `commit`: 3 threads (one with a value that is refused), batches of 2, one
waiter on the lock, 2 tries, 2 instances, one failed execution or time behind.
The fairness is that of the threads and the loop, and a commit that times out
in the end (`SetTimeoutMs` was called; without a timeout a thread waits as long
as no value is learned).  A proposal that enters the queue after the batch
thread has emptied it is never answered (`propose_batch.cpp:94`), so
`EveryoneReturns` speaks of those before.

### Checkpoints

**`PaxosCheckpoint`** abstracts paxos to what it promises, one value per instance
of which a majority has a record, and asks whether the promise survives that
records are deleted.  `disk` is what a node keeps: accepted instances, the
promise of the next, the saved minimum, the state machine's checkpoint and the
received files; `mem` its process; `sender` the one `CheckpointSender`.
`StartOn` is `Instance::Init` on a disk, with the repairs and refusals of
`FixMinChosenInstanceID`, `PlayLog` and `ProtectionLogic`; a node that refuses
to start stays down.  Replayer (`PlayOne`) and cleaner run beside everything
else.  The cleaner's thread reads minimum, checkpoint and instance once for a
pass (`CleanerPass`) and sleeps between the deletions of the pass
(`DeleteOne`), each of which overwrites the cached minimum, whatever the node has
done meanwhile.  `AskforCheckpoint` to `OnSendCheckpoint_End` are the transfer,
`Crash` and `CrashInBegin` the crashes.

Abstractions: acknowledgements only slow a sender down, so it may give up at
any block; a majority that tells a node to pull is no more than one node that
does so for 60 s (`cp_mgr.cpp:112`); one state machine has a checkpoint; what
`ClearAllLog` does to the threads that read the log meanwhile (`db.cpp:98`) is
left out.  `HoldCount` is at least 1; the code's is at least 300.

| Property | Hazard it is about |
|---|---|
| `QuorumRemembers` | nodes that delete logs, clear them for a pull, and crash: a majority must not forget a chosen instance, nor a voter its vote |
| `CanRestart` | what a pull that broke off leaves behind must not stop the next start |
| `LoadedWhole` | lost blocks, senders that change |
| `LogAboveMin` | a node that offers instances it does not have |

Two of the properties have exceptions, kept in history variables, and each is
something the code does.  `LogAboveMin` also begins one above the minimum: the
cleaner's cache names the instance it has just deleted (`cleaner.cpp:205`), and
a learner that asks exactly there waits until the minimum moves on.

* **Writing during a pull** (`tainted`; `CanRestart`, `LogAboveMin`).  A node can
  write to its log between the clearing and the loading of a checkpoint in two
  ways: its own proposer, whose timer is not stopped and whose messages to
  itself pass the test that stops the peers' (`proposer.cpp:494`,
  `base.cpp:243`), and learning after the pull was given up with a minimum above
  its own checkpoint.  The next start then finds records below the checkpoint,
  or a minimum above it, and returns an error; `instance.cpp:168` assumes that
  "automatically pull checkpoint will delete all paxos log first".
* **Asking for the last instance** (`hasty`; `QuorumRemembers`).  A node that
  started on a checkpoint takes the instance after it as its minimum
  (`instance.cpp:176`).  Whoever has voted in the last chosen instance but not
  learned it asks this node, is told to pull, and clears its log with its vote
  (`learner.cpp:394`, `checkpoint_receiver.cpp:60`).  When the transfers are
  given up and enough nodes did so, no majority has a record of the instance,
  without any crash.  The exception ends when the next instance is chosen,
  because a node that votes there has learned this one.
* **Pulling backwards** (`pull = "stale"`; `LogAboveMin`).  A node that gave up a
  pull has a minimum above its own checkpoint, and sends others to that.  Who
  receives it does not compare it with the instance it is at
  (`learner.cpp:745`), and is left with a minimum below its position and no log.
* **Cleaning during a pull** (`pull = "overrun"`; `LogAboveMin`).  `Cleaner::run`
  sleeps between the deletions of a pass it read before (`cleaner.cpp:108`).  When
  the begin of a pull clears the log and raises the minimum in between
  (`learner.cpp:752`), the next deletion sets the cached minimum, and every
  `SaveInterval` instances the one on disk, back to an old index over an empty
  log.  `CanRestart` needs no exception for that: the minimum is then below the
  checkpoint, whose instance the node plays from.

"Asking for the last instance" and "Pulling backwards" take five nodes.
`MCPaxosCheckpointLag` starts shortly before:
with `MCPaxosCheckpointHasty.cfg` and `MCPaxosCheckpointStale.cfg` TLC violates
in nine steps the properties without these exceptions (`MajorityRemembers`,
`NoHole`).  They are not listed as runs, as nothing in the repository promises
them.

Run `checkpoint`: one node is behind two that executed two instances; a third
instance is voted on, checkpoints move, logs are deleted, two transfers of two
blocks each are made, and one crash or own promise falls anywhere, except that
(`BehindNext`) of the two nodes ahead only one that is sending crashes: a crash of
another is its start, which `CanRestart` judges in every state.  That is the smallest instance in which a second transfer meets what the first left.
`HoldCount` and `SaveInterval` of 1 let the cleaner delete and save within three
instances.  More nodes, instances, transfers and crashes are left to the
theorems of section 7, and it was the attempt to prove them that showed the
second and third exception.  The instance has 0.9 million
states, 2.8 million without that restriction, and the properties hold there, too.

## 5. Where the code disagrees with what is said of it

* **`sync_replay`** (`POV.cc:214`).  The replay after a restart leaves out the
  last block.  Start time, duty and posts are those of the block before until
  the next block is accepted, the period counter stays one behind, and a node
  that has the genesis block only knows no commissioner and never accepts
  another block.
* **`paxos_reuse`** (`proposer.cpp:510`).  After an accept timeout without a
  rejection the same ballot is prepared again.  Its safety rests on the node's
  own acceptor still voting for the ballot; when that has promised a higher
  one, answers left over from the first prepare can make a majority for
  another value under the same ballot.
* **`paxos_announce`** (`instance.cpp:611`).  A node one instance behind takes a
  message of the next instance, under the ballot it has accepted, for the news
  that its value was chosen.  A proposer keeps its ballot, and skips the prepare
  phase, also when it has learned another's value.  With five nodes no timeout
  and no restart is needed: node 5 alone has heard node 1's accept, the
  others choose node 2's value, node 1 learns that, and its next accept makes
  node 5 execute the value that was not chosen.
* **`master_checkpoint`** (`master_sm.cpp:370`).  The master variables sent with a
  checkpoint name master and version, and the lease time in the sender's memory.
  A sender that restarted has none there; the receiver takes the lease for
  over, proposes over the right version and is master beside the old one.

`paxos_reuse` and `paxos_announce` end with two values executed for one instance; the behaviours
are 17 and 18 steps long.

## 6. What only holds under an assumption

`ImplementsLog`, and with it `Agreement`, is checked with `QuietAcceptTimeouts = FALSE`
in `paxos_voter`, with three nodes, and with clients that come in turns
(`MCTurns`).  The first two exclude what `paxos_reuse` and `paxos_announce`
show.  The third is about restarts: learning overwrites the acceptor's record
with the learned ballot as its promise (`learner.cpp:78`), so that a restart can
forget a higher promise on which another proposer skips its prepare phase.
`MCPaxosForget.cfg` reaches two values for one instance that way, in 18 steps.
In `mishaps` (section 4) these are `"reused"`, `"misheard"` and `"forgot"`.
`paxos_voter` does reach `"forgot"` in its last instance, where it does no harm.
Section 7 proves that there is no other exception, in groups of any size.
`AtMostOneMaster` holds while no checkpoint is taken and no lease shortened.
`StoredChain` holds as long as one block is published per height, and
`AtMostOneUnapplied` as long as `syncer_wait_time` is longer than the wait of a
request: the setting is read from a file and nothing compares the two.

## 7. What is proved

### The normal phase of PoV

For every committee, number of butlers, clock bound, chain
length and set of seeds, from the assumptions of `PoVBlocks` and `PoVConsensus`
(a finite set of nodes, amounts that are numbers, a genesis block that carries
the first election):

| Theorem | Module | States |
|---|---|---|
| `Quorum` | `PoVQuorumProofs` | `Spec => []QuorumSigned` |
| `ForkEvidence` | `PoVQuorumProofs` | `Spec => []ForkNeedsDoubleSigner` |
| `PublishSafe` | `PoVQuorumProofs` | `Spec => []PublishHasBlock` |
| `ConsensusTypes` | `PoVQuorumProofs` | `Spec => []TypeOK` |
| `Linked` | `PoVLinkProofs` | `Spec => []HashLinked` |
| `BuilderWasOnDuty` | `PoVLinkProofs` | `Spec => []GeneratorWasOnDuty` |
| `BlocksInTime` | `PoVLinkProofs` | `Spec => []TimesOrdered` |
| `ChainDetermines` | `PoVLinkProofs` | `Fresh => (Spec => []DerivedFromChain)` |
| `PeriodsEndInVotes` | `PoVLinkProofs` | `Fresh => (Spec => []VoteEndsPeriod)` |
| `SameTipSameDuty` | `PoVLinkProofs` | nodes whose chains end in one block agree on the chain and on who is on duty |

`Fresh` says that the period counter of every node starts at a multiple of
`num_blocks_per_period`.  No other theorem needs it; these two are false without
it, since `POV.h:280` declares the counter and nothing sets it before the
genesis block.

The first three properties are not inductive.  The invariant is `QInv`:

* `Shape`: chains and signature lists are sequences, chains are not empty;
* `Collected`: the signatures a node keeps are signatures of its `cache`,
  by different commissioners;
* `PublishHasCache`: a node in the publish state has a raw block;
* `NothingKept`: without a raw block no signature is kept.  This is the heart:
  a new block starts with none, so that none of an old block is counted;
* `PublishedByQuorum`: a block on its way carries a quorum of signatures;
* `AcceptedFromQuorum`: so does every accepted one.

One lemma per action shows that it keeps `QInv`.  `SignersCount` turns a list
without repeated signers into a set of the same size, `QuorumsShareSigner`
intersects two majorities.

`Linked` rests on `QInv` and on `LInv`: every chain begins with the genesis
block (`Rooted`), and a raw block of height 1 names it wherever it is, in work
(`WorkOnGenesis`), on its way (`SentOnGenesis`) or accepted (`HashLinked`).
From height 2 on the node that accepts a block compares the hashes itself; the
first link holds only because nobody but a butler on its own chain builds one.

`ConsensusTypes` rests on `TInv`, which types the parts: a raw block, a
signature, a block, a call and each kind of message (`MessagesTyped`,
`ChainTyped`, `WorkTyped`, `CallsTyped`), and the variables (`PostsTyped`,
`RoundTyped`, `PeersTyped`).  A block takes its time and first duty from its
latest signature, so `TeOfSignatures` is where a quorum is needed for a type: an
empty list has no latest one.

The remaining theorems rest on `HInv`, which ties what a node keeps to its chain:

* `DutyDerived`, `PeriodDerived`: start time, first duty and posts are those of
  the last block and of the last vote block; the counter is the length;
* `WorkOK`, `SentOK`: a raw block in work or on its way was built on a prefix
  of its generator's chain, by the butler that this prefix put on duty
  (`BuiltOnDuty`), as the vote block if and only if the period ends
  (`BuiltInPeriod`); and no signature over it is older than the block below;
* `AcceptedOK`: every accepted block is of that kind on the acceptor's chain,
  and times do not decrease.

Nobody who accepts a block looks at its generator, so that the step that
accepts must carry `BuiltOnDuty` from the generator's chain to the acceptor's.
`SamePast` does: two chains that hold blocks of one hash at one height are equal
up to it, because the hash covers the raw block and the signatures, from which
the rest of a block follows (`Sealed`), and the raw block holds the hash below.
It also gives `SameTipSameDuty`.  `BlocksInTime` needs that times are whole
seconds (`InSeconds`): a signature made after the block below is cut to its
second, and so would lie before a block whose time were not.

### The genesis phase

For every committee, set of candidates and number of restarts of any node
(`GenesisAssumption`: finite sets, the agent a commissioner):

| Theorem | Module | States |
|---|---|---|
| `GenesisByAll` | `PoVGenesisProofs` | `Spec => []GenesisUnanimous` |
| `RegisteredByAll` | same | `Spec => []LetterSignedByAll` |
| `FinishedForGood` | same | `Spec => FinishedStaysFinished` |
| `GenesisTypes` | same | `Spec => []TypeOK` |
| `GenesisIsAccepted` | same | `Spec => [](AgentCommissioner \notin Restarted => CommitteeCanAccept)` |

`GenesisInv` adds to `TypeOK` and `GenesisUnanimous` the shapes of what is on its
way, for each candidate that its stage, letter and signatures fit together and
are vouched for (`Progress`), the same of its applications (`OnItsWay`), and of
the agent that its raw block and the signatures of it are of the whole
committee (`AgentsBlock`).  `vouched` never shrinks, which is why a restart of
a signer takes nothing away.

`GenesisIsAccepted` rests on `AcceptInv`, which has two parts.  `KeysInv`: who
has applied, vouched or registered had every key by then, a node keeps its keys
until it restarts, and the pools hold only applications that a node with all
keys can check.  `BlockInv`: before the block everyone who has not restarted knows
every key, the block is published once, and no node that waits for it has
it.  The agent is excepted because its second block would find nodes that
already have the first.

### Synchronisation

For any nodes, committee, heights and number of starts and restarts
(`SyncAssumption`: a finite set of nodes, bounds that are numbers):

| Theorem | Module | States |
|---|---|---|
| `ChainStored` | `PoVSyncProofs` | `Spec => []StoredChain` |
| `FewUnapplied` | same | `Spec => []AtMostOneUnapplied` |
| `SyncTypes` | same | `Spec => []TypeOK` |
| `SyncInvariant` | same | `Spec => []SInv` |

`SInv` says why a block stored unseen does no harm.  `OneBranch`: the published
blocks are one chain.  `NoGaps`: a database holds every height up to its last,
so that what is stored next can only be the block that links.  `AskedOK`: a
node awaits the next height only while it synchronises with a syncer that is
within its wait and has that block; a normal node therefore stores nothing that
it does not apply.  `AppliedOK`: what is applied comes from the database, in its
order, and in a normal node reaches up to the last block but one.
`BlocksStored` counts the blocks of a database by a bijection with its heights.

### The threads that propose

For any threads, batch size, retries, waiters on the lock, refused values,
failed executions and lengths of the log (`CommitAssumption`: a finite set of
threads, batches and retries not 0):

| Theorem | Module | States |
|---|---|---|
| `OwnValueIsTold` | `PaxosCommitProofs` | `Spec => []OwnAnswer` |
| `ExecutedOnce` | same | `Spec => []NeverTwice` |
| `RefusedIsNotExecuted` | same | `Spec => []NoMeansNo` |
| `OwnTimer` | same | `Spec => []TimerOfCommit` |
| `CommitTypes` | same | `Spec => []TypeOK` |
| `CommitInvariant` | same | `Spec => []CInv` |

A proposal is `Free` when it was not chosen and the node's proposer does not
hold it.  `CInv` follows it from thread to log.  `NewOK`, `QueueOK`, `WorkOK`: a
proposal is in one place, with its thread, in the queue or with one proposer, and
is free until that proposer has the wait lock; the queue repeats no thread.
`CommitOK`: one proposer has the lock, and the context is its commit: free
before the loop has seen it, not yet chosen in its instance, at its end what the
log says, and free again if the end is a conflict or a refusal.  That is why
trying again after a conflict is safe, and after a timeout would not be.
`ValuesOK`: what the proposer holds was not chosen, and an execution that
failed was of that value or of another node's.  `AnswerOK` keeps what was
refused free, since nobody proposes it again, and `OwnOK` keeps what was told
true while the log grows.  The lemmas `Gather`, `Move`, `ReturnStep` and `Told`
are the four things that can happen to proposals outside the loop; each action
is one of them.  `RInv` stands on `CInv` and needs of it that the lock excludes
(`LockIs`) and that the loop learns only `Foreign` or the node's value.  Its
`TimerOK` is why one copy of the timer's id is enough until an execution fails:
at most one timer is set, for a commit that has begun and not ended, and both a
learned value and the timer itself take it away before the next takes the lock.

### Multi-Paxos

For any number of nodes, clients, instances, proposal ids, timeouts (accept phases
that nobody rejected included) and restarts, from `NodesAssumption` (a finite set
of more than one node), `ValuesAssumption` and `BoundsAssumption`:

| Theorem | Module | States |
|---|---|---|
| `PaxosTypes` | `PaxosProofs` | `Spec => []TypeOK` |
| `ReplayIsTheSame` | same | `Spec => []ReplaySame` |
| `BallotHasOneValue` | same | `Spec => [](Calm => OneValuePerBallot)` |
| `OneValueIsChosen` | same | `Spec => [](Calm => ChosenOnce)` |
| `NodesAgree` | same | `Spec => [](mishaps = {} => Agreement)` |
| `VotesStayOnDisk` | same | `Spec => [](mishaps = {} => VoteOnDisk)` |
| `GroupIsOneLog` | same | `Spec /\ [](mishaps = {}) => ImplementsLog` |
| `PInvariance`, `AInvariance` | same | the inductive invariants |

`Calm` says that `"forgot"` and `"reused"` have not happened; a value misheard
as chosen breaks neither the ballots nor the choice.  The hypotheses are about
what has happened up to a state, not about what may happen: nodes restart and
accept phases time out in the behaviours the theorems speak of, and a state after
any number of restarts and timeouts is covered unless one of them did one of the
three named things.  None of the three can be dropped: `paxos_reuse` violates
`Agreement` with `"reused"`, `paxos_announce` with `"misheard"`,
`MCPaxosForget.cfg` with `"forgot"`.  What is proved is that these three steps
are all that stands between this code and the promise of `PaxosLog`.

`PInv` holds types, records and counters in every case (`PBase`), and `SafetyOK`
and `KeptOK` under `Calm`.  Its heart is `SafeAt`, the classical invariant: for
every Accept and every lower ballot a majority has promised more and voted for
nothing else there.  The skipped prepare phase needs what the textbook does not
have: `SkipOK` says of a proposer that may skip that a majority has promised its
ballot and has voted below it in no later instance, nor in the present one before
the proposer's own Accept (`PreparingOK` and `PromisesOK` carry that from the
prepare replies).  Hence `SkipIsSafe`: in a new instance there is no older vote to
respect.  `AcceptsOK` ties every Accept to the proposer that may still be in its
round, `GrantsOK`, `RepliesOK` and `SuccessOK` tie counters, replies and successes
to votes.

A timed-out accept phase prepares its ballot again with the value still in the
proposer.  `ValuesOK` says that this value is the one sent, and that the prepare
phase holds it as accepted under its own ballot, so that no promise can replace it;
that is true because the node's own acceptor, which counts first, answers with it
(`OwnOK`), unless it rejects the ballot: the mishap `"reused"`.  A restart needs
`DiskOK`: the record of the instance a node falls back into holds what somebody
voted for and no less than the node's own votes there, unless `LearnValue` lowered
its promise; if it did, the restart either loses nothing or is the mishap
`"forgot"`.  The restarted proposer's id is above its acceptor's promise, hence
above every ballot it ever used (`AcceptsOK`, `OwnOK`).

The handlers are compositions, and so are the proofs: one lemma for each small
step (`PromiseStep`, `VoteStep`, `CountPromiseStep`, `StartAcceptStep`,
`NextStep`, ...) on acceptors `A`, proposers `P`, votes `V` and messages `M`,
one for each handler (`...Keeps`) that strings them together.

`AInv` adds what makes learning right as long as there is no mishap (`LogInv`).
`DiskChosen` and `ExecutedChosen`: what a node has executed, or has on disk for an
instance it is past, was chosen under the ballot beside it.  `DiskVotes`: a
learned record that replaces a vote has the same value or a higher ballot.
`ValuesOffered`: nothing but clients' values is proposed.  `Moves` summarises
what a step of a node does to these, each handler is shown to be such a step, a
move that learns is `Play` of `PaxosLog`, and a restart is its `Restart` or a
stutter.

### The master

For any number of nodes, any leases above the margin, and any restarts, lost
operations and commits that time out, from `ConstantsOK` and
`DriftWithinMargin` (twice the drift of two clocks is at most the margin):

| Theorem | Module | States |
|---|---|---|
| `OneMaster` | `PaxosMasterProofs` | `Spec => []AtMostOneMaster` |
| `NoStolenLease` | same | `Spec => TakeoverAfterExpiry` |
| `ReplicasFollowLog` | same | `Spec => []ReplicasAgree` |
| `MasterTypes` | same | `Spec => []TypeOK` |
| `MasterInvariant` | same | `Spec => []MasterInv` |

`MasterInv` follows the argument of the lease.  `HistOK` and `LogOK`: the log
alone determines office and version, and a version, once left, never returns.
`KnowsOK`: each node knows the office of some instance it has reached, with a
deadline of its own that is not before the master's.  `RoundOK` and `OpsOK`:
what a thread read before it proposes is not newer than its node.  `LeaseOver`:
whoever carries the current version in a round or an operation is the master or
has seen its lease end.  `MasterOK`: who believes in its lease is the last one
the log named.  One lemma per action keeps it; the one for `Choose` is where an
operation chosen late meets a changed version.

### Checkpoints

For any group, hold count, save interval, number of blocks, instances, transfers
and crashes, from `ConstantsOK` (a finite set of nodes, numbers that are not 0
where the code's are not):

| Theorem | Module | States |
|---|---|---|
| `ChosenIsRemembered` | `PaxosCheckpointProofs` | `Spec => []QuorumRemembers` |
| `RestartIsPossible` | same | `Spec => []CanRestart` |
| `WholeCheckpointIsLoaded` | same | `Spec => []LoadedWhole` |
| `NoHoleAboveMin` | same | `Spec => []LogAboveMin` |
| `CheckpointTypes` | same | `Spec => []TypeOK` |
| `CheckpointInvariant` | same | `Spec => []CInv` |

`CInv` has four parts.  `PositionOK`: no node has a record or checkpoint beyond
the instance it is in, and none is beyond the first that is not chosen.
`SessionsOK`: a uuid belongs to one sender and one checkpoint, which does not
move while it is sent, and a receiver of that session has exactly the blocks
before the one it waits for; when the end message is in sequence they are all
(`LoadedWhole`).  `MemoryOK` speaks of the last chosen instance only, since who
remembers it starts above every older one.  That the clearing of a log takes
nothing away follows from `AskerOK`: who asks for a checkpoint lacks at least the
last two chosen instances, or is hasty.  `Clean`, of every node that is not
tainted, says why it can start.  While a checkpoint is pending its log is empty
and nothing can be missed; otherwise the log reaches from the checkpoint to the
present instance, the minimum is not above the checkpoint, and it is at most one
`SaveInterval` ahead of the one saved, which is as far as
`FixMinChosenInstanceID` looks (`CleanStarts`, `CleanRestart`).  `CleanerOK` adds
that what is left of a pass follows the minimum without a gap, and `PassOK` that
no pass reaches up to the checkpoint or the present instance, however stale it
is: neither ever goes down while the process lives.

`LeastNatural` and `GreatestNatural` derive from the well-foundedness of finite
sets what `Min` and `Max`, which the library defines by `CHOOSE`, return.
`LocalStep` (one node's disk and process), `SenderMoves`, `ReceiverMoves` and
`StartMoves` are the four kinds of step; each action is shown to be one.

### Only model-checked

The liveness properties `GenesisFollows`, `SyncEnds` and `EveryoneReturns`, and
all violations.  Outside the prover's reach and for
model checking alone: liveness under fairness, `ENABLED`, and what recursive
definitions compute for every input.

## 8. What is not modelled, and why

* **PoV's network layer** (`blockchain-network.cc`): the modules assume that each
  message is handled at most once.  A restarted node numbers its messages from 0
  again while its peers still drop numbers in their cache of 4000 (`:153`), and
  a copy older than the cache is handled again (`:163`).
* **Transactions, logs and scores**: pools, ring signatures beyond the one
  early return, log server and statistics.  No handler of the normal phase
  decides by them.
* **A restart of the value log** (`logstorage`): the meta file is synced before
  the file it names exists, so that a crash between leaves a log that no longer
  opens (`log_store.cpp:585`, `189-238`); after a truncated record the write
  offset is not moved back (`:648-678`); with a sync interval above 1 the last
  records are lost with the machine.  A model of files, offsets and syncs would
  be needed, and `Paxos` assumes a log whose writes last.
* **Membership** (`config/*`): groups in all modules are fixed.
* **Torn reads of the master** (`master_sm.cpp:146`): name and deadline are
  written one after the other without the lock the readers would need; the
  model reads both at once.
* **A block published while a node synchronises** is rejected (`POV.cc:2302`),
  and if it was published after the last heights were reported nothing fetches
  it; nothing in the repository promises otherwise.
* **An even committee** reaches the publish state with exactly half of the
  signatures and waits for the rest without asking again (`POV.cc:1446`); the
  model has it, no property is about it, since no property promises a block.
* Cryptography (third-party and assumed perfect), sockets and event loops
  (their promise, messages lost, doubled and reordered, is what the modules
  assume), configuration parsing, tests, tools, benchmarks and samples.
