------------------------------- MODULE PoVSync --------------------------------
(***************************************************************************)
(* Start, restart and synchronisation of PoV nodes (consensus/POV.cc): a   *)
(* node keeps its blocks in a database; everything else is lost when its   *)
(* process ends.  The new process asks its peers for their heights,        *)
(* fetches the blocks it lacks one after the other, stores them without    *)
(* looking at them, replays the stored blocks and goes on as a normal node.*)
(*                                                                         *)
(* What updateVariables derives is a function of the blocks it was given,  *)
(* so the module keeps these blocks (applied) in place of its results.     *)
(* How the normal nodes come to publish a block is the business of         *)
(* PoVConsensus; here a block is published when a quorum would sign it.    *)
(*                                                                         *)
(* The clock is abstracted to the ends of the three waits.  Messages are   *)
(* lost by not being received.                                             *)
(***************************************************************************)
EXTENDS Integers, Sequences, SequencesExt, FiniteSets

CONSTANTS
  Nodes,        \* the nodes, as NodeIDs
  Committee,    \* the commissioners
  MayStart,     \* bound of the model: the nodes that may join or restart
  MaxStarts,    \* bound of the model: how many of them do
  MaxHeight     \* bound of the model: the last height published

ASSUME SyncAssumption ==
  /\ Nodes \subseteq Nat \ {0} /\ IsFiniteSet(Nodes)
  /\ Committee \subseteq Nodes /\ MayStart \subseteq Nodes
  /\ {MaxHeight, MaxStarts} \subseteq Nat

NoBlock == [height |-> -1]
Genesis == [height |-> 0, by |-> 0, prev |-> NoBlock]
NoSyncer == [id |-> 0, height |-> -1]

VARIABLES
  db,        \* blockchain: the set of blocks in the node's database
  state,     \* "sync", "first" (generate_first_block) or "normal"
  applied,   \* the blocks updateVariables was called with, since the start
  syncers,   \* syncers: the queue of nodes that reported a greater height
  current,   \* current_syncer: its id and height
  active,    \* current_syncer is within its wait
  waited,    \* fetch_height_wait_time is over
  calls,     \* CallBackList: the heights of the blocks asked for
  msgs,      \* messages sent and not yet received
  published, \* history: the blocks butlers published
  starts     \* number of nodes that joined or restarted so far

memory == <<state, applied, syncers, current, active, waited, calls>>
vars == <<db, memory, msgs, published, starts>>

------------------------------------------------------------------------------
(***************************************************************************)
(* The database.                                                           *)
(***************************************************************************)
HeightOf(blocks) ==
  IF blocks = {} THEN -1
  ELSE (CHOOSE b \in blocks : \A c \in blocks : c.height <= b.height).height

Height(n) == HeightOf(db[n])

BlocksAt(n, h) == {b \in db[n] : b.height = h}

Top(n) == CHOOSE b \in BlocksAt(n, Height(n)) : TRUE

\* pushbackBlockToDatabase: a height that is there already is left alone.
Stored(n, b) == IF BlocksAt(n, b.height) = {} THEN db[n] \cup {b} ELSE db[n]

Others(n) == Nodes \ {n}

------------------------------------------------------------------------------
(***************************************************************************)
(* syncBlockSequence, the passes that change something.                    *)
(***************************************************************************)
Valid(n) == active[n] /\ current[n].height > Height(n)

ReplayedHeightsShort(n) == 0 .. Height(n) - 2   \* mutant

\* The loop of the replay ends before the last block.
ReplayedHeights(n) == 0 .. Height(n) - 1

Replayed(n) ==
  [i \in 1 .. Cardinality(ReplayedHeights(n)) |-> CHOOSE b \in BlocksAt(n, i - 1) : TRUE]

\* Nobody to fetch from and the wait is over.
EndSync(n) ==
  /\ state[n] = "sync"
  /\ syncers[n] = <<>> /\ ~ Valid(n) /\ waited[n]
  /\ IF Height(n) = -1
     THEN state' = [state EXCEPT ![n] = "first"] /\ UNCHANGED applied
     ELSE /\ state' = [state EXCEPT ![n] = "normal"]
          /\ applied' = [applied EXCEPT ![n] = @ \o Replayed(n)]
  /\ UNCHANGED <<db, syncers, current, active, waited, calls, msgs, published, starts>>

\* As long as the queue is empty every node is asked for its height, again
\* and again, also while a syncer is waited for.
AskHeight(n) ==
  /\ state[n] = "sync"
  /\ syncers[n] = <<>> /\ (Valid(n) \/ ~ waited[n])
  /\ msgs' = msgs \cup {[type |-> "RequestHeight", from |-> n, to |-> m] : m \in Others(n)}
  /\ UNCHANGED <<db, state, applied, syncers, current, active, waited, calls, published, starts>>

BlockRequest(n, to, h) == [type |-> "RequestBlock", from |-> n, to |-> to, height |-> h]

\* Request block h of a peer; not while one for h waits.
RequestBlock(n, to, h) ==
  /\ calls' = [calls EXCEPT ![n] = @ \cup {h}]
  /\ msgs' = IF h \in calls[n] THEN msgs ELSE msgs \cup {BlockRequest(n, to, h)}

\* The queue is emptied up to the first syncer that is ahead of this node,
\* or whole.
TakenUpTo(n, i) ==
  /\ \A j \in 1 .. i - 1 : syncers[n][j].height <= Height(n)
  /\ syncers[n][i].height > Height(n) \/ i = Len(syncers[n])

\* A syncer that is ahead is asked for the next block.
Adopt(n, s) ==
  /\ current' = [current EXCEPT ![n] = s]
  /\ IF s.height > Height(n)
     THEN RequestBlock(n, s.id, Height(n) + 1) /\ active' = [active EXCEPT ![n] = TRUE]
     ELSE active' = [active EXCEPT ![n] = FALSE] /\ UNCHANGED <<calls, msgs>>

TakeSyncerAgain(n) ==   \* mutant
  /\ state[n] = "sync" /\ ~ Valid(n)
  /\ \E i \in DOMAIN syncers[n] : TakenUpTo(n, i) /\ Adopt(n, syncers[n][i])
  /\ UNCHANGED <<db, state, applied, syncers, waited, published, starts>>

TakeSyncer(n) ==
  /\ state[n] = "sync" /\ ~ Valid(n)
  /\ \E i \in DOMAIN syncers[n] :
       /\ TakenUpTo(n, i)
       /\ syncers' = [syncers EXCEPT ![n] = SubSeq(@, i + 1, Len(@))]
       /\ Adopt(n, syncers[n][i])
  /\ UNCHANGED <<db, state, applied, waited, published, starts>>

------------------------------------------------------------------------------
(***************************************************************************)
(* The ends of the waits.  A request waits 5 or 10 s for its answer, a     *)
(* syncer is given up 15 s after it was last asked.                        *)
(***************************************************************************)
WaitOver(n) ==
  /\ state[n] = "sync" /\ ~ waited[n]
  /\ waited' = [waited EXCEPT ![n] = TRUE]
  /\ UNCHANGED <<db, state, applied, syncers, current, active, calls, msgs, published, starts>>

CallExpires(n) ==
  /\ \E h \in calls[n] :
       /\ calls' = [calls EXCEPT ![n] = @ \ {h}]
  /\ UNCHANGED <<db, state, applied, syncers, current, active, waited, msgs, published, starts>>

SyncerExpires(n) ==
  /\ active[n] /\ calls[n] = {}
  /\ active' = [active EXCEPT ![n] = FALSE]
  /\ UNCHANGED <<db, state, applied, syncers, current, waited, calls, msgs, published, starts>>

------------------------------------------------------------------------------
(***************************************************************************)
(* handleMessage.                                                          *)
(***************************************************************************)
Receive(n, type) == {m \in msgs : m.type = type /\ m.to = n}

OnRequestHeight(n) ==
  /\ \E m \in Receive(n, "RequestHeight") :
       msgs' = (msgs \ {m}) \cup
         {[type |-> "ResponseHeight", from |-> n, to |-> m.from, height |-> Height(n)]}
  /\ UNCHANGED <<db, memory, published, starts>>

\* A peer that is ahead is put into the queue, in whatever state this node is.
OnResponseHeight(n) ==
  /\ \E m \in Receive(n, "ResponseHeight") :
       /\ m.height > Height(n)
       /\ msgs' = msgs \ {m}
       /\ syncers' = [syncers EXCEPT ![n] = Append(@, [id |-> m.from, height |-> m.height])]
  /\ UNCHANGED <<db, state, applied, current, active, waited, calls, published, starts>>

OnRequestBlock(n) ==
  /\ \E m \in Receive(n, "RequestBlock"), b \in db[n] :
       /\ b.height = m.height
       /\ msgs' = (msgs \ {m}) \cup
            {[type |-> "ResponseBlock", from |-> n, to |-> m.from, block |-> b]}
  /\ UNCHANGED <<db, memory, published, starts>>

(***************************************************************************)
(* handleResponseBlock: the next block is stored as it comes, and the one  *)
(* after it is asked for.  The answer is matched by its height alone: the  *)
(* index of the request restarts with the process, so that an answer to    *)
(* the process before can meet the same index.                             *)
(***************************************************************************)
MoreToFetchOneTooMany(n, h) == h <= current[n].height   \* mutant

MoreToFetch(n, h) == h < current[n].height

OnResponseBlock(n) ==
  /\ \E m \in Receive(n, "ResponseBlock") :
       LET h == m.block.height
       IN  /\ h \in calls[n]
           /\ IF h # Height(n) + 1
              THEN /\ calls' = [calls EXCEPT ![n] = @ \ {h}]
                   /\ msgs' = msgs \ {m}
                   /\ UNCHANGED <<db, active>>
              ELSE /\ db' = [db EXCEPT ![n] = Stored(n, m.block)]
                   /\ IF MoreToFetch(n, h)
                      THEN /\ calls' = [calls EXCEPT ![n] = (@ \ {h}) \cup {h + 1}]
                           /\ msgs' = (msgs \ {m}) \cup {BlockRequest(n, current[n].id, h + 1)}
                           /\ active' = [active EXCEPT ![n] = TRUE]
                      ELSE /\ calls' = [calls EXCEPT ![n] = @ \ {h}]
                           /\ msgs' = msgs \ {m}
                           /\ UNCHANGED active
  /\ UNCHANGED <<state, applied, syncers, current, waited, published, starts>>

(***************************************************************************)
(* A published block is accepted, in any state, if it is next, links to    *)
(* the last block (from height 2 on) and has the signatures of known       *)
(* commissioners: a node knows none before the genesis block was applied.  *)
(***************************************************************************)
FitsAnyHeight(n, b) == Height(n) > 0 => b.prev = Top(n)   \* mutant

Fits(n, b) ==
  /\ b.height = Height(n) + 1
  /\ Height(n) > 0 => b.prev = Top(n)

KnowsCommittee(n) == Genesis \in {applied[n][i] : i \in DOMAIN applied[n]}

OnPublishBlock(n) ==
  /\ \E m \in Receive(n, "PublishBlock") :
       /\ Fits(n, m.block) /\ KnowsCommittee(n)
       /\ applied' = [applied EXCEPT ![n] = Append(@, m.block)]
       /\ db' = [db EXCEPT ![n] = Stored(n, m.block)]
       /\ msgs' = msgs \ {m}
  /\ UNCHANGED <<state, syncers, current, active, waited, calls, published, starts>>

------------------------------------------------------------------------------
(***************************************************************************)
(* Normal_GenerateBlock, from the first request to the publication: more   *)
(* than half of the commissioners have signed a block that fits their      *)
(* chains (they do so in any state), and no second one of its height got   *)
(* as many.                                                                *)
(***************************************************************************)
NextBlock(n) == [height |-> Height(n) + 1, by |-> n, prev |-> Top(n)]

Publish(n) ==
  /\ state[n] = "normal" /\ KnowsCommittee(n)
  /\ Height(n) < MaxHeight
  /\ \A b \in published : b.height # Height(n) + 1
  /\ 2 * Cardinality({c \in Committee : Fits(c, NextBlock(n))}) > Cardinality(Committee)
  /\ published' = published \cup {NextBlock(n)}
  /\ msgs' = msgs \cup {[type |-> "PublishBlock", to |-> m, block |-> NextBlock(n)] : m \in Nodes}
  /\ UNCHANGED <<db, memory, starts>>

\* The process ends and a new one starts on the same database.
Restart(n) ==
  /\ n \in MayStart /\ starts < MaxStarts
  /\ starts' = starts + 1
  /\ state' = [state EXCEPT ![n] = "sync"]
  /\ applied' = [applied EXCEPT ![n] = <<>>]
  /\ syncers' = [syncers EXCEPT ![n] = <<>>]
  /\ current' = [current EXCEPT ![n] = NoSyncer]
  /\ active' = [active EXCEPT ![n] = FALSE]
  /\ waited' = [waited EXCEPT ![n] = FALSE]
  /\ calls' = [calls EXCEPT ![n] = {}]
  /\ UNCHANGED <<db, msgs, published>>

\* Some nodes join, which means that they have just started and have no block;
\* the others have accepted the genesis block.
InitWith(joiners) ==
  /\ db = [n \in Nodes |-> IF n \in joiners THEN {} ELSE {Genesis}]
  /\ state = [n \in Nodes |-> IF n \in joiners THEN "sync" ELSE "normal"]
  /\ applied = [n \in Nodes |-> IF n \in joiners THEN <<>> ELSE <<Genesis>>]
  /\ syncers = [n \in Nodes |-> <<>>]
  /\ current = [n \in Nodes |-> NoSyncer]
  /\ active = [n \in Nodes |-> FALSE]
  /\ waited = [n \in Nodes |-> FALSE]
  /\ calls = [n \in Nodes |-> {}]
  /\ msgs = {}
  /\ published = {}
  /\ starts = Cardinality(joiners)

Init == \E joiners \in SUBSET MayStart : Cardinality(joiners) <= MaxStarts /\ InitWith(joiners)

Synchronise(n) == EndSync(n) \/ AskHeight(n) \/ TakeSyncer(n)

Waits(n) == WaitOver(n) \/ CallExpires(n) \/ SyncerExpires(n)

Handle(n) ==
  \/ OnRequestHeight(n) \/ OnResponseHeight(n)
  \/ OnRequestBlock(n) \/ OnResponseBlock(n) \/ OnPublishBlock(n)

Next == \E n \in Nodes : \/ Synchronise(n) \/ Waits(n) \/ Handle(n)
                         \/ Publish(n) \/ Restart(n)

Spec == Init /\ [][Next]_vars

\* The loop of a node keeps calling run, every wait ends, and requests for
\* blocks and their answers are received.
Fairness ==
  \A n \in Nodes : /\ WF_vars(EndSync(n) \/ TakeSyncer(n))
                   /\ WF_vars(WaitOver(n)) /\ WF_vars(SyncerExpires(n))
                   /\ WF_vars(CallExpires(n))
                   /\ WF_vars(OnRequestBlock(n)) /\ WF_vars(OnResponseBlock(n))

FairSpec == Spec /\ Fairness
==============================================================================
