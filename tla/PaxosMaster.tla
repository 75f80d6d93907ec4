----------------------------- MODULE PaxosMaster -----------------------------
(***************************************************************************)
(* Master election of phxpaxos (src/PoVBlockchain/phxpaxos/src/master).     *)
(*                                                                         *)
(* The master is a state machine on the paxos log.  A node that sees no    *)
(* other master proposes an operation naming itself; the operation takes   *)
(* effect on every node that executes it, provided it carries the version  *)
(* that node has.  The node named by it is master until a deadline of its  *)
(* own clock fixed before it proposed; the others count a whole lease from *)
(* the moment they execute it.  MasterMgr::run renews and takes over.      *)
(*                                                                         *)
(* Paxos itself is PaxosLog's promise: one log, of which every node        *)
(* executes a prefix, and each instance takes one of the operations        *)
(* proposed for it (or a value of another state machine).                  *)
(***************************************************************************)
EXTENDS Integers, Sequences, FiniteSets

CONSTANTS Node,          \* the nodes of the group
          NoNode,        \* nullnode
          Leases,        \* lease times the program may set
          FirstLease,    \* the lease time a node starts with
          Margin,        \* what a master takes off its own lease, 100 ms in the code
          Drift,         \* how far two clocks may be apart
          CheckpointGap, \* the lag from which a learner is sent the master's variables
          MaxClock, MaxLog, MaxOps, MaxRestarts   \* bounds of the exploration

NoVersion == -1          \* (uint64_t)-1, the version before the first master

ASSUME ConstantsOK ==
    /\ NoNode \notin Node
    /\ Leases \subseteq Nat /\ FirstLease \in Leases
    /\ Margin \in Nat /\ Drift \in Nat
    /\ \A l \in Leases : l > Margin

\* The two clocks of a lease differ by less than the margin, when the lease
\* starts and when it ends.
ASSUME DriftWithinMargin == Drift + Drift <= Margin

VARIABLES
    clock,      \* [Node -> time]       each node's steady clock
    \* MasterStateMachine, in memory
    master,     \* m_iMasterNodeID
    version,    \* m_llMasterVersion
    expire,     \* m_llAbsExpireTime
    leaseTime,  \* m_iLeaseTime of the state machine
    \* MasterVariablesStore, on disk
    store,
    \* MasterMgr
    setting,    \* m_iLeaseTime of the manager, as the last round read it
    round,      \* the thread in TryBeMaster: where it is, what it read
    \* the group
    applied,    \* the instances each node has executed: its next instance
    ops,        \* operations proposed for the next instance of the log
    log,        \* the values chosen; instance i is log[i + 1]
    sent,       \* checkpoint buffers on their way
    restarts,
    \* history: the state every replica computes, hist[i + 1] before instance i
    hist

local  == <<master, version, expire, leaseTime, store>>
vars   == <<clock, local, setting, round, applied, ops, log, sent, restarts, hist>>

\* A chosen value: a master operation, or a value of another state machine.
Operation == [node : Node, version : Int, last : Int, lease : Leases, sid : Nat]
Other     == [node |-> NoNode, version |-> NoVersion, last |-> 0, lease |-> 0, sid |-> 0]

Variables(n, v, l) == [node |-> n, version |-> v, lease |-> l]
NoStore == Variables(NoNode, NoVersion, 0)

Idle == [pc |-> "idle", version |-> 0, lease |-> 0, sid |-> 0, last |-> 0]

Init ==
    /\ clock     = [n \in Node |-> 0]
    /\ master    = [n \in Node |-> NoNode]
    /\ version   = [n \in Node |-> NoVersion]
    /\ expire    = [n \in Node |-> 0]
    /\ leaseTime = [n \in Node |-> 0]
    /\ store     = [n \in Node |-> NoStore]
    /\ setting   = [n \in Node |-> FirstLease]
    /\ round     = [n \in Node |-> Idle]
    /\ applied   = [n \in Node |-> 0]
    /\ ops = {} /\ log = <<>> /\ sent = {} /\ restarts = 0
    /\ hist = <<[version |-> NoVersion, node |-> NoNode, lease |-> 0, sid |-> 0]>>

-----------------------------------------------------------------------------
(* The state machine's reading of an operation.                            *)

\* LearnMaster's repair: an operation that was proposed over another version
\* than the node's, and is younger than it, corrects the node's version.  A
\* last version of 0 reads as a field that was not set.
Fixed(v, i, op) ==
    IF op.last # 0 /\ v # NoVersion /\ i > v /\ op.last # v THEN op.last ELSE v

\* mutant: the version of the operation is not compared
AcceptsAnyVersion(v, i, op) == op.node # NoNode

Accepts(v, i, op) == op.node # NoNode /\ op.version = Fixed(v, i, op)

VersionAfter(v, i, op) ==
    IF op.node = NoNode THEN v
    ELSE IF Accepts(v, i, op) THEN i ELSE Fixed(v, i, op)

\* The replicated state after instance i, from the one before it.
HistAfter(h, i, op) ==
    IF Accepts(h.version, i, op)
      THEN [version |-> i, node |-> op.node, lease |-> op.lease, sid |-> op.sid]
      ELSE [h EXCEPT !.version = VersionAfter(h.version, i, op)]

\* SafeGetMaster, under the lock of the state machine.
SafeGetMaster(n) == IF clock[n] >= expire[n] THEN NoNode ELSE master[n]

IsIMMaster(n) == SafeGetMaster(n) = n

-----------------------------------------------------------------------------
(* MasterMgr::TryBeMaster                                                  *)

\* The lease time is read, l, which SetMasterLease may have changed since the
\* last round; then the master and its version: with another master in office
\* the thread goes back to sleep.
CheckMaster(n, l) ==
    /\ round[n].pc = "idle"
    /\ SafeGetMaster(n) \in {NoNode, n}
    /\ setting' = [setting EXCEPT ![n] = l]
    /\ round' = [round EXCEPT ![n] =
            [pc |-> "checked", version |-> version[n], lease |-> l, sid |-> 0, last |-> 0]]
    /\ UNCHANGED <<clock, local, applied, ops, log, sent, restarts, hist>>

\* The operation and the deadline are made; sid stands for the random tag that
\* tells one proposal of a node from the next, and is the time it was made.
MakeOperation(n) ==
    /\ round[n].pc = "checked"
    /\ round' = [round EXCEPT ![n] = [@ EXCEPT !.pc = "made", !.sid = clock[n]]]
    /\ UNCHANGED <<clock, local, setting, applied, ops, log, sent, restarts, hist>>

\* mutant: lease and tag swapped
MyOperationSwapped(n, last) ==
    [node |-> n, version |-> round[n].version, last |-> last,
     lease |-> round[n].sid, sid |-> round[n].lease]

MyOperation(n, last) ==
    [node |-> n, version |-> round[n].version, last |-> last,
     lease |-> round[n].lease, sid |-> round[n].sid]

\* The I/O loop starts the commit: BeforePropose adds the version of now, and
\* the value is proposed for the node's next instance; in vain if the node is
\* behind and the instance decided: its tag tells it from what was chosen.
StartCommit(n) ==
    /\ round[n].pc = "made"
    /\ \/ /\ applied[n] = Len(log)
          /\ Cardinality(ops) < MaxOps
          /\ round' = [round EXCEPT ![n] = [@ EXCEPT !.pc = "commit", !.last = version[n]]]
          /\ ops' = ops \cup {MyOperation(n, version[n])}
       \/ /\ applied[n] < Len(log)
          /\ round' = [round EXCEPT ![n] = [@ EXCEPT !.pc = "vain"]]
          /\ UNCHANGED ops
    /\ UNCHANGED <<clock, local, setting, applied, log, sent, restarts, hist>>

\* Propose returns without a result; the operation may still be chosen.
CommitTimeout(n) ==
    /\ round[n].pc \in {"made", "commit", "vain"}
    /\ round' = [round EXCEPT ![n] = Idle]
    /\ UNCHANGED <<clock, local, setting, applied, ops, log, sent, restarts, hist>>

-----------------------------------------------------------------------------
(* The group: paxos chooses, the nodes execute.                            *)

\* Instance Len(log) takes one of the operations proposed for it, or a value
\* of another state machine.  What lost is never proposed again.
Choose(op) ==
    /\ Len(log) < MaxLog
    /\ op \in ops \cup {Other}
    /\ log'  = Append(log, op)
    /\ hist' = Append(hist, HistAfter(hist[Len(hist)], Len(log), op))
    /\ ops'  = {}
    /\ UNCHANGED <<clock, local, setting, round, applied, sent, restarts>>

\* mutant: the master keeps the whole lease
ContextTimeoutWhole(n, op) ==
    IF round[n].pc = "commit" /\ op = MyOperation(n, round[n].last) THEN op.sid + op.lease ELSE 0

\* The deadline the commit context hands to Execute, 0 without a context: only
\* the proposal the thread waits for has one.
ContextTimeout(n, op) ==
    IF round[n].pc = "commit" /\ op = MyOperation(n, round[n].last)
      THEN op.sid + op.lease - Margin ELSE 0

\* mutant: the store is not written
LearnMasterInMemory(n, i, op) ==
    /\ UNCHANGED store
    /\ master' = [master EXCEPT ![n] = op.node]
    /\ expire' = [expire EXCEPT ![n] =
            IF op.node = n THEN ContextTimeout(n, op) ELSE clock[n] + op.lease]
    /\ leaseTime' = [leaseTime EXCEPT ![n] = op.lease]

\* LearnMaster of an operation that is accepted.
LearnMaster(n, i, op) ==
    /\ store'  = [store EXCEPT ![n] = Variables(op.node, i, op.lease)]
    /\ master' = [master EXCEPT ![n] = op.node]
    /\ expire' = [expire EXCEPT ![n] =
            IF op.node = n THEN ContextTimeout(n, op) ELSE clock[n] + op.lease]
    /\ leaseTime' = [leaseTime EXCEPT ![n] = op.lease]

\* Execute of the node's next instance; a thread that waits for it returns.
Execute(n) ==
    /\ applied[n] < Len(log)
    /\ LET i  == applied[n]
           op == log[i + 1] IN
       /\ IF Accepts(version[n], i, op) THEN LearnMaster(n, i, op)
                                        ELSE UNCHANGED <<store, master, expire, leaseTime>>
       /\ version' = [version EXCEPT ![n] = VersionAfter(version[n], i, op)]
    /\ applied' = [applied EXCEPT ![n] = @ + 1]
    /\ round' = IF round[n].pc \in {"commit", "vain"} THEN [round EXCEPT ![n] = Idle] ELSE round
    /\ UNCHANGED <<clock, setting, ops, log, sent, restarts, hist>>

\* Init after a crash: the variables come from disk, a node that was master
\* forgets it, one that was not grants a whole lease again.  The log is
\* executed again from some instance, the checkpoint's.
Restart(n) ==
    /\ restarts < MaxRestarts
    /\ restarts' = restarts + 1
    /\ version' = [version EXCEPT ![n] = store[n].version]
    /\ master'  = [master EXCEPT ![n] = IF store[n].node = n THEN NoNode ELSE store[n].node]
    /\ expire'  = [expire EXCEPT ![n] =
            IF store[n].version = NoVersion \/ store[n].node = n THEN 0
            ELSE clock[n] + store[n].lease]
    /\ leaseTime' = [leaseTime EXCEPT ![n] = 0]
    /\ setting'   = [setting EXCEPT ![n] = FirstLease]
    /\ round'     = [round EXCEPT ![n] = Idle]
    /\ \E i \in 0..applied[n] : applied' = [applied EXCEPT ![n] = i]
    /\ UNCHANGED <<clock, store, ops, log, sent, hist>>

Tick(n) ==
    /\ clock[n] < MaxClock
    /\ \A m \in Node : clock[n] < clock[m] + Drift \/ m = n
    /\ clock' = [clock EXCEPT ![n] = @ + 1]
    /\ UNCHANGED <<local, setting, round, applied, ops, log, sent, restarts, hist>>

-----------------------------------------------------------------------------
(* Checkpoints: the learner's message to a node that is far behind.        *)

\* GetCheckpointBuffer, sent by SendNowInstanceID to a node that asked at an
\* instance more than CheckpointGap behind.
SendCheckpoint(m, n) ==
    /\ m # n
    /\ version[m] # NoVersion
    /\ \E ask \in 0..applied[n] : applied[m] - ask > CheckpointGap
    /\ sent' = sent \cup {[to |-> n, cp |-> Variables(master[m], version[m], leaseTime[m])]}
    /\ UNCHANGED <<clock, local, setting, round, applied, ops, log, restarts, hist>>

\* UpdateByCheckpoint, from OnSendNowInstanceID.
UpdateByCheckpoint(n, cp) ==
    /\ [to |-> n, cp |-> cp] \in sent
    /\ cp.version > version[n] \/ version[n] = NoVersion
    /\ store'   = [store EXCEPT ![n] = cp]
    /\ version' = [version EXCEPT ![n] = cp.version]
    /\ master'  = [master EXCEPT ![n] = IF cp.node = n THEN NoNode ELSE cp.node]
    /\ expire'  = [expire EXCEPT ![n] = IF cp.node = n THEN 0 ELSE clock[n] + cp.lease]
    /\ UNCHANGED <<clock, leaseTime, setting, round, applied, ops, log, sent, restarts, hist>>

-----------------------------------------------------------------------------
\* What a node does by itself; l is the lease time it finds set.
NodeStep(n) ==
    \/ MakeOperation(n) \/ StartCommit(n) \/ CommitTimeout(n)
    \/ Execute(n) \/ Restart(n) \/ Tick(n)

ChooseStep == \E op \in ops \cup {Other} : Choose(op)

\* The election as long as nodes learn the log itself, and the program never
\* shortens the lease of a running node.
Next ==
    \/ \E n \in Node, l \in Leases : l >= setting[n] /\ CheckMaster(n, l)
    \/ \E n \in Node : NodeStep(n)
    \/ ChooseStep

Spec == Init /\ [][Next]_vars

\* ... with checkpoints sent to nodes that are behind.
CheckpointStep ==
    \/ \E m, n \in Node : SendCheckpoint(m, n)
    \/ \E s \in sent : UpdateByCheckpoint(s.to, s.cp)

SpecCheckpoint == Init /\ [][Next \/ CheckpointStep]_vars

\* ... and with a program that shortens the lease while the node runs.
ShortenStep == \E n \in Node, l \in Leases : l < setting[n] /\ CheckMaster(n, l)

SpecShorten == Init /\ [][Next \/ ShortenStep]_vars
=============================================================================
