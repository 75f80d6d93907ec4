-------------------------- MODULE PaxosCheckpoint ---------------------------
(***************************************************************************)
(* Checkpoints of phxpaxos (src/PoVBlockchain/phxpaxos/src/checkpoint and   *)
(* algorithm/checkpoint_*, learner.cpp, instance.cpp): the replayer moves   *)
(* the state machine's checkpoint forward, the cleaner deletes the paxos    *)
(* log below it, and a node that is further behind than the others' logs    *)
(* reach pulls a checkpoint from one of them: it clears its own log, takes  *)
(* the files, loads them and exits.                                         *)
(*                                                                         *)
(* Paxos itself is taken at its promise, one value per instance, so that a  *)
(* record is its instance; whether enough nodes keep what the promise rests *)
(* on is what is checked.  One user state machine has the checkpoint.       *)
(*                                                                         *)
(* Acknowledgements only slow a sender down: it may give up at any block.   *)
(* A checkpoint's begin message, sent twice in a row, is one message.       *)
(***************************************************************************)
EXTENDS Integers, FiniteSets, FiniteSetsExt

CONSTANTS Node,         \* the nodes of the group
          NoNode,       \* nullnode
          HoldCount,    \* m_llHoldCount of the cleaner
          SaveInterval, \* DELETE_SAVE_INTERVAL
          Files,        \* the blocks a checkpoint is sent in
          LastInstance, MaxSessions, MaxFaults
                        \* bounds: instances, checkpoints sent, crashes and own promises

ASSUME ConstantsOK == /\ IsFiniteSet(Node) /\ NoNode \notin Node
                      /\ {LastInstance, MaxSessions, MaxFaults} \subseteq Nat
                      /\ {HoldCount, SaveInterval, Files} \subseteq Nat \ {0}

VARIABLES
    disk,       \* what a node keeps: its paxos log, min chosen, checkpoint, cp_tmp
    mem,        \* its process
    sender,     \* m_poCheckpointSender
    msgs,       \* requests for a checkpoint, and checkpoint messages
    sessions,   \* checkpoint senders started: the uuid of the next
    \* consensus, Paxos's promise
    top,        \* the instances chosen: 0 .. top - 1
    voted,      \* the nodes that have voted in instance top
    \* history and bounds
    tainted,    \* nodes that wrote to their log in a pull that has not ended
    hasty,      \* nodes that asked for a checkpoint lacking the last chosen instance only
    faults

vars == <<disk, mem, sender, msgs, sessions, top, voted, tainted, hasty, faults>>

Majority == Cardinality(Node) \div 2 + 1

\* A checkpoint is the number of instances it has executed; 0 is NoCheckpoint.
\* The code's number is one less, and (uint64_t)-1 for none, above every instance.
TooLarge == LastInstance + 2
CheckpointInstanceID(c) == IF c = 0 THEN TooLarge ELSE c - 1

FileCount(c) == IF c = 0 THEN 0 ELSE Files
Whole(c)     == {<<c, f>> : f \in 1..FileCount(c)}

-----------------------------------------------------------------------------
(* Start of a process on what the disk holds.                              *)

Records(d) == d.log \cup d.promise
MaxInstanceID(d) == IF Records(d) = {} THEN 0 ELSE Max(Records(d))

\* Cleaner::FixMinChosenInstanceID: the deletions since min was last saved
FixMinChosen(d) ==
    Min({i \in d.min .. (d.min + SaveInterval) :
            i >= d.cp \/ i \in Records(d) \/ i = d.min + SaveInterval})

NowAtStart(d) == Max({d.cp, MaxInstanceID(d)})

PlayLogFails(d) ==
    /\ d.cp < MaxInstanceID(d)
    /\ \/ d.cp < FixMinChosen(d)
       \/ ~(d.cp .. (MaxInstanceID(d) - 1) \subseteq Records(d))

\* ProtectionLogic_IsCheckpointInstanceIDCorrect
AheadOfLog(d) == d.cp > MaxInstanceID(d) + 1
ProtectionFails(d) == AheadOfLog(d) /\ MaxInstanceID(d) # 0

StartFails(d) == PlayLogFails(d) \/ ProtectionFails(d)

MinAtStart(d) ==
    IF AheadOfLog(d) /\ ~ProtectionFails(d) THEN d.cp ELSE FixMinChosen(d)

NoReceiver == [from |-> NoNode, uuid |-> 0, seq |-> 0]
NoSender   == [to |-> NoNode, uuid |-> 0, seq |-> 0]

Started(d) == [up |-> ~StartFails(d), now |-> NowAtStart(d), min |-> MinAtStart(d),
               lastSave |-> 0, todo |-> {}, asking |-> FALSE, rcv |-> NoReceiver,
               pull |-> "none"]

StartOn(n, d) ==
    /\ disk'   = [disk EXCEPT ![n] = [d EXCEPT !.min = MinAtStart(d)]]
    /\ mem'    = [mem EXCEPT ![n] = Started(d)]
    /\ sender' = [sender EXCEPT ![n] = NoSender]
    /\ msgs'   = {c \in msgs : c.to # n}

NewDisk == [log |-> {}, promise |-> {}, min |-> 0, cp |-> 0, parts |-> {}, tmp |-> {}]

Init ==
    /\ disk = [n \in Node |-> NewDisk]
    /\ mem = [n \in Node |-> Started(NewDisk)]
    /\ sender = [n \in Node |-> NoSender]
    /\ msgs = {} /\ sessions = 0
    /\ top = 0 /\ voted = {}
    /\ tainted = {} /\ hasty = {} /\ faults = 0

-----------------------------------------------------------------------------
(* The log grows: votes, promises, learned values.                         *)

\* A record written while the checkpoint that is pulled is not loaded: by the
\* process that pulls it, or by one that started on what the pull left.
Unloaded(n) == mem[n].pull # "none" \/ disk[n].min > disk[n].cp
Tainted(n) == tainted' = IF Unloaded(n) THEN tainted \cup {n} ELSE tainted

\* Acceptor::OnAccept, for a message; none is handled while a checkpoint is asked
\* for.  Who is behind meets in its instance only others that are.
Vote(n) ==
    LET counted == voted \cup {n}
        chosen  == Cardinality(counted) >= Majority
    IN /\ mem[n].up /\ ~mem[n].asking
       /\ mem[n].now = top /\ top < LastInstance /\ n \notin voted
       /\ disk' = [disk EXCEPT ![n].log = @ \cup {top}, ![n].promise = {}]
       /\ voted' = IF chosen THEN {} ELSE counted
       /\ top' = IF chosen THEN top + 1 ELSE top
       /\ hasty' = IF chosen THEN {} ELSE hasty
       /\ Tainted(n)
       /\ UNCHANGED <<mem, sender, msgs, sessions, faults>>

\* Acceptor::OnPrepare, or with a skipped prepare OnAccept, for the node's own
\* proposer, which runs while a checkpoint is asked for, too: either way a record
\* of the present instance that is no vote for what others have chosen in it.
\* Explored there only.
Promise(n) ==
    LET i == mem[n].now
    IN /\ mem[n].up /\ mem[n].asking /\ faults < MaxFaults
       /\ i < LastInstance /\ i \notin disk[n].log /\ i \notin disk[n].promise
       /\ disk' = [disk EXCEPT ![n].promise = {i}]
       /\ faults' = faults + 1
       /\ Tainted(n)
       /\ UNCHANGED <<mem, sender, msgs, sessions, top, voted, hasty>>

NextInstance(n) == mem' = [mem EXCEPT ![n].now = @ + 1]

\* Learner::OnProposerSendSuccess: the value the node voted for was chosen
LearnOwn(n) ==
    /\ mem[n].up /\ ~mem[n].asking
    /\ mem[n].now < top /\ mem[n].now \in disk[n].log
    /\ NextInstance(n)
    /\ UNCHANGED <<disk, sender, msgs, sessions, top, voted, tainted, hasty, faults>>

\* LearnerSender::SendOne of m and Learner::OnSendLearnValue of n
LearnFrom(n, m) ==
    LET i == mem[n].now
    IN /\ mem[n].up /\ ~mem[n].asking /\ mem[m].up
       /\ i < mem[m].now /\ i \in disk[m].log
       /\ disk' = [disk EXCEPT ![n].log = @ \cup {i}, ![n].promise = {}]
       /\ NextInstance(n)
       /\ Tainted(n)
       /\ UNCHANGED <<sender, msgs, sessions, top, voted, hasty, faults>>

-----------------------------------------------------------------------------
(* Replayer and cleaner.                                                   *)

\* Replayer::PlayOne; a checkpoint that is being sent has it paused.
PlayOne(n) ==
    LET c == disk[n].cp
    IN /\ mem[n].up /\ sender[n] = NoSender
       /\ c < mem[n].now /\ c \in disk[n].log
       /\ disk' = [disk EXCEPT ![n].cp = c + 1, ![n].parts = Whole(c + 1)]
       /\ UNCHANGED <<mem, sender, msgs, sessions, top, voted, tainted, hasty, faults>>

\* Mutant: no instance is held back.
MayDeleteAll(n, i) == i <= disk[n].cp /\ i <= mem[n].now

MayDelete(n, i) == i + HoldCount < disk[n].cp /\ i + HoldCount < mem[n].now

SavesMin(n, i) == i >= mem[n].lastSave + SaveInterval

\* Cleaner::run reads minimum, checkpoint and present instance at the start of a
\* pass, and sleeps between the deletions of the pass.  A pass that would only
\* repeat the last deletion changes nothing and is left out.
CleanerPass(n) ==
    LET pass == {i \in mem[n].min .. mem[n].now : MayDelete(n, i)}
    IN /\ mem[n].up /\ mem[n].todo = {}
       /\ \E i \in pass : i > mem[n].min \/ i \in disk[n].log \/ SavesMin(n, i)
       /\ mem' = [mem EXCEPT ![n].todo = pass]
       /\ UNCHANGED <<disk, sender, msgs, sessions, top, voted, tainted, hasty, faults>>

\* History: a node that wrote nothing since a pull set its minimum can only be
\* deleting what a pass from before the pull has left; that sets it back.
PullAfterDelete(n) ==
    IF mem[n].pull = "further" /\ n \notin tainted THEN "overrun" ELSE mem[n].pull

\* DeleteOne.  The last deleted instance is what the cache has for its minimum,
\* except when the next one is saved.
DeleteOne(n) ==
    \E i \in mem[n].todo :
       LET min == IF SavesMin(n, i) THEN i + 1 ELSE i
       IN /\ mem[n].up /\ \A j \in mem[n].todo : i <= j
          /\ disk' = [disk EXCEPT ![n].log = @ \ {i},
                                  ![n].min = IF SavesMin(n, i) THEN min ELSE @]
          /\ mem' = [mem EXCEPT ![n].todo = @ \ {i}, ![n].min = min,
                                ![n].lastSave = IF SavesMin(n, i) THEN i ELSE @,
                                ![n].pull = PullAfterDelete(n)]
          /\ UNCHANGED <<sender, msgs, sessions, top, voted, tainted, hasty, faults>>

-----------------------------------------------------------------------------
(* Asking for a checkpoint.                                                *)

Ask(n, m) == [type |-> "ask", from |-> n, to |-> m]

\* Learner::OnSendNowInstanceID with the answer of m, which has deleted what n
\* needs, and CheckpointMgr::PrepareForAskforCheckpoint: a majority said so, or
\* 60 s have passed since one did.  Answers repeat, so that one node saying so
\* is enough in the end.
AskforCheckpoint(n, m) ==
    /\ mem[n].up /\ ~mem[n].asking /\ mem[m].up /\ ~mem[m].asking
    /\ mem[n].now < mem[m].now
    /\ mem[m].min > mem[n].now
    /\ sessions + Cardinality({a \in msgs : a.type = "ask"}) < MaxSessions
    /\ mem' = [mem EXCEPT ![n].asking = TRUE]
    /\ msgs' = msgs \cup {Ask(n, m)}
    /\ hasty' = IF mem[n].now + 1 = top THEN hasty \cup {n} ELSE hasty
    /\ UNCHANGED <<disk, sender, sessions, top, voted, tainted, faults>>

\* Timer_Learner_Askforlearn_noop: the node learns again.
AskforLearn_Noop(n) ==
    /\ mem[n].up /\ mem[n].asking
    /\ mem' = [mem EXCEPT ![n].asking = FALSE]
    /\ UNCHANGED <<disk, sender, msgs, sessions, top, voted, tainted, hasty, faults>>

-----------------------------------------------------------------------------
(* CheckpointSender, a thread of its own.                                  *)

\* GetNewCheckpointSender: one at a time.
OnAskforCheckpoint(x) ==
    \E a \in msgs :
        /\ a.type = "ask" /\ a.to = x
        /\ mem[x].up /\ ~mem[x].asking
        /\ sender[x] = NoSender
        /\ sessions' = sessions + 1
        /\ sender' = [sender EXCEPT ![x] = [NoSender EXCEPT !.to = a.from, !.uuid = sessions + 1]]
        /\ msgs' = msgs \ {a}
        /\ UNCHANGED <<disk, mem, top, voted, tainted, hasty, faults>>

Sent(x, flag, file) ==
    [type |-> "file", flag |-> flag, from |-> x, to |-> sender[x].to,
     uuid |-> sender[x].uuid, seq |-> sender[x].seq, cp |-> disk[x].cp, file |-> file]

Sends(x, flag, file, next) ==
    /\ msgs' = msgs \cup {Sent(x, flag, file)}
    /\ sender' = [sender EXCEPT ![x] = next]
    /\ UNCHANGED <<disk, mem, sessions, top, voted, tainted, hasty, faults>>

SendBegin(x) ==
    /\ sender[x] # NoSender /\ sender[x].seq = 0
    /\ Sends(x, "begin", 0, [sender[x] EXCEPT !.seq = 1])

\* Mutant: one block too many.
SendFileTooFar(x) ==
    /\ sender[x] # NoSender /\ sender[x].seq \in 1 .. (FileCount(disk[x].cp) + 1)
    /\ Sends(x, "ing", sender[x].seq, [sender[x] EXCEPT !.seq = @ + 1])

\* SendBuffer
SendFile(x) ==
    /\ sender[x] # NoSender /\ sender[x].seq \in 1..FileCount(disk[x].cp)
    /\ Sends(x, "ing", sender[x].seq, [sender[x] EXCEPT !.seq = @ + 1])

SendEnd(x) ==
    /\ sender[x] # NoSender /\ sender[x].seq = FileCount(disk[x].cp) + 1
    /\ Sends(x, "end", 0, NoSender)

\* CheckAck, in SendBuffer: no acknowledgement in time, or a failure reported.
GiveUp(x) ==
    /\ sender[x] # NoSender /\ sender[x].seq \in 1..FileCount(disk[x].cp)
    /\ sender' = [sender EXCEPT ![x] = NoSender]
    /\ UNCHANGED <<disk, mem, msgs, sessions, top, voted, tainted, hasty, faults>>

-----------------------------------------------------------------------------
(* The receiver.                                                           *)

\* One connection keeps the order of a sender's messages.
Arrives(c) == \A d \in msgs : d.type = "file" /\ d.uuid = c.uuid => c.seq <= d.seq

Receives(c, flag) == /\ c.type = "file" /\ c.flag = flag
                     /\ mem[c.to].up /\ mem[c.to].asking /\ Arrives(c)

\* ClearCheckpointTmp and ClearAllLog of NewReceiver: the database is new, and
\* so is its min chosen.
Cleared(d) == [d EXCEPT !.log = {}, !.promise = {}, !.tmp = {}, !.min = 0]

\* History: whether the pull takes the node further than it is.
Pull(c) == IF c.cp # 0 /\ c.cp < mem[c.to].now THEN "stale" ELSE "further"

\* Mutant: the minimum is not set.
BeginKeepsMin(c) ==
    LET n == c.to
    IN /\ Receives(c, "begin")
       /\ disk' = [disk EXCEPT ![n] = [Cleared(@) EXCEPT !.min = disk[n].min]]
       /\ mem' = [mem EXCEPT ![n].rcv = [from |-> c.from, uuid |-> c.uuid, seq |-> 0],
                             ![n].pull = Pull(c)]
       /\ tainted' = tainted \ {n}
       /\ msgs' = msgs \ {c}
       /\ UNCHANGED <<sender, sessions, top, voted, hasty, faults>>

OnSendCheckpoint_Begin(c) ==
    LET n == c.to
    IN /\ Receives(c, "begin")
       /\ disk' = [disk EXCEPT ![n] = [Cleared(@) EXCEPT !.min = CheckpointInstanceID(c.cp)]]
       /\ mem' = [mem EXCEPT ![n].rcv = [from |-> c.from, uuid |-> c.uuid, seq |-> 0],
                             ![n].min = CheckpointInstanceID(c.cp), ![n].pull = Pull(c)]
       /\ tainted' = tainted \ {n}
       /\ msgs' = msgs \ {c}
       /\ UNCHANGED <<sender, sessions, top, voted, hasty, faults>>

Failed(c) ==
    /\ mem' = [mem EXCEPT ![c.to].rcv = NoReceiver]
    /\ msgs' = msgs \ {c}
    /\ UNCHANGED <<disk, sender, sessions, top, voted, tainted, hasty, faults>>

SameSession(c) == c.from = mem[c.to].rcv.from /\ c.uuid = mem[c.to].rcv.uuid

\* Mutant: a block that was lost is not missed.
NoLaterThanSeen(c) == SameSession(c) /\ c.seq > mem[c.to].rcv.seq

\* ReceiveCheckpoint
InSequence(c) == SameSession(c) /\ c.seq = mem[c.to].rcv.seq + 1

OnSendCheckpoint_Ing(c) ==
    /\ Receives(c, "ing")
    /\ \/ /\ InSequence(c)
          /\ disk' = [disk EXCEPT ![c.to].tmp = @ \cup {<<c.cp, c.file>>}]
          /\ mem' = [mem EXCEPT ![c.to].rcv.seq = @ + 1]
          /\ msgs' = msgs \ {c}
          /\ UNCHANGED <<sender, sessions, top, voted, tainted, hasty, faults>>
       \/ ~InSequence(c) /\ Failed(c)

\* IsReceiverFinish
Finished(c) == InSequence(c)

Loaded(d, c) == IF d.tmp = {} THEN d ELSE [d EXCEPT !.cp = c.cp, !.parts = d.tmp]

\* The state machine loads the files and the process exits and starts again.
OnSendCheckpoint_End(c) ==
    /\ Receives(c, "end")
    /\ \/ /\ Finished(c)
          /\ StartOn(c.to, Loaded(disk[c.to], c))
          /\ UNCHANGED <<sessions, top, voted, tainted, hasty, faults>>
       \/ ~Finished(c) /\ Failed(c)

-----------------------------------------------------------------------------
\* A crash, and the start after it.
Crash(n) ==
    /\ mem[n].up /\ faults < MaxFaults
    /\ StartOn(n, disk[n])
    /\ faults' = faults + 1
    /\ UNCHANGED <<sessions, top, voted, tainted, hasty>>

\* A crash in OnSendCheckpoint_Begin, between ClearAllLog and SetMinChosenInstanceID
CrashInBegin(c) ==
    /\ Receives(c, "begin") /\ faults < MaxFaults
    /\ StartOn(c.to, Cleared(disk[c.to]))
    /\ faults' = faults + 1
    /\ tainted' = tainted \ {c.to}
    /\ UNCHANGED <<sessions, top, voted, hasty>>

\* The connection breaks, or the node does not ask for a checkpoint any more.
Lose(c) ==
    /\ c.type = "file" /\ Arrives(c)
    /\ msgs' = msgs \ {c}
    /\ UNCHANGED <<disk, mem, sender, sessions, top, voted, tainted, hasty, faults>>

NodeStep(n) == Vote(n) \/ Promise(n) \/ LearnOwn(n) \/ PlayOne(n) \/ CleanerPass(n)
               \/ DeleteOne(n) \/ AskforLearn_Noop(n) \/ Crash(n)
PairStep(n, m) == LearnFrom(n, m) \/ AskforCheckpoint(n, m)
SenderStep(x) == OnAskforCheckpoint(x) \/ SendBegin(x) \/ SendFile(x) \/ SendEnd(x)
                 \/ GiveUp(x)
ReceiverStep(c) == OnSendCheckpoint_Begin(c) \/ OnSendCheckpoint_Ing(c)
                   \/ OnSendCheckpoint_End(c) \/ Lose(c) \/ CrashInBegin(c)

Next == \/ \E n \in Node : NodeStep(n) \/ SenderStep(n) \/ \E m \in Node : PairStep(n, m)
        \/ \E c \in msgs : ReceiverStep(c)

Spec == Init /\ [][Next]_vars
=============================================================================
