------------------------ MODULE PaxosCheckpointSafety ------------------------
(***************************************************************************)
(* What a group relies on whose nodes delete their logs and pull each       *)
(* other's checkpoints.                                                    *)
(***************************************************************************)
EXTENDS PaxosCheckpoint

Instances == 0 .. LastInstance

TypeOK ==
    /\ \A n \in Node :
         /\ disk[n].log \subseteq Instances /\ disk[n].promise \subseteq Instances
         /\ disk[n].cp \in Instances /\ disk[n].min \in 0 .. TooLarge
         /\ disk[n].tmp \cup disk[n].parts \subseteq Instances \X (1 .. Files)
         /\ mem[n].up \in BOOLEAN /\ mem[n].asking \in BOOLEAN
         /\ mem[n].now \in Instances /\ mem[n].min \in 0 .. TooLarge
         /\ mem[n].lastSave \in Instances /\ mem[n].todo \subseteq Instances
         /\ mem[n].rcv.from \in Node \cup {NoNode}
         /\ mem[n].rcv.uuid \in 0 .. MaxSessions /\ mem[n].rcv.seq \in 0 .. Files
         /\ sender[n].to \in Node \cup {NoNode}
         /\ sender[n].uuid \in 0 .. MaxSessions /\ sender[n].seq \in 0 .. Files + 1
    /\ \A c \in msgs : c.from \in Node /\ c.to \in Node /\ c.type \in {"ask", "file"}
    /\ \A n \in Node : mem[n].pull \in {"none", "further", "overrun", "stale"}
    /\ top \in Instances /\ {voted, tainted, hasty} \subseteq SUBSET Node
    /\ sessions \in 0 .. MaxSessions /\ faults \in 0 .. MaxFaults

(***************************************************************************)
(* Of the nodes of a majority none but a minority forgets an instance that  *)
(* was chosen: a node keeps its record, or starts above it and is asked     *)
(* no more (Cleaner::run, CheckpointReceiver::NewReceiver, Instance::Init). *)
(* A vote in an instance not chosen yet is never lost.  The nodes that ask  *)
(* for a checkpoint although they lack only the last chosen instance, in    *)
(* which they may have voted, are not counted until the next one is chosen. *)
(***************************************************************************)
Remembers(n, i) == i \in disk[n].log \/ NowAtStart(disk[n]) > i

Forgetters(i) == {n \in Node : ~Remembers(n, i)}

QuorumRemembers ==
    /\ \A i \in 0 .. (top - 1) : Cardinality(Forgetters(i) \ hasty) < Majority
    /\ \A n \in voted : top \in disk[n].log

(***************************************************************************)
(* Whatever a pull leaves behind when it breaks off, at whichever message   *)
(* or crash, the node can start again (Instance::PlayLog, ProtectionLogic),  *)
(* unless it has written to its log since the pull cleared it.               *)
(***************************************************************************)
CanRestart == \A n \in Node : n \notin tainted => ~StartFails(disk[n])

(***************************************************************************)
(* What the state machine has loaded are all the files of one checkpoint,   *)
(* the one whose instance it names, however senders and receivers change    *)
(* in between (CheckpointReceiver::ReceiveCheckpoint, OnSendCheckpoint_End). *)
(***************************************************************************)
LoadedWhole == \A n \in Node : disk[n].parts = Whole(disk[n].cp)

(***************************************************************************)
(* A node that answers for the instances above its minimum has their        *)
(* records (Learner::OnAskforLearn), so that a learner that is above the     *)
(* minimum is not sent to a log with a hole; of the minimum itself the       *)
(* record may be gone.  Three kinds of nodes are left out: those that wrote  *)
(* to their log in a pull that broke off, as in CanRestart; those that pull  *)
(* a checkpoint below the instance they are at; and those whose cleaner went *)
(* on with a pass from before the pull and set the minimum back.             *)
(***************************************************************************)
LogAboveMin ==
    \A n \in Node : mem[n].up /\ n \notin tainted /\ mem[n].pull \in {"none", "further"} =>
        (mem[n].min + 1) .. (mem[n].now - 1) \subseteq disk[n].log
=============================================================================
