-------------------------- MODULE MCPaxosCheckpoint --------------------------
(***************************************************************************)
(* The nodes outside Behind have chosen, executed and put into their        *)
(* checkpoint the first two instances, before the others have heard of any: *)
(* a state that PaxosCheckpoint!Spec reaches.                               *)
(***************************************************************************)
EXTENDS PaxosCheckpointSafety, TLC

CONSTANT Behind

Executed == [NewDisk EXCEPT !.log = {0, 1}, !.cp = 2, !.parts = Whole(2)]

BehindInit ==
    /\ disk = [n \in Node |-> IF n \in Behind THEN NewDisk ELSE Executed]
    /\ mem = [n \in Node |-> Started(disk[n])]
    /\ sender = [n \in Node |-> NoSender]
    /\ msgs = {} /\ sessions = 0
    /\ top = 2 /\ voted = {}
    /\ tainted = {} /\ hasty = {} /\ faults = 0

\* Of the nodes that are ahead only one that is sending a checkpoint crashes.
BehindNext == Next /\ \A n \in Node \ Behind : Crash(n) => sender[n] # NoSender

SpecBehind == BehindInit /\ [][BehindNext]_vars

Symm == Permutations(Node \ Behind)
=============================================================================
