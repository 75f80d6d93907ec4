------------------------- MODULE MCPaxosCheckpointLag -------------------------
(***************************************************************************)
(* Two states of five nodes that PaxosCheckpoint!Spec reaches, and what     *)
(* QuorumRemembers and LogAboveMin would say without their exceptions, which *)
(* is violated from there.                                                  *)
(***************************************************************************)
EXTENDS PaxosCheckpointSafety, TLC

CONSTANTS a, b, c, d, e

At(disks, positions) ==
    /\ disk = disks
    /\ mem = [n \in Node |-> [Started(disks[n]) EXCEPT !.now = positions[n]]]
    /\ sender = [n \in Node |-> NoSender]
    /\ msgs = {} /\ sessions = 0 /\ voted = {}
    /\ tainted = {} /\ hasty = {} /\ faults = 0

Kept(log, min, cp) ==
    [NewDisk EXCEPT !.log = log, !.min = min, !.cp = cp, !.parts = Whole(cp)]

\* a, b and c have chosen three instances.  a has cleaned its log, b and c have
\* not learned the last, e has loaded a's checkpoint, d knows nothing.
HastyInit ==
    /\ top = 3
    /\ At((a :> Kept({2}, 2, 3)) @@ (b :> Kept({0, 1, 2}, 0, 0)) @@ (c :> Kept({0, 1, 2}, 0, 0))
              @@ (d :> NewDisk) @@ (e :> [Kept({}, 3, 3) EXCEPT !.tmp = Whole(3)]),
          (a :> 3) @@ (b :> 2) @@ (c :> 2) @@ (d :> 0) @@ (e :> 3))

\* The others have chosen and cleaned six; d is at 2 and e at 3.
StaleInit ==
    /\ top = 6
    /\ At([n \in {a, b, c} |-> Kept({4, 5}, 4, 6)]
              @@ (d :> Kept({0, 1}, 0, 0)) @@ (e :> Kept({0, 1, 2}, 0, 1)),
          [n \in {a, b, c} |-> 6] @@ (d :> 2) @@ (e :> 3))

HastySpec == HastyInit /\ [][Next]_vars
StaleSpec == StaleInit /\ [][Next]_vars

\* b, c or d ask e for a checkpoint, clear their logs and get none.
MajorityRemembers == \A i \in 0 .. (top - 1) : Cardinality(Forgetters(i)) < Majority

\* e asks and gives up with a minimum above its checkpoint; so d asks e.
NoHole ==
    \A n \in Node : mem[n].up /\ n \notin tainted =>
        (mem[n].min + 1) .. (mem[n].now - 1) \subseteq disk[n].log
=============================================================================
