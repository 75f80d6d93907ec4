-------------------------- MODULE PaxosMasterSafety --------------------------
(* What the election promises, and the invariant its proof rests on.       *)
EXTENDS PaxosMaster

\* Type invariant; leases, versions and deadlines are numbers of the code's
\* MasterVariables and MasterOperator.
RoundState == [pc : {"idle", "checked", "made", "commit", "vain"},
               version : Int, lease : Nat, sid : Nat, last : Int]
HistState == [version : Int, node : Node \cup {NoNode}, lease : Nat, sid : Nat]
TypeOK ==
    /\ clock \in [Node -> Nat]
    /\ master \in [Node -> Node \cup {NoNode}]
    /\ version \in [Node -> Int]
    /\ expire \in [Node -> Int]
    /\ leaseTime \in [Node -> Nat]
    /\ store \in [Node -> [node : Node \cup {NoNode}, version : Int, lease : Nat]]
    /\ setting \in [Node -> Leases]
    /\ round \in [Node -> RoundState]
    /\ applied \in [Node -> Nat]
    /\ ops \subseteq Operation
    /\ log \in Seq(Operation \cup {Other})
    /\ restarts \in Nat
    /\ hist \in Seq(HistState)

\* At any moment at most one node considers itself master.
AtMostOneMaster ==
    \A m, n \in Node : IsIMMaster(m) /\ IsIMMaster(n) => m = n

\* A node takes the office over from another only when no node can still
\* believe in the lease of the one before: its clock is past the deadline.
TakeoverAfterExpiry ==
    [][LET old == hist[Len(hist)]
           new == hist'[Len(hist')] IN
       new.node # old.node /\ old.node # NoNode
         => clock[old.node] >= old.sid + old.lease - Margin]_hist

\* Replicas agree: a node's version is the one the log gives at some instance
\* it has reached or has heard of, and the master it names is that one's.
ReplicasAgree ==
    \A n \in Node : \E i \in applied[n]..Len(log) :
        /\ version[n] = hist[i + 1].version
        /\ master[n] \in {hist[i + 1].node, NoNode}

-----------------------------------------------------------------------------
(* The inductive invariant.                                                *)

LastHist == hist[Len(hist)]

\* Clocks stay within Drift of each other.
ClockOK == \A m, n \in Node : clock[m] <= clock[n] + Drift

\* hist follows log; a version is an instance already executed, and once it
\* changes it is past the instance at which it was still the old one.
HistOK ==
    /\ Len(hist) = Len(log) + 1
    /\ \A i \in 1..Len(hist) :
          /\ NoVersion <= hist[i].version /\ hist[i].version <= i - 2
          /\ IF hist[i].version = NoVersion THEN hist[i].node = NoNode
             ELSE /\ hist[i].node \in Node
                  /\ hist[i].lease \in Leases
                  /\ hist[i].sid <= clock[hist[i].node]
    /\ \A i, j \in 1..Len(hist) :
          i <= j => hist[j] = hist[i] \/ hist[j].version >= i - 1
    /\ \A i \in 1..Len(log) : hist[i + 1] = HistAfter(hist[i], i - 1, log[i])

\* An operation carries the version of the instance it was chosen at, and the
\* version its proposer had read before is not younger.
LogOK == \A i \in 1..Len(log) :
    log[i].node # NoNode => log[i].last = hist[i].version /\ log[i].version <= log[i].last

OpsOK == \A o \in ops :
    /\ o.last = LastHist.version /\ o.version <= o.last
    /\ o.version <= version[o.node]
    /\ o.sid <= clock[o.node]

\* What a node has in memory and on disk is hist[k].
Knows(n, k) ==
    /\ version[n] = hist[k].version
    /\ store[n].version = version[n]
    /\ store[n].node = hist[k].node
    /\ IF version[n] = NoVersion THEN master[n] = NoNode /\ expire[n] = 0
       ELSE /\ store[n].lease = hist[k].lease
            /\ IF hist[k].node = n THEN master[n] \in {n, NoNode}
               ELSE /\ master[n] = hist[k].node
                    /\ expire[n] + Drift >= hist[k].sid + hist[k].lease

KnowsOK == \A n \in Node :
    /\ applied[n] <= Len(log)
    /\ \E k \in applied[n] + 1..Len(hist) : Knows(n, k)

Live(n) == master[n] = n /\ clock[n] < expire[n]

RoundOK == \A n \in Node :
    /\ Live(n) => expire[n] <= clock[n] + setting[n] - Margin
    /\ round[n].pc # "idle" =>
          round[n].version <= version[n] /\ round[n].lease = setting[n]
    /\ round[n].pc \in {"made", "commit", "vain"} =>
          /\ round[n].sid <= clock[n]
          /\ Live(n) => expire[n] <= round[n].sid + round[n].lease - Margin
    /\ round[n].pc = "commit" => round[n].last = version[n]

\* The master in office is the proposer's, or its lease is over.
Expired(h) == clock[h.node] >= h.sid + h.lease - Margin
FreeFor(n) == LastHist.node \in Node => n = LastHist.node \/ Expired(LastHist)

LeaseOver ==
    /\ \A n \in Node :
          round[n].pc # "idle" /\ round[n].version = LastHist.version => FreeFor(n)
    /\ \A o \in ops : o.version = LastHist.version =>
          /\ FreeFor(o.node)
          /\ Live(o.node) => expire[o.node] <= o.sid + o.lease - Margin

\* A node that believes in its lease holds the last one of the log; so will a
\* node whose commit is decided but not executed.
Pending(n) == log[applied[n] + 1]
MasterOK == \A n \in Node :
    /\ Live(n) => LastHist.node = n /\ expire[n] <= LastHist.sid + LastHist.lease - Margin
    /\ /\ round[n].pc = "commit"
       /\ applied[n] < Len(log)
       /\ Pending(n) = MyOperation(n, round[n].last)
       /\ hist[applied[n] + 2].version = applied[n]
       => \/ clock[n] >= round[n].sid + round[n].lease - Margin
          \/ /\ LastHist.node = n
             /\ round[n].sid + round[n].lease <= LastHist.sid + LastHist.lease

\* All of it, which every step keeps.
MasterInv == TypeOK /\ ClockOK /\ HistOK /\ LogOK /\ OpsOK /\ KnowsOK
               /\ RoundOK /\ LeaseOver /\ MasterOK
=============================================================================
