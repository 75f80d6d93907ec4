-------------------------- MODULE PaxosMasterProofs --------------------------
(***************************************************************************)
(* What PaxosMasterSafety states holds of PaxosMaster for every set of      *)
(* nodes, every lease and every bound, without checkpoints.  MasterInv is   *)
(* inductive: TypeInit and InitInv show that it holds at first, one lemma   *)
(* per action that it stays, and the theorems at the end follow from it.    *)
(***************************************************************************)
EXTENDS PaxosMasterSafety, TLAPS

\* Types hold in the initial state.
LEMMA TypeInit == Init => TypeOK
  BY ConstantsOK, SMT DEF Init, TypeOK, RoundState, HistState, Idle, NoStore, Variables, NoVersion

\* What MakeOpValue builds is an operation.
LEMMA OpTyped ==
  ASSUME NEW n \in Node, TypeOK, NEW l \in Int, round[n].lease \in Leases
  PROVE  MyOperation(n, l) \in Operation
  BY DEF TypeOK, RoundState, MyOperation, Operation

\* The replicated state after an operation is one (LearnMaster).
LEMMA HistTyped ==
  ASSUME NEW h \in HistState, NEW i \in Nat, NEW op \in Operation \cup {Other}
  PROVE  /\ HistAfter(h, i, op) \in HistState
         /\ \A v \in Int : VersionAfter(v, i, op) \in Int
  <1>1. \A v \in Int : Fixed(v, i, op) \in Int /\ VersionAfter(v, i, op) \in Int
    BY DEF Fixed, VersionAfter, Operation, Other, NoVersion
  <1>2. op.node \in Node \cup {NoNode} /\ op.lease \in Nat /\ op.sid \in Nat
    BY ConstantsOK DEF Operation, Other
  <1>3. HistAfter(h, i, op) \in HistState
    BY <1>1, <1>2 DEF HistAfter, HistState
  <1> QED BY <1>1, <1>3

\* A node's own steps keep the types.
LEMMA TypeNode ==
  ASSUME TypeOK, NEW n \in Node, RoundOK, NEW l \in Leases,
         CheckMaster(n, l) \/ NodeStep(n)
  PROVE  TypeOK'
  <1> USE ConstantsOK
  <1>0. l \in Nat
    BY DEF TypeOK
  <1>1. CASE CheckMaster(n, l)
    <2>a. version[n] \in Int
      BY DEF TypeOK
    <2>0. [pc |-> "checked", version |-> version[n], lease |-> l, sid |-> 0, last |-> 0]
            \in RoundState
      BY <1>0, <2>a DEF RoundState
    <2>1. round' \in [Node -> RoundState]
      BY <1>1, <2>0 DEF CheckMaster, TypeOK
    <2> QED BY <1>1, <2>1 DEF CheckMaster, TypeOK, local
  <1>2. CASE MakeOperation(n)
    <2>0. [round[n] EXCEPT !.pc = "made", !.sid = clock[n]] \in RoundState
      BY ZenonT(40) DEF TypeOK, RoundState
    <2>1. round' \in [Node -> RoundState]
      BY <1>2, <2>0 DEF MakeOperation, TypeOK
    <2> QED BY <1>2, <2>1 DEF MakeOperation, TypeOK, local
  <1>3. CASE StartCommit(n)
    <2>0. /\ [round[n] EXCEPT !.pc = "commit", !.last = version[n]] \in RoundState
          /\ [round[n] EXCEPT !.pc = "vain"] \in RoundState
      BY DEF TypeOK, RoundState
    <2>1. round' \in [Node -> RoundState]
      BY <1>3, <2>0 DEF StartCommit, TypeOK
    <2>2. MyOperation(n, version[n]) \in Operation
      BY <1>3, OpTyped DEF StartCommit, TypeOK, RoundOK, RoundState
    <2> QED BY <1>3, <2>1, <2>2 DEF StartCommit, TypeOK, local
  <1>4. CASE CommitTimeout(n)
    <2>1. round' \in [Node -> RoundState]
      BY <1>4 DEF CommitTimeout, TypeOK, RoundState, Idle
    <2> QED BY <1>4, <2>1 DEF CommitTimeout, TypeOK, local
  <1>5. CASE Execute(n)
    <2> DEFINE op == log[applied[n] + 1]
    <2>1. op \in Operation \cup {Other} /\ applied[n] \in Nat
      BY <1>5 DEF Execute, TypeOK
    <2>2. op.node \in Node \cup {NoNode} /\ op.lease \in Nat /\ op.sid \in Nat
      <3>1. CASE op \in Operation
        BY <3>1 DEF Operation
      <3>2. CASE op = Other
        BY <3>2 DEF Other
      <3> QED BY <2>1, <3>1, <3>2
    <2>3. VersionAfter(version[n], applied[n], op) \in Int
      BY <2>1, HistTyped DEF TypeOK, HistState, Operation, VersionAfter, Fixed, Other, NoVersion
    <2>4. ContextTimeout(n, op) \in Int
      BY <2>2 DEF ContextTimeout
    <2>5. round' \in [Node -> RoundState]
      BY <1>5 DEF Execute, TypeOK, RoundState, Idle
    <2>6. version' \in [Node -> Int]
      BY <1>5, <2>3 DEF Execute, TypeOK
    <2>7. /\ store' \in [Node -> [node : Node \cup {NoNode}, version : Int, lease : Nat]]
          /\ master' \in [Node -> Node \cup {NoNode}]
          /\ expire' \in [Node -> Int]
          /\ leaseTime' \in [Node -> Nat]
      <3>1. CASE Accepts(version[n], applied[n], op)
        <4>1. LearnMaster(n, applied[n], op)
          BY <1>5, <3>1 DEF Execute
        <4>2. Variables(op.node, applied[n], op.lease)
                \in [node : Node \cup {NoNode}, version : Int, lease : Nat]
          BY <2>1, <2>2 DEF Variables
        <4>a. clock[n] \in Nat
          BY DEF TypeOK
        <4>3. clock[n] + op.lease \in Int
          BY <2>2, <4>a
        <4> QED BY <4>1, <4>2, <4>3, <2>2, <2>4 DEF LearnMaster, TypeOK
      <3>2. CASE ~Accepts(version[n], applied[n], op)
        BY <1>5, <3>2 DEF Execute, TypeOK
      <3> QED BY <3>1, <3>2
    <2>8. /\ applied' \in [Node -> Nat]
          /\ UNCHANGED <<clock, setting, ops, log, restarts, hist>>
      BY <1>5 DEF Execute, TypeOK
    <2> QED BY <2>5, <2>6, <2>7, <2>8 DEF TypeOK
  <1>6. CASE Restart(n)
    <2>1. round' \in [Node -> RoundState]
      BY <1>6 DEF Restart, TypeOK, RoundState, Idle
    <2>2. applied' \in [Node -> Nat]
      BY <1>6 DEF Restart, TypeOK
    <2>3. setting' \in [Node -> Leases] /\ leaseTime' \in [Node -> Nat] /\ restarts' \in Nat
      BY <1>6 DEF Restart, TypeOK
    <2>4. store[n].version \in Int /\ store[n].node \in Node \cup {NoNode} /\ store[n].lease \in Nat
      BY DEF TypeOK
    <2>5. /\ version' \in [Node -> Int] /\ expire' \in [Node -> Int]
          /\ master' \in [Node -> Node \cup {NoNode}]
      <3>1. version' \in [Node -> Int]
        BY <1>6, <2>4 DEF Restart, TypeOK
      <3>2. clock[n] \in Nat /\ clock[n] + store[n].lease \in Int
        BY <2>4 DEF TypeOK
      <3>3. expire' \in [Node -> Int]
        BY <1>6, <2>4, <3>2 DEF Restart, TypeOK
      <3>4. master' \in [Node -> Node \cup {NoNode}]
        BY <1>6, <2>4 DEF Restart, TypeOK
      <3> QED BY <3>1, <3>3, <3>4
    <2> QED BY <1>6, <2>1, <2>2, <2>3, <2>5 DEF Restart, TypeOK
  <1>7. CASE Tick(n)
    BY <1>7, SMTT(20) DEF Tick, TypeOK, local
  <1> QED BY <1>1, <1>2, <1>3, <1>4, <1>5, <1>6, <1>7 DEF NodeStep

\* So does the choice of an instance.
LEMMA TypeChoose ==
  ASSUME TypeOK, Len(hist) = Len(log) + 1, NEW op \in ops \cup {Other}, Choose(op)
  PROVE  TypeOK'
  <1>1. op \in Operation \cup {Other}
    BY DEF TypeOK
  <1>2. hist[Len(hist)] \in HistState /\ Len(log) \in Nat
    BY DEF TypeOK
  <1>3. HistAfter(hist[Len(hist)], Len(log), op) \in HistState
    BY <1>1, <1>2, HistTyped
  <1>4. hist' \in Seq(HistState) /\ log' \in Seq(Operation \cup {Other})
    BY <1>1, <1>3 DEF Choose, TypeOK
  <1> QED BY <1>4 DEF Choose, TypeOK, local

-----------------------------------------------------------------------------
\* TypeOK in the form in which the other lemmas use it.
LEMMA Typed ==
  ASSUME TypeOK
  PROVE  /\ Len(log) \in Nat
         /\ \A i \in 1..Len(hist) : hist[i] \in HistState
         /\ \A i \in 1..Len(log) : log[i] \in Operation \cup {Other}
         /\ \A n \in Node :
              /\ clock[n] \in Nat /\ version[n] \in Int /\ expire[n] \in Int
              /\ applied[n] \in Nat /\ setting[n] \in Nat /\ setting[n] > Margin
              /\ round[n] \in RoundState
              /\ master[n] \in Node \cup {NoNode}
              /\ store[n] \in [node : Node \cup {NoNode}, version : Int, lease : Nat]
         /\ Margin \in Nat /\ Drift \in Nat /\ NoNode \notin Node
  <1>1. /\ Len(log) \in Nat
        /\ \A i \in 1..Len(hist) : hist[i] \in HistState
        /\ \A i \in 1..Len(log) : log[i] \in Operation \cup {Other}
    BY DEF TypeOK
  <1>2. ASSUME NEW n \in Node
        PROVE  setting[n] \in Nat /\ setting[n] > Margin
    BY ConstantsOK DEF TypeOK
  <1>3. ASSUME NEW n \in Node
        PROVE  /\ clock[n] \in Nat /\ version[n] \in Int /\ expire[n] \in Int
               /\ applied[n] \in Nat
               /\ round[n] \in RoundState
               /\ master[n] \in Node \cup {NoNode}
               /\ store[n] \in [node : Node \cup {NoNode}, version : Int, lease : Nat]
    BY DEF TypeOK
  <1> QED BY <1>1, <1>2, <1>3, ConstantsOK

\* The same version is the same state.
LEMMA HistSame ==
  ASSUME TypeOK, HistOK, NEW i \in 1..Len(hist), NEW j \in 1..Len(hist),
         hist[i].version = hist[j].version
  PROVE  hist[i] = hist[j]
  <1>1. /\ hist[i].version \in Int /\ hist[i].version <= i - 2
        /\ hist[j].version \in Int /\ hist[j].version <= j - 2
    BY Typed DEF HistOK, HistState
  <1>2. /\ i <= j => hist[j] = hist[i] \/ hist[j].version >= i - 1
        /\ j <= i => hist[i] = hist[j] \/ hist[i].version >= j - 1
    BY DEF HistOK
  <1>3. i \in Int /\ j \in Int
    OBVIOUS
  <1>4. i <= j \/ j <= i
    BY <1>3
  <1> QED BY <1>1, <1>2, <1>3, <1>4

\* The replicated state at the end of the log.
LEMMA LastHistOK ==
  ASSUME TypeOK, HistOK
  PROVE  /\ Len(hist) \in 1..Len(hist) /\ Len(hist) = Len(log) + 1
         /\ LastHist \in HistState
         /\ NoVersion <= LastHist.version /\ LastHist.version < Len(log)
         /\ LastHist.version = NoVersion => LastHist.node = NoNode
         /\ LastHist.node \in Node => LastHist.sid <= clock[LastHist.node] /\ LastHist.lease \in Leases
         /\ LastHist.version # NoVersion => LastHist.node \in Node
  BY Typed DEF HistOK, LastHist, HistState

\* The invariant holds when all nodes start (the constructor and Init of
\* MasterStateMachine with an empty store).
THEOREM InitInv == Init => MasterInv
  <1> SUFFICES ASSUME Init PROVE MasterInv
    OBVIOUS
  <1> USE ConstantsOK
  <1>1. TypeOK
    BY TypeInit
  <1>2. /\ Len(hist) = 1 /\ Len(log) = 0 /\ ops = {}
        /\ hist[1] = [version |-> NoVersion, node |-> NoNode, lease |-> 0, sid |-> 0]
    BY DEF Init
  <1>3. ClockOK
    BY DEF Init, ClockOK
  <1>4. HistOK
    BY <1>2 DEF HistOK, NoVersion
  <1>5. LogOK /\ OpsOK
    BY <1>2 DEF LogOK, OpsOK
  <1>6. KnowsOK
    <2> SUFFICES ASSUME NEW n \in Node
                 PROVE  applied[n] <= Len(log) /\ \E k \in applied[n] + 1..Len(hist) : Knows(n, k)
      BY DEF KnowsOK
    <2>1. Knows(n, 1)
      BY <1>2 DEF Knows, Init, NoStore, Variables
    <2> QED BY <1>2, <2>1 DEF Init
  <1>7. \A n \in Node : ~Live(n) /\ round[n].pc = "idle"
    BY DEF Init, Live, Idle
  <1>8. RoundOK /\ LeaseOver /\ MasterOK
    BY <1>2, <1>7 DEF RoundOK, LeaseOver, MasterOK
  <1> QED BY <1>1, <1>3, <1>4, <1>5, <1>6, <1>8 DEF MasterInv

-----------------------------------------------------------------------------
(* The thread's own steps: round, setting and ops are all they change.      *)

\* What the thread's steps leave alone: log, history and replicas.
LEMMA ThreadFrame ==
  ASSUME MasterInv, UNCHANGED <<clock, local, applied, log, hist>>
  PROVE  /\ ClockOK' /\ HistOK' /\ LogOK' /\ KnowsOK'
         /\ LastHist' = LastHist
         /\ \A m \in Node : Live(m)' = Live(m) /\ FreeFor(m)' = FreeFor(m)
  BY SMTT(20)
     DEF MasterInv, ClockOK, HistOK, LogOK, KnowsOK, Knows, HistAfter, Accepts, Fixed,
         VersionAfter, LastHist, Live, FreeFor, Expired, local

\* A node that finds the version of the log's last master and no other master
\* in office has waited that master's lease out, or is that master.
LEMMA CheckedIsFree ==
  ASSUME MasterInv, NEW n \in Node, SafeGetMaster(n) \in {NoNode, n},
         version[n] = LastHist.version
  PROVE  FreeFor(n)
  <1> SUFFICES ASSUME LastHist.node \in Node, n # LastHist.node
               PROVE  Expired(LastHist)
    BY DEF FreeFor
  <1> USE DEF MasterInv
  <1>1. PICK k \in applied[n] + 1..Len(hist) : Knows(n, k)
    BY DEF KnowsOK
  <1>2. k \in 1..Len(hist)
    BY Typed, LastHistOK
  <1>3. hist[k] = LastHist
    BY <1>1, <1>2, HistSame, LastHistOK DEF Knows, LastHist
  <1>4. version[n] # NoVersion
    BY LastHistOK, Typed
  <1>5. master[n] = LastHist.node /\ expire[n] + Drift >= LastHist.sid + LastHist.lease
    BY <1>1, <1>3, <1>4 DEF Knows
  <1>6. clock[n] >= expire[n]
    BY <1>5, Typed DEF SafeGetMaster
  <1>7. clock[n] <= clock[LastHist.node] + Drift
    BY DEF ClockOK
  <1>8. LastHist.sid \in Nat /\ LastHist.lease \in Nat
    BY LastHistOK DEF HistState
  <1>9. /\ clock[n] \in Nat /\ clock[LastHist.node] \in Nat /\ expire[n] \in Int
        /\ Drift \in Nat /\ Margin \in Nat
    BY Typed
  <1> DEFINE e == expire[n]  c == clock[n]  d == clock[LastHist.node]
             s == LastHist.sid  l == LastHist.lease
  <1>10. /\ e \in Int /\ c \in Nat /\ d \in Nat /\ s \in Nat /\ l \in Nat
         /\ c >= e /\ c <= d + Drift /\ e + Drift >= s + l
    BY <1>5, <1>6, <1>7, <1>8, <1>9
  <1> HIDE DEF e, c, d, s, l
  <1>11. e + Drift <= d + Drift + Drift
    BY <1>9, <1>10
  <1>12. s + l <= d + Drift + Drift
    BY <1>9, <1>10, <1>11
  <1>13. s + l <= d + Margin
    BY <1>9, <1>10, <1>12, DriftWithinMargin
  <1>14. d >= s + l - Margin
    BY <1>9, <1>10, <1>13
  <1> QED BY <1>14 DEF Expired, d, s, l

\* TryBeMaster's look at the master keeps the invariant.
LEMMA CheckStep ==
  ASSUME MasterInv, NEW n \in Node, NEW l \in Leases, l >= setting[n], CheckMaster(n, l)
  PROVE  MasterInv'
  <1> USE DEF MasterInv
  <1>1. UNCHANGED <<clock, local, applied, log, hist, ops>>
    BY DEF CheckMaster
  <1>2. TypeOK'
    BY TypeNode
  <1>3. /\ round'[n].pc = "checked" /\ round'[n].version = version[n] /\ round'[n].lease = l
        /\ setting'[n] = l
        /\ \A m \in Node \ {n} : round'[m] = round[m] /\ setting'[m] = setting[m]
    BY DEF CheckMaster, TypeOK
  <1>4. OpsOK'
    BY <1>1, ThreadFrame DEF OpsOK, local
  <1>5. l \in Nat
    BY ConstantsOK
  <1>6. RoundOK'
    <2> SUFFICES ASSUME NEW m \in Node
                 PROVE  /\ Live(m)' => expire'[m] <= clock'[m] + setting'[m] - Margin
                        /\ round'[m].pc # "idle" =>
                              round'[m].version <= version'[m] /\ round'[m].lease = setting'[m]
                        /\ round'[m].pc \in {"made", "commit", "vain"} =>
                              /\ round'[m].sid <= clock'[m]
                              /\ Live(m)' => expire'[m] <= round'[m].sid + round'[m].lease - Margin
                        /\ round'[m].pc = "commit" => round'[m].last = version'[m]
      BY DEF RoundOK
    <2>a. /\ clock[n] \in Nat /\ expire[n] \in Int /\ setting[n] \in Nat /\ Margin \in Nat
          /\ version[n] \in Int
      BY Typed
    <2>b. /\ Live(n) => expire[n] <= clock[n] + setting[n] - Margin
          /\ Live(n)' = Live(n)
      BY <1>1, ThreadFrame DEF RoundOK
    <2>c. /\ clock' = clock /\ expire' = expire /\ version' = version
      BY <1>1 DEF local
    <2>1. CASE m = n
      BY <1>3, <1>5, <2>1, <2>a, <2>b, <2>c
    <2>2. CASE m # n
      BY <1>1, <1>3, <2>2, ThreadFrame DEF RoundOK, local
    <2> QED BY <2>1, <2>2
  <1>7. LeaseOver'
    <2>1. version[n] = LastHist.version => FreeFor(n)
      BY CheckedIsFree DEF CheckMaster
    <2> QED BY <1>1, <1>3, <2>1, ThreadFrame DEF LeaseOver, TypeOK, Operation, local
  <1>8. MasterOK'
    BY <1>1, <1>3, ThreadFrame DEF MasterOK, Pending, MyOperation, local
  <1> QED BY <1>1, <1>2, <1>4, <1>6, <1>7, <1>8, ThreadFrame

\* So does the making of the operation and its deadline.
LEMMA MakeStep ==
  ASSUME MasterInv, NEW n \in Node, MakeOperation(n)
  PROVE  MasterInv'
  <1> USE DEF MasterInv
  <1>1. UNCHANGED <<clock, local, applied, log, hist, ops, setting>>
    BY DEF MakeOperation
  <1>2. TypeOK'
    BY TypeNode, ConstantsOK DEF NodeStep
  <1>3. /\ round[n].pc = "checked"
        /\ round'[n].pc = "made" /\ round'[n].sid = clock[n]
        /\ round'[n].version = round[n].version /\ round'[n].lease = round[n].lease
        /\ \A m \in Node \ {n} : round'[m] = round[m]
    BY DEF MakeOperation, TypeOK, RoundState
  <1>4. OpsOK'
    BY <1>1, ThreadFrame DEF OpsOK, local
  <1>5. RoundOK'
    <2>1. /\ clock[n] \in Nat /\ round[n].version <= version[n] /\ round[n].lease = setting[n]
          /\ Live(n) => expire[n] <= clock[n] + setting[n] - Margin
      BY <1>3, Typed DEF RoundOK
    <2>2. /\ \A m \in Node : Live(m)' = Live(m)
          /\ UNCHANGED <<clock, expire, version, setting>>
      BY <1>1, ThreadFrame DEF local
    <2>3. clock[n] <= clock[n]
      BY <2>1
    <2>4. \A m \in Node \ {n} : round'[m] = round[m]
      BY <1>3
    <2> QED BY <1>3, <2>1, <2>2, <2>3, <2>4 DEF RoundOK
  <1>6. LeaseOver'
    BY <1>1, <1>3, ThreadFrame DEF LeaseOver, TypeOK, Operation, local
  <1>7. MasterOK'
    BY <1>1, <1>3, ThreadFrame DEF MasterOK, Pending, MyOperation, local
  <1> QED BY <1>1, <1>2, <1>4, <1>5, <1>6, <1>7, ThreadFrame

\* So does a propose that returns without a result.
LEMMA TimeoutStep ==
  ASSUME MasterInv, NEW n \in Node, CommitTimeout(n)
  PROVE  MasterInv'
  <1> USE DEF MasterInv
  <1>1. UNCHANGED <<clock, local, applied, log, hist, ops, setting>>
    BY DEF CommitTimeout
  <1>2. TypeOK'
    BY TypeNode, ConstantsOK DEF NodeStep
  <1>3. /\ round'[n].pc = "idle"
        /\ \A m \in Node \ {n} : round'[m] = round[m]
    BY DEF CommitTimeout, TypeOK, Idle
  <1>4. OpsOK'
    BY <1>1, ThreadFrame DEF OpsOK, local
  <1>5. RoundOK'
    BY <1>1, <1>3, ThreadFrame, Typed DEF RoundOK, local
  <1>6. LeaseOver'
    BY <1>1, <1>3, ThreadFrame DEF LeaseOver, TypeOK, Operation, local
  <1>7. MasterOK'
    BY <1>1, <1>3, ThreadFrame DEF MasterOK, Pending, MyOperation, local
  <1> QED BY <1>1, <1>2, <1>4, <1>5, <1>6, <1>7, ThreadFrame

\* A node that has executed the whole log has its last version.
LEMMA UpToDate ==
  ASSUME MasterInv, NEW n \in Node, applied[n] = Len(log)
  PROVE  version[n] = LastHist.version
  <1>1. PICK k \in applied[n] + 1..Len(hist) : Knows(n, k)
    BY DEF MasterInv, KnowsOK
  <1>2. k = Len(hist)
    BY Typed, LastHistOK DEF MasterInv
  <1> QED BY <1>1, <1>2 DEF Knows, LastHist

\* So does the start of the commit (BeforePropose).
LEMMA CommitStep ==
  ASSUME MasterInv, NEW n \in Node, StartCommit(n)
  PROVE  MasterInv'
  <1> USE DEF MasterInv
  <1> DEFINE o == MyOperation(n, version[n])
  <1>1. UNCHANGED <<clock, local, applied, log, hist, setting>>
    BY DEF StartCommit
  <1>2. TypeOK'
    BY TypeNode, ConstantsOK DEF NodeStep
  <1>3. /\ round[n].pc = "made"
        /\ round'[n].sid = round[n].sid
        /\ round'[n].version = round[n].version /\ round'[n].lease = round[n].lease
        /\ \A m \in Node \ {n} : round'[m] = round[m]
    <2>1. round[n] \in RoundState /\ round \in [Node -> RoundState]
      BY DEF TypeOK
    <2>2. \/ round' = [round EXCEPT ![n] = [@ EXCEPT !.pc = "commit", !.last = version[n]]]
          \/ round' = [round EXCEPT ![n] = [@ EXCEPT !.pc = "vain"]]
      BY DEF StartCommit
    <2>3. round[n].pc = "made"
      BY DEF StartCommit
    <2>4. CASE round' = [round EXCEPT ![n] = [@ EXCEPT !.pc = "commit", !.last = version[n]]]
      BY <2>1, <2>3, <2>4 DEF RoundState
    <2>5. CASE round' = [round EXCEPT ![n] = [@ EXCEPT !.pc = "vain"]]
      BY <2>1, <2>3, <2>5 DEF RoundState
    <2> QED BY <2>2, <2>4, <2>5
  <1>4. \/ /\ applied[n] = Len(log)
           /\ round'[n].pc = "commit" /\ round'[n].last = version[n]
           /\ ops' = ops \cup {o}
        \/ /\ applied[n] < Len(log)
           /\ round'[n].pc = "vain"
           /\ ops' = ops
    <2>1. round[n] \in RoundState /\ round \in [Node -> RoundState]
      BY DEF TypeOK
    <2>2. CASE /\ applied[n] = Len(log) /\ ops' = ops \cup {o}
               /\ round' = [round EXCEPT ![n] = [@ EXCEPT !.pc = "commit", !.last = version[n]]]
      <3>1. round'[n].pc = "commit" /\ round'[n].last = version[n]
        BY <2>1, <2>2 DEF RoundState
      <3> QED BY <2>2, <3>1
    <2>3. CASE /\ applied[n] < Len(log) /\ ops' = ops
               /\ round' = [round EXCEPT ![n] = [@ EXCEPT !.pc = "vain"]]
      <3>1. round'[n].pc = "vain"
        BY <2>1, <2>3 DEF RoundState
      <3> QED BY <2>3, <3>1
    <2> QED BY <2>2, <2>3 DEF StartCommit
  <1>5. /\ o.node = n /\ o.version = round[n].version /\ o.last = version[n]
        /\ o.lease = round[n].lease /\ o.sid = round[n].sid
    BY DEF MyOperation
  <1> HIDE DEF o
  <1>6. OpsOK'
    BY <1>1, <1>3, <1>4, <1>5, ThreadFrame, UpToDate DEF OpsOK, RoundOK, local
  <1>7. RoundOK'
    BY <1>1, <1>3, <1>4, ThreadFrame, Typed DEF RoundOK, local
  <1>8. LeaseOver'
    <2>1. \A m \in Node : round'[m].pc # "idle" => round[m].pc # "idle" /\ round'[m].version = round[m].version
      BY <1>3
    <2>2. \A x \in ops' : x.node \in Node
      BY <1>2 DEF TypeOK, Operation
    <2>3. o.version = LastHist.version => FreeFor(n)
      BY <1>3, <1>5 DEF LeaseOver
    <2>4. Live(n) => expire[n] <= o.sid + o.lease - Margin
      BY <1>3, <1>5 DEF RoundOK
    <2> QED BY <1>1, <1>4, <1>5, <2>1, <2>2, <2>3, <2>4, ThreadFrame DEF LeaseOver, local
  <1>9. MasterOK'
    <2>1. ASSUME NEW m \in Node, round'[m].pc = "commit", applied[m] < Len(log)
          PROVE  m # n
      BY <1>4, <2>1, Typed
    <2> QED BY <1>1, <1>3, <2>1, ThreadFrame DEF MasterOK, Pending, MyOperation, local
  <1> QED BY <1>1, <1>2, <1>6, <1>7, <1>8, <1>9, ThreadFrame

\* So does the passing of time.
LEMMA TickStep ==
  ASSUME MasterInv, NEW n \in Node, Tick(n)
  PROVE  MasterInv'
  <1> USE DEF MasterInv
  <1>1. UNCHANGED <<local, applied, log, hist, ops, setting, round>>
    BY DEF Tick
  <1>2. TypeOK'
    BY TypeNode, ConstantsOK DEF NodeStep
  <1>3. \A m \in Node : clock'[m] >= clock[m] /\ clock[m] \in Nat /\ clock'[m] \in Nat
    BY Typed, SMTT(20) DEF Tick, TypeOK
  <1>4. ClockOK'
    <2> SUFFICES ASSUME NEW m \in Node, NEW k \in Node
                 PROVE  clock'[m] <= clock'[k] + Drift
      BY DEF ClockOK
    <2>1. clock[m] <= clock[k] + Drift
      BY DEF ClockOK
    <2>a. /\ clock'[n] = clock[n] + 1
          /\ \A x \in Node \ {n} : clock'[x] = clock[x]
      BY DEF Tick, TypeOK
    <2>b. \A x \in Node \ {n} : clock[n] < clock[x] + Drift
      BY DEF Tick
    <2>c. /\ clock[m] \in Nat /\ clock[k] \in Nat /\ clock[n] \in Nat /\ Drift \in Nat
          /\ clock'[k] \in Nat /\ clock'[k] >= clock[k]
      BY <1>3, Typed
    <2>2. CASE m # n
      <3>1. clock'[m] = clock[m]
        BY <2>2, <2>a
      <3> QED BY <3>1, <2>1, <2>c
    <2>3. CASE m = n /\ k # n
      BY <2>3, <2>a, <2>b, <2>c
    <2>4. CASE m = n /\ k = n
      BY <2>4, <2>a, <2>c
    <2> QED BY <2>2, <2>3, <2>4
  <1>5. HistOK' /\ LogOK' /\ KnowsOK'
    <2>1. \A i \in 1..Len(hist) : hist[i].sid \in Nat
      BY Typed DEF HistState
    <2>2. \A i \in 1..Len(hist) :
             hist[i].node \in Node /\ hist[i].sid <= clock[hist[i].node]
               => hist[i].sid <= clock'[hist[i].node]
      BY <1>3, <2>1
    <2>3. UNCHANGED <<hist, log>>
      BY <1>1
    <2>4. HistOK'
      BY <2>2, <2>3 DEF HistOK, HistAfter, Accepts, Fixed, VersionAfter
    <2> QED BY <1>1, <2>4 DEF LogOK, KnowsOK, Knows, local
  <1>6. \A m \in Node : Live(m)' => Live(m)
    BY <1>1, <1>3, Typed DEF Live, local
  <1>7. LastHist' = LastHist /\ \A m \in Node : FreeFor(m) => FreeFor(m)'
    <2>1. LastHist' = LastHist
      BY <1>1 DEF LastHist
    <2>2. LastHist.sid + LastHist.lease - Margin \in Int
      BY LastHistOK, Typed DEF HistState
    <2> QED BY <1>3, <2>1, <2>2 DEF FreeFor, Expired
  <1>8. \A o \in ops : o.node \in Node /\ o.sid \in Nat
    BY DEF TypeOK, Operation
  <1>9. OpsOK'
    BY <1>1, <1>3, <1>7, <1>8 DEF OpsOK, local
  <1>10. RoundOK'
    <2> SUFFICES ASSUME NEW m \in Node
                 PROVE  /\ Live(m)' => expire'[m] <= clock'[m] + setting'[m] - Margin
                        /\ round'[m].pc # "idle" =>
                              round'[m].version <= version'[m] /\ round'[m].lease = setting'[m]
                        /\ round'[m].pc \in {"made", "commit", "vain"} =>
                              /\ round'[m].sid <= clock'[m]
                              /\ Live(m)' => expire'[m] <= round'[m].sid + round'[m].lease - Margin
                        /\ round'[m].pc = "commit" => round'[m].last = version'[m]
      BY DEF RoundOK
    <2>1. /\ expire[m] \in Int /\ setting[m] \in Nat /\ Margin \in Nat
          /\ round[m].sid \in Nat
      BY Typed DEF RoundState
    <2>2. expire' = expire /\ version' = version /\ round' = round /\ setting' = setting
      BY <1>1 DEF local
    <2> QED BY <1>3, <1>6, <2>1, <2>2 DEF RoundOK
  <1>11. LeaseOver'
    BY <1>1, <1>6, <1>7, <1>8 DEF LeaseOver, local
  <1>12. MasterOK'
    <2>1. \A m \in Node : round[m].sid + round[m].lease - Margin \in Int
      BY Typed DEF RoundState
    <2> QED BY <1>1, <1>3, <1>6, <1>7, <2>1 DEF MasterOK, Pending, MyOperation, local
  <1> QED BY <1>2, <1>4, <1>5, <1>9, <1>10, <1>11, <1>12

-----------------------------------------------------------------------------
(* Restart: nobody gains a lease, nobody loses a version.                   *)

\* MasterStateMachine::Init keeps the invariant.
LEMMA RestartStep ==
  ASSUME MasterInv, NEW n \in Node, Restart(n)
  PROVE  MasterInv'
  <1> USE DEF MasterInv
  <1>1. UNCHANGED <<clock, store, ops, log, hist>> /\ LastHist' = LastHist
    BY DEF Restart, LastHist
  <1>2. TypeOK'
    BY TypeNode, ConstantsOK DEF NodeStep
  <1>3. PICK k \in applied[n] + 1..Len(hist) : Knows(n, k)
    BY DEF KnowsOK
  <1>4. version' = version
    BY <1>3 DEF Restart, Knows, TypeOK
  <1>5. /\ master'[n] = IF store[n].node = n THEN NoNode ELSE store[n].node
        /\ expire'[n] = IF store[n].version = NoVersion \/ store[n].node = n THEN 0
                        ELSE clock[n] + store[n].lease
        /\ round'[n] = Idle
        /\ applied'[n] \in 0..applied[n]
    BY DEF Restart, TypeOK
  <1>6. \A m \in Node \ {n} :
          /\ master'[m] = master[m] /\ expire'[m] = expire[m] /\ round'[m] = round[m]
          /\ applied'[m] = applied[m] /\ setting'[m] = setting[m]
    BY DEF Restart, TypeOK
  <1>7. /\ ~Live(n)'
        /\ \A m \in Node : Live(m)' => m # n /\ Live(m)
        /\ \A m \in Node : FreeFor(m)' = FreeFor(m)
    BY <1>1, <1>5, <1>6, Typed DEF Live, FreeFor, Expired
  <1>8. ClockOK' /\ HistOK' /\ LogOK' /\ OpsOK'
    BY <1>1, <1>4 DEF ClockOK, HistOK, LogOK, OpsOK, HistAfter, Accepts, Fixed, VersionAfter
  <1>9. KnowsOK'
    <2>1. \A m \in Node \ {n} : applied'[m] <= Len(log')
                                /\ \E j \in applied'[m] + 1..Len(hist') : Knows(m, j)'
      BY <1>1, <1>4, <1>6 DEF KnowsOK, Knows
    <2>2. k \in applied'[n] + 1..Len(hist) /\ applied'[n] <= Len(log)
      BY <1>3, <1>5, Typed, LastHistOK DEF KnowsOK
    <2>3. k \in 1..Len(hist) /\ hist[k] \in HistState
      BY <1>3, Typed, LastHistOK
    <2>4. Knows(n, k)'
      <3>1. /\ version[n] = hist[k].version /\ store[n].version = version[n]
            /\ store[n].node = hist[k].node
        BY <1>3 DEF Knows
      <3>2. CASE version[n] = NoVersion
        <4>1. store[n].node = NoNode /\ NoNode # n
          BY <2>3, <3>1, <3>2, Typed DEF HistOK
        <4> QED BY <1>1, <1>4, <1>5, <3>1, <3>2, <4>1 DEF Knows
      <3>3. CASE version[n] # NoVersion /\ hist[k].node = n
        BY <1>1, <1>3, <1>4, <1>5, <3>1, <3>3 DEF Knows
      <3>4. CASE version[n] # NoVersion /\ hist[k].node # n
        <4>1. /\ hist[k].node \in Node /\ hist[k].sid <= clock[hist[k].node]
              /\ hist[k].sid \in Nat /\ hist[k].lease \in Nat
          BY <2>3, <3>1, <3>4 DEF HistOK, HistState
        <4>2. clock[hist[k].node] <= clock[n] + Drift
          BY <4>1 DEF ClockOK
        <4>3. store[n].lease = hist[k].lease
          BY <1>3, <3>4 DEF Knows
        <4>4. expire'[n] = clock[n] + hist[k].lease /\ master'[n] = hist[k].node
          BY <1>5, <3>1, <3>4, <4>3
        <4>5. clock[n] \in Nat /\ Drift \in Nat /\ clock[hist[k].node] \in Nat
          BY <4>1, Typed
        <4>6. expire'[n] + Drift >= hist[k].sid + hist[k].lease
          BY <4>1, <4>2, <4>4, <4>5, SMTT(20)
        <4> QED BY <1>1, <1>4, <3>1, <3>4, <4>3, <4>4, <4>6 DEF Knows
      <3> QED BY <3>2, <3>3, <3>4
    <2> QED BY <1>1, <2>1, <2>2, <2>4 DEF KnowsOK
  <1>10. RoundOK'
    BY <1>1, <1>4, <1>5, <1>6, <1>7 DEF RoundOK, Idle
  <1>11. LeaseOver'
    <2>1. \A o \in ops : o.node \in Node
      BY DEF TypeOK, Operation
    <2> QED BY <1>1, <1>5, <1>6, <1>7, <2>1 DEF LeaseOver, Idle
  <1>12. MasterOK'
    BY <1>1, <1>5, <1>6, <1>7 DEF MasterOK, Pending, MyOperation, Idle
  <1> QED BY <1>2, <1>8, <1>9, <1>10, <1>11, <1>12

-----------------------------------------------------------------------------
(* Execute.                                                                *)

\* A node accepts an operation of the log just when the log's state does, and
\* then it was still at the version the log had there.
LEMMA AcceptedByAll ==
  ASSUME MasterInv, NEW n \in Node, applied[n] < Len(log),
         NEW k \in applied[n] + 1..Len(hist), Knows(n, k)
  PROVE  LET i  == applied[n]
             op == log[i + 1] IN
         /\ i + 1 \in 1..Len(hist) /\ i + 2 \in 1..Len(hist) /\ i + 1 \in 1..Len(log)
         /\ hist[i + 2] = HistAfter(hist[i + 1], i, op)
         /\ Accepts(version[n], i, op) =>
               /\ hist[k] = hist[i + 1] /\ version[n] < i
               /\ op.node \in Node
               /\ hist[i + 2] = [version |-> i, node |-> op.node, lease |-> op.lease, sid |-> op.sid]
         /\ ~Accepts(version[n], i, op) =>
               /\ VersionAfter(version[n], i, op) = version[n]
               /\ \E j \in i + 2..Len(hist) : hist[j] = hist[k]
  <1> USE DEF MasterInv
  <1> DEFINE i  == applied[n]
             op == log[i + 1]
  <1>1. /\ i \in Nat /\ i + 1 \in 1..Len(hist) /\ i + 2 \in 1..Len(hist)
        /\ i + 1 \in 1..Len(log) /\ k \in 1..Len(hist) /\ i + 1 <= k /\ k \in Int
    BY Typed, LastHistOK
  <1>2. hist[i + 2] = HistAfter(hist[i + 1], i, op)
    <2>1. hist[(i + 1) + 1] = HistAfter(hist[i + 1], (i + 1) - 1, op)
      BY <1>1 DEF HistOK
    <2>2. (i + 1) + 1 = i + 2 /\ (i + 1) - 1 = i
      BY <1>1
    <2> QED BY <2>1, <2>2
  <1>3. /\ op \in Operation \cup {Other} /\ hist[i + 1] \in HistState /\ hist[k] \in HistState
        /\ version[n] \in Int
    BY <1>1, Typed
  <1>4. hist[i + 1].version <= i - 1 /\ hist[i + 1].version \in Int
    <2>1. hist[i + 1].version \in Int
      BY <1>3 DEF HistState
    <2>2. hist[i + 1].version <= (i + 1) - 2
      BY <1>1 DEF HistOK
    <2> QED BY <1>1, <2>1, <2>2
  <1>5. hist[k] = hist[i + 1] \/ hist[k].version >= i
    <2>1. hist[k] = hist[i + 1] \/ hist[k].version >= (i + 1) - 1
      BY <1>1 DEF HistOK
    <2>2. (i + 1) - 1 = i
      BY <1>1
    <2> QED BY <2>1, <2>2
  <1>6. op.node # NoNode => op.last = hist[i + 1].version /\ op.version <= op.last
    BY <1>1 DEF LogOK
  <1>7. version[n] = hist[k].version
    BY DEF Knows
  <1>8. op.node # NoNode => op.version \in Int /\ op.node \in Node /\ op.last \in Int
    BY <1>3 DEF Operation, Other
  <1>9. op.node # NoNode => Fixed(version[n], i, op) = version[n]
    <2>1. CASE hist[k] = hist[i + 1]
      BY <1>6, <1>7, <2>1 DEF Fixed
    <2>2. CASE hist[k].version >= i
      <3>1. ~(i > version[n])
        BY <1>1, <1>3, <1>7, <2>2
      <3> QED BY <3>1 DEF Fixed
    <2> QED BY <1>5, <2>1, <2>2
  <1> HIDE DEF i, op
  <1>10. ASSUME Accepts(version[n], i, op)
         PROVE  /\ hist[k] = hist[i + 1] /\ version[n] < i
                /\ op.node \in Node
                /\ hist[i + 2] = [version |-> i, node |-> op.node, lease |-> op.lease, sid |-> op.sid]
    <2>1. op.node # NoNode /\ op.version = version[n]
      BY <1>9, <1>10 DEF Accepts
    <2>2. version[n] <= i - 1
      BY <1>1, <1>4, <1>6, <1>8, <2>1
    <2>3. hist[k] = hist[i + 1]
      BY <1>1, <1>3, <1>5, <1>7, <2>2
    <2>4. Accepts(hist[i + 1].version, i, op)
      BY <1>10, <1>7, <2>3
    <2> QED BY <1>1, <1>2, <1>3, <1>8, <2>1, <2>2, <2>3, <2>4 DEF HistAfter
  <1>11. ASSUME ~Accepts(version[n], i, op)
         PROVE  /\ VersionAfter(version[n], i, op) = version[n]
                /\ \E j \in i + 2..Len(hist) : hist[j] = hist[k]
    <2>1. VersionAfter(version[n], i, op) = version[n]
      BY <1>9, <1>11 DEF VersionAfter
    <2>2. CASE k = i + 1
      <3>1. ~Accepts(hist[i + 1].version, i, op)
        BY <1>7, <1>11, <2>2
      <3>2. VersionAfter(hist[i + 1].version, i, op) = hist[i + 1].version
        BY <1>7, <2>1, <2>2
      <3>3. hist[i + 2] = hist[i + 1]
        BY <1>2, <1>3, <3>1, <3>2 DEF HistAfter, HistState
      <3> QED BY <1>1, <2>1, <2>2, <3>3
    <2>3. CASE k # i + 1
      BY <1>1, <2>1, <2>3
    <2> QED BY <2>2, <2>3
  <1> QED BY <1>1, <1>2, <1>10, <1>11 DEF i, op

\* MasterStateMachine::Execute keeps the invariant.
LEMMA ExecuteStep ==
  ASSUME MasterInv, NEW n \in Node, Execute(n)
  PROVE  MasterInv'
  <1> USE DEF MasterInv
  <1> DEFINE i  == applied[n]
             op == log[i + 1]
  <1>1. UNCHANGED <<clock, setting, ops, log, hist>> /\ LastHist' = LastHist
    BY DEF Execute, LastHist
  <1>2. TypeOK'
    BY TypeNode, ConstantsOK DEF NodeStep
  <1>3. PICK k \in applied[n] + 1..Len(hist) : Knows(n, k)
    BY DEF KnowsOK
  <1>4. /\ applied[n] < Len(log) /\ i \in Nat
        /\ applied' = [applied EXCEPT ![n] = i + 1]
        /\ version' = [version EXCEPT ![n] = VersionAfter(version[n], i, op)]
        /\ round' = IF round[n].pc \in {"commit", "vain"} THEN [round EXCEPT ![n] = Idle] ELSE round
        /\ IF Accepts(version[n], i, op) THEN LearnMaster(n, i, op)
                                         ELSE UNCHANGED <<store, master, expire, leaseTime>>
    BY Typed DEF Execute
  <1>5. /\ i + 1 \in 1..Len(hist) /\ i + 2 \in 1..Len(hist) /\ i + 1 \in 1..Len(log)
        /\ hist[i + 2] = HistAfter(hist[i + 1], i, op)
        /\ Accepts(version[n], i, op) =>
              /\ hist[k] = hist[i + 1] /\ version[n] < i
              /\ op.node \in Node
              /\ hist[i + 2] = [version |-> i, node |-> op.node, lease |-> op.lease, sid |-> op.sid]
        /\ ~Accepts(version[n], i, op) =>
              /\ VersionAfter(version[n], i, op) = version[n]
              /\ \E j \in i + 2..Len(hist) : hist[j] = hist[k]
    BY <1>3, <1>4, AcceptedByAll
  <1> HIDE DEF i, op
  <1>6. /\ applied'[n] = i + 1
        /\ round'[n].pc \in {"idle", "checked", "made"}
        /\ round'[n] = Idle \/ round'[n] = round[n]
        /\ \A m \in Node \ {n} :
             /\ version'[m] = version[m] /\ applied'[m] = applied[m] /\ round'[m] = round[m]
             /\ master'[m] = master[m] /\ expire'[m] = expire[m] /\ store'[m] = store[m]
    BY <1>4, Typed, ZenonT(40) DEF TypeOK, LearnMaster, Idle, RoundState
  <1>7. ClockOK' /\ HistOK' /\ LogOK'
    BY <1>1 DEF ClockOK, HistOK, LogOK, HistAfter, Accepts, Fixed, VersionAfter
  <1>8. \A m \in Node \ {n} : /\ Live(m)' = Live(m)
                              /\ applied'[m] <= Len(log')
                              /\ \E j \in applied'[m] + 1..Len(hist') : Knows(m, j)'
    BY <1>1, <1>6 DEF Live, KnowsOK, Knows
  <1>9. \A m \in Node : FreeFor(m)' = FreeFor(m)
    BY <1>1 DEF FreeFor, Expired
  <1>10. \A o \in ops : o.node \in Node /\ o.version \in Int
    BY DEF TypeOK, Operation
  <1>11. CASE ~Accepts(version[n], i, op)
    <2>1. version' = version /\ UNCHANGED <<store, master, expire, leaseTime>>
      BY <1>4, <1>5, <1>11 DEF TypeOK
    <2>2. OpsOK'
      BY <1>1, <2>1 DEF OpsOK
    <2>3. PICK j \in i + 2..Len(hist) : hist[j] = hist[k]
      BY <1>5, <1>11
    <2>4. Knows(n, j)'
      BY <1>1, <1>3, <2>1, <2>3 DEF Knows
    <2>5. j \in applied'[n] + 1..Len(hist') /\ applied'[n] <= Len(log')
      BY <1>1, <1>4, <1>6, Typed, LastHistOK DEF i
    <2>6. KnowsOK'
      BY <1>8, <2>4, <2>5 DEF KnowsOK
    <2>7. \A m \in Node : Live(m)' = Live(m)
      BY <1>1, <2>1 DEF Live
    <2>8. RoundOK'
      BY <1>1, <1>6, <2>1, <2>7 DEF RoundOK, Idle
    <2>9. LeaseOver'
      BY <1>1, <1>6, <1>9, <1>10, <2>1, <2>7 DEF LeaseOver, Idle
    <2>10. MasterOK'
      BY <1>1, <1>6, <2>1, <2>7, ZenonT(40) DEF MasterOK, Pending, MyOperation
    <2> QED BY <1>2, <1>7, <2>2, <2>6, <2>8, <2>9, <2>10
  <1>12. CASE Accepts(version[n], i, op)
    <2>1. /\ hist[k] = hist[i + 1] /\ version[n] < i
          /\ op.node \in Node
          /\ hist[i + 2] = [version |-> i, node |-> op.node, lease |-> op.lease, sid |-> op.sid]
      BY <1>5, <1>12
    <2>2. version'[n] = i /\ version[n] \in Int
      BY <1>4, <1>12, <2>1, Typed DEF VersionAfter, TypeOK
    <2>3. /\ store'[n] = Variables(op.node, i, op.lease)
          /\ master'[n] = op.node
          /\ expire'[n] = IF op.node = n THEN ContextTimeout(n, op) ELSE clock[n] + op.lease
      BY <1>4, <1>12 DEF LearnMaster, TypeOK
    <2>4. op \in Operation /\ op.lease \in Nat /\ op.sid \in Nat /\ op.lease > Margin
      <3>1. op \in Operation
        BY <1>5, <2>1, Typed DEF op, Other
      <3> QED BY <3>1, ConstantsOK DEF Operation
    <2>5. OpsOK'
      BY <1>1, <1>4, <1>6, <1>10, <2>1, <2>2 DEF OpsOK
    <2>0. PICK c \in 1..Len(hist) : c = i + 2
      BY <1>5
    <2>6. Knows(n, c)'
      <3>1. i # NoVersion
        BY <1>4 DEF NoVersion
      <3>2. op.node # n => expire'[n] + Drift >= op.sid + op.lease
        <4> SUFFICES ASSUME op.node # n PROVE expire'[n] + Drift >= op.sid + op.lease
          OBVIOUS
        <4>1. op.sid <= clock[op.node]
          <5>1. hist[i + 2].version # NoVersion /\ hist[i + 2].node = op.node /\ hist[i + 2].sid = op.sid
            BY <2>1, <3>1
          <5> QED BY <1>5, <5>1 DEF HistOK
        <4>2. clock[op.node] <= clock[n] + Drift
          BY <2>1 DEF ClockOK
        <4>3. clock[op.node] \in Nat /\ clock[n] \in Nat /\ Drift \in Nat
          BY <2>1, Typed
        <4> QED BY <2>3, <2>4, <4>1, <4>2, <4>3
      <3>3. hist' = hist
        BY <1>1
      <3>4. /\ hist'[c].version = i /\ hist'[c].node = op.node
            /\ hist'[c].lease = op.lease /\ hist'[c].sid = op.sid
        BY <2>0, <2>1, <3>3
      <3>5. /\ store'[n].version = i /\ store'[n].node = op.node /\ store'[n].lease = op.lease
        BY <2>3 DEF Variables
      <3> QED BY <2>2, <2>3, <3>1, <3>2, <3>4, <3>5 DEF Knows
    <2>7. c \in applied'[n] + 1..Len(hist') /\ applied'[n] <= Len(log')
      BY <1>1, <1>4, <1>5, <1>6, <2>0, Typed, LastHistOK DEF i
    <2>a. \E j \in applied'[n] + 1..Len(hist') : Knows(n, j)'
      BY <2>6, <2>7
    <2>8. KnowsOK'
      BY <1>8, <2>7, <2>a DEF KnowsOK
    \* The node is master now only if its thread was waiting for this operation.
    <2>9. Live(n)' => /\ op.node = n /\ round[n].pc = "commit" /\ op = MyOperation(n, round[n].last)
                      /\ expire'[n] = round[n].sid + round[n].lease - Margin
                      /\ clock[n] < expire'[n]
      <3> SUFFICES ASSUME Live(n)'
                   PROVE  /\ op.node = n /\ round[n].pc = "commit" /\ op = MyOperation(n, round[n].last)
                          /\ expire'[n] = round[n].sid + round[n].lease - Margin
                          /\ clock[n] < expire'[n]
        OBVIOUS
      <3>1. op.node = n /\ clock[n] < expire'[n] /\ expire'[n] = ContextTimeout(n, op)
        BY <1>1, <2>3 DEF Live
      <3>2. round[n].pc = "commit" /\ op = MyOperation(n, round[n].last)
        BY <3>1, Typed DEF ContextTimeout
      <3> QED BY <3>1, <3>2 DEF ContextTimeout, MyOperation
    <2>10. /\ round[n].sid \in Nat /\ round[n].lease \in Nat /\ round[n].version \in Int
           /\ clock[n] \in Nat /\ setting[n] \in Nat /\ Margin \in Nat /\ version[n] \in Int
      BY Typed DEF RoundState
    <2>11. RoundOK'
      <3>1. Live(n)' => expire'[n] <= clock[n] + setting[n] - Margin
        <4> SUFFICES ASSUME Live(n)' PROVE expire'[n] <= clock[n] + setting[n] - Margin
          OBVIOUS
        <4>1. round[n].sid <= clock[n] /\ round[n].lease = setting[n]
          BY <2>9 DEF RoundOK
        <4>2. expire'[n] = round[n].sid + round[n].lease - Margin
          BY <2>9
        <4> QED BY <2>10, <4>1, <4>2
      <3>2. Live(n)' => round'[n] = Idle
        BY <1>4, <2>9 DEF TypeOK
      <3>3. round'[n].pc # "idle" => round'[n].version <= version'[n] /\ round'[n].lease = setting[n]
        BY <1>4, <1>6, <2>1, <2>2, <2>10, SMTT(20) DEF RoundOK, Idle
      <3>4. round'[n].pc \in {"made", "commit", "vain"} => round'[n].sid <= clock[n]
        BY <1>6 DEF RoundOK, Idle
      <3> SUFFICES ASSUME NEW m \in Node
                   PROVE  /\ Live(m)' => expire'[m] <= clock'[m] + setting'[m] - Margin
                          /\ round'[m].pc # "idle" =>
                                round'[m].version <= version'[m] /\ round'[m].lease = setting'[m]
                          /\ round'[m].pc \in {"made", "commit", "vain"} =>
                                /\ round'[m].sid <= clock'[m]
                                /\ Live(m)' => expire'[m] <= round'[m].sid + round'[m].lease - Margin
                          /\ round'[m].pc = "commit" => round'[m].last = version'[m]
        BY DEF RoundOK
      <3>5. CASE m = n
        BY <1>1, <1>6, <3>1, <3>2, <3>3, <3>4, <3>5 DEF Idle
      <3>6. CASE m # n
        BY <1>1, <1>6, <1>8, <3>6 DEF RoundOK
      <3> QED BY <3>5, <3>6
    \* The log's last version is this instance's or a later one's.
    <2>12. LastHist.version >= i /\ LastHist.version \in Int
      <3>a. /\ i + 2 \in 1..Len(hist) /\ Len(hist) \in 1..Len(hist)
            /\ i + 2 <= Len(hist)
        BY <1>5, LastHistOK, Typed
      <3>1. LastHist = hist[i + 2] \/ LastHist.version >= (i + 2) - 1
        BY <3>a DEF HistOK, LastHist
      <3>2. hist[i + 2].version = i
        BY <2>1
      <3> QED BY <1>4, <3>1, <3>2, LastHistOK DEF HistState
    <2>13. LeaseOver'
      <3>1. \A m \in Node : round'[m].pc # "idle" =>
               round[m].pc # "idle" /\ round'[m].version = round[m].version
        BY <1>6 DEF Idle
      <3>2. ASSUME NEW o \in ops, o.version = LastHist.version, Live(o.node)'
            PROVE  expire'[o.node] <= o.sid + o.lease - Margin
        <4>1. CASE o.node # n
          BY <1>6, <1>8, <1>10, <3>2, <4>1 DEF LeaseOver
        <4>2. CASE o.node = n
          <5>1. o.version <= version[n]
            BY <4>2 DEF OpsOK
          <5> QED BY <1>4, <1>10, <2>1, <2>10, <2>12, <3>2, <5>1
        <4> QED BY <4>1, <4>2
      <3> QED BY <1>1, <1>9, <1>10, <3>1, <3>2 DEF LeaseOver
    <2>14. MasterOK'
      <3>1. Live(n)' => LastHist.node = n /\ expire'[n] <= LastHist.sid + LastHist.lease - Margin
        <4> SUFFICES ASSUME Live(n)'
                     PROVE  LastHist.node = n /\ expire'[n] <= LastHist.sid + LastHist.lease - Margin
          OBVIOUS
        <4>1. hist[applied[n] + 2].version = applied[n] /\ Pending(n) = MyOperation(n, round[n].last)
          BY <2>1, <2>9 DEF i, op, Pending
        <4>2. \/ clock[n] >= round[n].sid + round[n].lease - Margin
              \/ /\ LastHist.node = n
                 /\ round[n].sid + round[n].lease <= LastHist.sid + LastHist.lease
          BY <1>4, <2>9, <4>1 DEF MasterOK
        <4>3. LastHist.sid \in Nat /\ LastHist.lease \in Nat
          BY LastHistOK DEF HistState
        <4>4. expire'[n] = round[n].sid + round[n].lease - Margin /\ clock[n] < expire'[n]
          BY <2>9
        <4>5. ~(clock[n] >= round[n].sid + round[n].lease - Margin)
          BY <2>10, <4>4, SMTT(20)
        <4>6. /\ LastHist.node = n
              /\ round[n].sid + round[n].lease <= LastHist.sid + LastHist.lease
          BY <4>2, <4>5
        <4>7. expire'[n] + Margin <= LastHist.sid + LastHist.lease /\ expire'[n] \in Int
          BY <2>10, <4>3, <4>4, <4>6, SMTT(20)
        <4> QED BY <2>10, <4>3, <4>6, <4>7, SMTT(20)
      <3>2. round'[n].pc # "commit"
        BY <1>6
      <3> QED BY <1>1, <1>6, <1>8, <3>1, <3>2 DEF MasterOK, Pending, MyOperation
    <2> QED BY <1>2, <1>7, <2>5, <2>8, <2>11, <2>13, <2>14
  <1> QED BY <1>11, <1>12

-----------------------------------------------------------------------------
(* Choose.                                                                 *)

\* What an instance does to the replicated state.
LEMMA HistGrows ==
  ASSUME MasterInv, NEW op \in ops \cup {Other}
  PROVE  LET h == HistAfter(LastHist, Len(log), op) IN
         \/ /\ op \in ops /\ op.node \in Node /\ op.version = LastHist.version
            /\ h = [version |-> Len(log), node |-> op.node, lease |-> op.lease, sid |-> op.sid]
         \/ h = LastHist
  <1> USE DEF MasterInv
  <1>1. LastHist \in HistState
    BY LastHistOK
  <1>2. CASE op = Other
    <2>1. op.node = NoNode
      BY <1>2 DEF Other
    <2> QED BY <1>1, <2>1 DEF HistAfter, Accepts, VersionAfter, HistState
  <1>3. CASE op \in ops
    <2>1. op.last = LastHist.version /\ op.node \in Node
      BY <1>3 DEF OpsOK, TypeOK, Operation
    <2>2. /\ Fixed(LastHist.version, Len(log), op) = LastHist.version
          /\ Accepts(LastHist.version, Len(log), op) <=> op.version = LastHist.version
      BY <2>1, Typed DEF Fixed, Accepts
    <2>3. CASE op.version = LastHist.version
      BY <1>3, <2>1, <2>2, <2>3 DEF HistAfter
    <2>4. CASE op.version # LastHist.version
      BY <1>1, <2>1, <2>2, <2>4 DEF HistAfter, VersionAfter, HistState
    <2> QED BY <2>3, <2>4
  <1> QED BY <1>2, <1>3

\* A node's version is older than the next instance.
LEMMA VersionOld ==
  ASSUME MasterInv, NEW n \in Node
  PROVE  version[n] < Len(log)
  <1> USE DEF MasterInv
  <1>1. PICK k \in applied[n] + 1..Len(hist) : Knows(n, k)
    BY DEF KnowsOK
  <1>2. k \in 1..Len(hist) /\ k <= Len(log) + 1 /\ k \in Int
    BY Typed, LastHistOK
  <1>3. hist[k].version <= k - 2 /\ version[n] = hist[k].version
    BY <1>1, <1>2 DEF HistOK, Knows
  <1> QED BY <1>2, <1>3, Typed

\* The choice of an instance keeps the invariant.
LEMMA ChooseKeepsInv ==
  ASSUME MasterInv, NEW op \in ops \cup {Other}, Choose(op)
  PROVE  MasterInv'
  <1> USE DEF MasterInv
  <1> DEFINE h == HistAfter(LastHist, Len(log), op)
             L == Len(log)
  <1>1. UNCHANGED <<clock, local, setting, round, applied>>
    BY DEF Choose
  <1>2. log' = Append(log, op) /\ hist' = Append(hist, h) /\ ops' = {}
    BY DEF Choose, LastHist
  <1>3. TypeOK'
    BY TypeChoose DEF HistOK
  <1>4. /\ L \in Nat /\ Len(hist) = L + 1
        /\ Len(log') = L + 1 /\ Len(hist') = L + 2
        /\ \A i \in 1..L + 1 : hist'[i] = hist[i]
        /\ hist'[L + 2] = h
        /\ \A i \in 1..L : log'[i] = log[i]
        /\ log'[L + 1] = op
        /\ hist[L + 1] = LastHist
    <2>1. /\ log \in Seq(Operation \cup {Other}) /\ hist \in Seq(HistState)
          /\ log' \in Seq(Operation \cup {Other}) /\ hist' \in Seq(HistState)
      BY <1>3 DEF TypeOK
    <2>2. L \in Nat /\ Len(hist) = L + 1
      BY LastHistOK, Typed
    <2>3. op \in Operation \cup {Other}
      BY DEF TypeOK
    <2>4. h \in HistState
      BY <2>2, <2>3, LastHistOK, HistTyped
    <2> HIDE DEF h
    <2>5. Len(log') = L + 1 /\ Len(hist') = L + 2
      BY <1>2, <2>1, <2>2, <2>3, <2>4
    <2>6. \A i \in 1..L : log'[i] = log[i]
      BY <1>2, <2>1, <2>2, <2>3
    <2>7. log'[L + 1] = op
      BY <1>2, <2>1, <2>2, <2>3
    <2>8. \A i \in 1..L + 1 : hist'[i] = hist[i]
      BY <1>2, <2>1, <2>2, <2>4
    <2>9. hist'[L + 2] = h
      BY <1>2, <2>1, <2>2, <2>4
    <2> QED BY <2>2, <2>5, <2>6, <2>7, <2>8, <2>9 DEF LastHist
  <1>5. LastHist' = h
    BY <1>4 DEF LastHist
  <1>6. \/ /\ op \in ops /\ op.node \in Node /\ op.version = LastHist.version
           /\ h = [version |-> L, node |-> op.node, lease |-> op.lease, sid |-> op.sid]
        \/ h = LastHist
    BY HistGrows
  <1>7. op \in ops => /\ op.last = LastHist.version /\ op.version <= op.last
                      /\ op.version <= version[op.node]
                      /\ op.sid <= clock[op.node]
                      /\ op.lease \in Leases /\ op.lease \in Nat /\ op.sid \in Nat
    BY ConstantsOK DEF OpsOK, TypeOK, Operation
  <1>8. /\ LastHist \in HistState /\ NoVersion <= LastHist.version /\ LastHist.version < L
        /\ LastHist.version \in Int
    BY LastHistOK DEF HistState
  <1> HIDE DEF h
  <1>9. ClockOK'
    BY <1>1 DEF ClockOK
  <1>10. HistOK'
    <2>1. \A i \in 1..L + 2 :
             /\ NoVersion <= hist'[i].version /\ hist'[i].version <= i - 2
             /\ IF hist'[i].version = NoVersion THEN hist'[i].node = NoNode
                ELSE /\ hist'[i].node \in Node
                     /\ hist'[i].lease \in Leases
                     /\ hist'[i].sid <= clock[hist'[i].node]
      <3> SUFFICES ASSUME NEW i \in 1..L + 2
                   PROVE  /\ NoVersion <= hist'[i].version /\ hist'[i].version <= i - 2
                          /\ IF hist'[i].version = NoVersion THEN hist'[i].node = NoNode
                             ELSE /\ hist'[i].node \in Node
                                  /\ hist'[i].lease \in Leases
                                  /\ hist'[i].sid <= clock[hist'[i].node]
        OBVIOUS
      <3>1. CASE i \in 1..L + 1
        BY <1>4, <3>1 DEF HistOK
      <3>2. CASE i = L + 2 /\ h = LastHist
        BY <1>4, <1>8, <3>2, LastHistOK DEF NoVersion
      <3>3. CASE i = L + 2 /\ h # LastHist
        BY <1>4, <1>6, <1>7, <3>3 DEF NoVersion
      <3> QED BY <1>4, <3>1, <3>2, <3>3
    <2>2. \A i, j \in 1..L + 2 : i <= j => hist'[j] = hist'[i] \/ hist'[j].version >= i - 1
      <3> SUFFICES ASSUME NEW i \in 1..L + 2, NEW j \in 1..L + 2, i <= j
                   PROVE  hist'[j] = hist'[i] \/ hist'[j].version >= i - 1
        OBVIOUS
      <3>1. CASE j \in 1..L + 1
        <4>1. i \in 1..L + 1
          BY <1>4, <3>1
        <4>2. hist[j] = hist[i] \/ hist[j].version >= i - 1
          BY <1>4, <3>1, <4>1 DEF HistOK
        <4> QED BY <1>4, <3>1, <4>1, <4>2
      <3>2. CASE j = L + 2 /\ i = L + 2
        BY <3>2
      <3>3. CASE j = L + 2 /\ i \in 1..L + 1 /\ h = LastHist
        <4>1. hist[L + 1] = hist[i] \/ hist[L + 1].version >= i - 1
          BY <1>4, <3>3 DEF HistOK
        <4> QED BY <1>4, <3>3, <4>1
      <3>4. CASE j = L + 2 /\ i \in 1..L + 1 /\ h # LastHist
        BY <1>4, <1>6, <3>4
      <3> QED BY <1>4, <3>1, <3>2, <3>3, <3>4
    <2>3. \A i \in 1..L + 1 : hist'[i + 1] = HistAfter(hist'[i], i - 1, log'[i])
      <3> SUFFICES ASSUME NEW i \in 1..L + 1
                   PROVE  hist'[i + 1] = HistAfter(hist'[i], i - 1, log'[i])
        OBVIOUS
      <3>1. CASE i \in 1..L
        <4>1. hist[i + 1] = HistAfter(hist[i], i - 1, log[i])
          BY <3>1 DEF HistOK
        <4>2. hist'[i + 1] = hist[i + 1] /\ hist'[i] = hist[i] /\ log'[i] = log[i]
          BY <1>4, <3>1
        <4> QED BY <4>1, <4>2
      <3>2. CASE i = L + 1
        <4>1. i + 1 = L + 2 /\ i - 1 = L
          BY <1>4, <3>2
        <4>2. hist'[i] = LastHist /\ log'[i] = op
          BY <1>4, <3>2
        <4> QED BY <1>4, <4>1, <4>2 DEF h
      <3> QED BY <1>4, <3>1, <3>2
    <2>4. clock' = clock /\ Len(hist') = Len(log') + 1
      BY <1>1, <1>4
    <2> QED BY <1>4, <2>1, <2>2, <2>3, <2>4 DEF HistOK, HistAfter, Accepts, Fixed, VersionAfter
  <1>11. LogOK'
    <2> SUFFICES ASSUME NEW i \in 1..L + 1, log'[i].node # NoNode
                 PROVE  log'[i].last = hist'[i].version /\ log'[i].version <= log'[i].last
      BY <1>4 DEF LogOK
    <2>1. CASE i \in 1..L
      BY <1>4, <2>1 DEF LogOK
    <2>2. CASE i = L + 1
      <3>1. op \in ops
        BY <1>4, <2>2 DEF Other
      <3> QED BY <1>4, <1>7, <2>2, <3>1
    <2> QED BY <1>4, <2>1, <2>2
  <1>12. OpsOK'
    BY <1>2 DEF OpsOK
  <1>13. KnowsOK'
    <2> SUFFICES ASSUME NEW n \in Node
                 PROVE  /\ applied'[n] <= Len(log')
                        /\ \E k \in applied'[n] + 1..Len(hist') : Knows(n, k)'
      BY DEF KnowsOK
    <2>1. PICK k \in applied[n] + 1..Len(hist) : Knows(n, k)
      BY DEF KnowsOK
    <2>2. k \in 1..L + 1 /\ k \in applied[n] + 1..L + 2 /\ applied[n] <= L + 1
      BY <1>4, <2>1, Typed DEF KnowsOK
    <2>3. hist'[k] = hist[k]
      BY <1>4, <2>2
    <2>4. Knows(n, k)'
      BY <1>1, <2>1, <2>3 DEF Knows, local
    <2> QED BY <1>1, <1>4, <2>2, <2>4
  <1>14. \A n \in Node : Live(n)' = Live(n)
    BY <1>1 DEF Live, local
  <1>15. RoundOK'
    BY <1>1, <1>14 DEF RoundOK, local
  <1>16. LeaseOver'
    <2> SUFFICES ASSUME NEW n \in Node, round[n].pc # "idle", round[n].version = h.version
                 PROVE  FreeFor(n)'
      BY <1>1, <1>2, <1>5 DEF LeaseOver
    <2>1. CASE h = LastHist
      BY <1>1, <1>5, <2>1 DEF LeaseOver, FreeFor, Expired
    <2>2. CASE h # LastHist
      <3>1. h.version = L
        BY <1>6, <2>2
      <3>2. round[n].version <= version[n] /\ version[n] < L
        BY VersionOld DEF RoundOK
      <3>3. version[n] \in Int /\ round[n].version \in Int
        BY Typed DEF RoundState
      <3> QED BY <1>4, <3>1, <3>2, <3>3
    <2> QED BY <2>1, <2>2
  <1>17. MasterOK'
    <2> SUFFICES ASSUME NEW n \in Node
                 PROVE  /\ Live(n) => h.node = n /\ expire[n] <= h.sid + h.lease - Margin
                        /\ /\ round[n].pc = "commit"
                           /\ applied[n] < L + 1
                           /\ Pending(n)' = MyOperation(n, round[n].last)
                           /\ hist'[applied[n] + 2].version = applied[n]
                           => \/ clock[n] >= round[n].sid + round[n].lease - Margin
                              \/ /\ h.node = n
                                 /\ round[n].sid + round[n].lease <= h.sid + h.lease
      BY <1>1, <1>4, <1>5, <1>14 DEF MasterOK, MyOperation, local
    <2>1. /\ clock[n] \in Nat /\ expire[n] \in Int /\ Margin \in Nat /\ applied[n] \in Nat
          /\ round[n].sid \in Nat /\ round[n].lease \in Nat /\ version[n] \in Int
      BY Typed DEF RoundState
    <2>2. LastHist.sid \in Nat /\ LastHist.lease \in Nat
      BY <1>8 DEF HistState
    <2>3. Live(n) => /\ LastHist.node = n
                     /\ expire[n] <= LastHist.sid + LastHist.lease - Margin
                     /\ clock[n] < expire[n]
      BY DEF MasterOK, Live
    <2>4. CASE h # LastHist
      <3>1. /\ op \in ops /\ op.node \in Node /\ op.version = LastHist.version
            /\ h.node = op.node /\ h.sid = op.sid /\ h.lease = op.lease
        BY <1>6, <2>4
      <3>2. /\ FreeFor(op.node)
            /\ Live(op.node) => expire[op.node] <= op.sid + op.lease - Margin
        BY <3>1 DEF LeaseOver
      \* An operation of another node takes effect only when the lease is over.
      <3>3. LastHist.node = n /\ op.node # n =>
               clock[n] >= LastHist.sid + LastHist.lease - Margin
        BY <3>2 DEF FreeFor, Expired
      <3>4. Live(n) => h.node = n /\ expire[n] <= h.sid + h.lease - Margin
        <4> SUFFICES ASSUME Live(n) PROVE h.node = n /\ expire[n] <= h.sid + h.lease - Margin
          OBVIOUS
        <4>1. op.node = n
          <5> SUFFICES ASSUME op.node # n PROVE FALSE
            OBVIOUS
          <5>1. clock[n] >= LastHist.sid + LastHist.lease - Margin
            BY <2>3, <3>3
          <5>2. clock[n] >= expire[n]
            BY <2>1, <2>2, <2>3, <5>1
          <5> QED BY <2>1, <2>3, <5>2
        <4> QED BY <3>1, <3>2, <4>1
      <3>5. ASSUME round[n].pc = "commit", applied[n] < L + 1,
                   Pending(n)' = MyOperation(n, round[n].last),
                   hist'[applied[n] + 2].version = applied[n]
            PROVE  \/ clock[n] >= round[n].sid + round[n].lease - Margin
                   \/ /\ h.node = n
                      /\ round[n].sid + round[n].lease <= h.sid + h.lease
        <4>1. CASE applied[n] = L
          <5>1. op = MyOperation(n, round[n].last)
            BY <1>1, <1>4, <3>5, <4>1 DEF Pending
          <5>2. h.node = n /\ h.sid = round[n].sid /\ h.lease = round[n].lease
            BY <3>1, <5>1 DEF MyOperation
          <5> QED BY <2>1, <5>2
        <4>2. CASE applied[n] < L
          <5>1. /\ applied[n] + 1 \in 1..L /\ applied[n] + 2 \in 1..L + 1
                /\ applied[n] + 2 \in 1..Len(hist) /\ applied[n] + 1 \in 1..Len(hist)
            BY <1>4, <2>1, <4>2
          <5>2. /\ Pending(n) = MyOperation(n, round[n].last)
                /\ hist[applied[n] + 2].version = applied[n]
            BY <1>1, <1>4, <3>5, <5>1 DEF Pending
          <5>3. \/ clock[n] >= round[n].sid + round[n].lease - Margin
                \/ /\ LastHist.node = n
                   /\ round[n].sid + round[n].lease <= LastHist.sid + LastHist.lease
            BY <3>5, <4>2, <5>2 DEF MasterOK
          \* The node is still at the version its pending operation was made over.
          <5>4. version[n] < applied[n]
            <6>1. Pending(n).node = n /\ Pending(n).last = round[n].last
              BY <5>2 DEF MyOperation
            <6>2. Pending(n).last = hist[applied[n] + 1].version
              BY <5>1, <6>1, Typed DEF LogOK, Pending
            <6>3. hist[applied[n] + 1].version <= (applied[n] + 1) - 2
              BY <5>1 DEF HistOK
            <6>4. round[n].last = version[n]
              BY <3>5 DEF RoundOK
            <6>5. hist[applied[n] + 1].version = version[n]
              BY <6>1, <6>2, <6>4
            <6> QED BY <2>1, <6>3, <6>5
          <5>5. LastHist.version >= applied[n]
            <6>1. LastHist = hist[applied[n] + 2] \/ LastHist.version >= (applied[n] + 2) - 1
              BY <1>4, <5>1, SMTT(20) DEF HistOK
            <6> QED BY <1>8, <2>1, <5>2, <6>1
          <5>6. op.node # n
            <6> SUFFICES ASSUME op.node = n PROVE FALSE
              OBVIOUS
            <6>1. op.version <= version[n]
              BY <1>7, <3>1
            <6> QED BY <1>8, <2>1, <3>1, <5>4, <5>5, <6>1
          <5>7. CASE LastHist.node = n /\ round[n].sid + round[n].lease <= LastHist.sid + LastHist.lease
            <6>1. clock[n] >= LastHist.sid + LastHist.lease - Margin
              BY <3>3, <5>6, <5>7
            <6>2. round[n].sid + round[n].lease <= clock[n] + Margin
              BY <2>1, <2>2, <5>7, <6>1
            <6> QED BY <2>1, <6>2
          <5> QED BY <5>3, <5>7
        <4> QED BY <1>4, <2>1, <3>5, <4>1, <4>2
      <3> QED BY <3>4, <3>5
    <2>5. CASE h = LastHist
      <3>1. ASSUME round[n].pc = "commit", applied[n] < L + 1,
                   Pending(n)' = MyOperation(n, round[n].last),
                   hist'[applied[n] + 2].version = applied[n]
            PROVE  \/ clock[n] >= round[n].sid + round[n].lease - Margin
                   \/ /\ h.node = n
                      /\ round[n].sid + round[n].lease <= h.sid + h.lease
        <4>1. CASE applied[n] = L
          BY <1>4, <1>8, <2>5, <3>1, <4>1
        <4>2. CASE applied[n] < L
          <5>1. /\ applied[n] + 1 \in 1..L /\ applied[n] + 2 \in 1..L + 1
            BY <1>4, <2>1, <4>2, SMTT(20)
          <5>2. /\ Pending(n) = MyOperation(n, round[n].last)
                /\ hist[applied[n] + 2].version = applied[n]
            BY <1>1, <1>4, <3>1, <5>1 DEF Pending
          <5> QED BY <2>5, <3>1, <4>2, <5>2 DEF MasterOK
        <4> QED BY <1>4, <2>1, <3>1, <4>1, <4>2
      <3> QED BY <2>3, <2>5, <3>1
    <2> QED BY <2>4, <2>5
  <1> QED BY <1>3, <1>9, <1>10, <1>11, <1>12, <1>13, <1>15, <1>16, <1>17

-----------------------------------------------------------------------------
\* The invariant speaks of vars only.
LEMMA StutterStep == MasterInv /\ UNCHANGED vars => MasterInv'
  <1> SUFFICES ASSUME MasterInv, UNCHANGED vars PROVE MasterInv'
    OBVIOUS
  <1> USE DEF MasterInv, vars, local
  <1>1. ClockOK' /\ HistOK' /\ LogOK' /\ KnowsOK' /\ LastHist' = LastHist
        /\ \A m \in Node : Live(m)' = Live(m) /\ FreeFor(m)' = FreeFor(m)
    BY ThreadFrame
  <1>2. TypeOK'
    BY DEF TypeOK
  <1>3. OpsOK' /\ RoundOK'
    BY <1>1 DEF OpsOK, RoundOK
  <1>4. LeaseOver'
    BY <1>1 DEF LeaseOver, TypeOK, Operation
  <1>5. MasterOK'
    BY <1>1 DEF MasterOK, Pending, MyOperation
  <1> QED BY <1>1, <1>2, <1>3, <1>4, <1>5

\* The invariant: see PaxosMasterSafety.
THEOREM MasterInvariant == Spec => []MasterInv
  <1>1. MasterInv /\ [Next]_vars => MasterInv'
    <2> SUFFICES ASSUME MasterInv, [Next]_vars PROVE MasterInv'
      OBVIOUS
    <2>1. ASSUME NEW n \in Node, NEW l \in Leases, l >= setting[n], CheckMaster(n, l)
          PROVE  MasterInv'
      BY <2>1, CheckStep
    <2>2. ASSUME NEW n \in Node, NodeStep(n)
          PROVE  MasterInv'
      BY <2>2, MakeStep, CommitStep, TimeoutStep, ExecuteStep, RestartStep, TickStep DEF NodeStep
    <2>3. CASE ChooseStep
      BY <2>3, ChooseKeepsInv DEF ChooseStep
    <2>4. CASE UNCHANGED vars
      BY <2>4, StutterStep
    <2> QED BY <2>1, <2>2, <2>3, <2>4 DEF Next
  <1> QED BY <1>1, InitInv, PTL DEF Spec

\* README.md:393: at any moment at most one node considers itself master,
\* whatever the number of nodes, the leases and the speed of their clocks
\* within Drift, and with nodes that crash, time out and fall behind.
THEOREM OneMaster == Spec => []AtMostOneMaster
  <1>1. MasterInv => AtMostOneMaster
    <2> SUFFICES ASSUME MasterInv, NEW m \in Node, NEW n \in Node, IsIMMaster(m), IsIMMaster(n)
                 PROVE  m = n
      BY DEF AtMostOneMaster
    <2>1. \A x \in Node : IsIMMaster(x) => Live(x)
      BY Typed DEF MasterInv, IsIMMaster, SafeGetMaster, Live
    <2> QED BY <2>1 DEF MasterInv, MasterOK
  <1> QED BY <1>1, MasterInvariant, PTL

\* Every node's version and master are those of the log at an instance it has
\* reached or heard of: replicas do not diverge (MasterStateMachine::Execute).
THEOREM ReplicasFollowLog == Spec => []ReplicasAgree
  <1>1. MasterInv => ReplicasAgree
    <2> SUFFICES ASSUME MasterInv, NEW n \in Node
                 PROVE  \E i \in applied[n]..Len(log) :
                           /\ version[n] = hist[i + 1].version
                           /\ master[n] \in {hist[i + 1].node, NoNode}
      BY DEF ReplicasAgree
    <2>1. PICK k \in applied[n] + 1..Len(hist) : Knows(n, k)
      BY DEF MasterInv, KnowsOK
    <2>2. k - 1 \in applied[n]..Len(log) /\ (k - 1) + 1 = k
      BY Typed, LastHistOK DEF MasterInv
    <2>3. version[n] = hist[k].version /\ master[n] \in {hist[k].node, NoNode}
      BY <2>1 DEF Knows
    <2> QED BY <2>2, <2>3
  <1> QED BY <1>1, MasterInvariant, PTL

\* The office changes hands only after the deadline of the master before has
\* passed on its own clock: no node steals a lease (MasterMgr::TryBeMaster).
THEOREM NoStolenLease == Spec => TakeoverAfterExpiry
  <1> DEFINE Change ==
        LET old == hist[Len(hist)]
            new == hist'[Len(hist')] IN
        new.node # old.node /\ old.node # NoNode
          => clock[old.node] >= old.sid + old.lease - Margin
  <1>1. MasterInv /\ [Next]_vars => [Change]_hist
    <2> SUFFICES ASSUME MasterInv, Next, hist' # hist PROVE Change
      BY DEF vars
    <2>1. PICK op \in ops \cup {Other} : Choose(op)
      BY DEF Next, NodeStep, CheckMaster, MakeOperation, StartCommit, CommitTimeout, Execute,
             Restart, Tick, ChooseStep
    <2>2. hist'[Len(hist')] = HistAfter(LastHist, Len(log), op)
      BY <2>1, LastHistOK DEF MasterInv, TypeOK, Choose, LastHist
    <2>3. ASSUME HistAfter(LastHist, Len(log), op).node # LastHist.node, LastHist.node # NoNode
          PROVE  Expired(LastHist)
      <3>1. /\ op \in ops /\ op.version = LastHist.version
            /\ HistAfter(LastHist, Len(log), op).node = op.node
        BY <2>3, HistGrows
      <3>2. FreeFor(op.node) /\ LastHist.node \in Node
        BY <2>3, <3>1, LastHistOK DEF MasterInv, LeaseOver, HistState
      <3> QED BY <2>3, <3>1, <3>2 DEF FreeFor
    <2> QED BY <2>2, <2>3 DEF LastHist, Expired
  <1> QED BY <1>1, MasterInvariant, PTL DEF Spec, TakeoverAfterExpiry

(***************************************************************************)
(* Clocks, leases, rounds, operations and the log stay in their types      *)
(* (MasterStateMachine, MasterMgr).                                        *)
(***************************************************************************)
THEOREM MasterTypes == Spec => []TypeOK
  <1>1. MasterInv => TypeOK
    BY DEF MasterInv
  <1> QED BY <1>1, MasterInvariant, PTL
=============================================================================
