---------------------------- MODULE PoVSyncProofs -----------------------------
(***************************************************************************)
(* Proof, for any nodes, committee and number of restarts and blocks, that *)
(* synchronisation keeps every database a chain, and that a node which     *)
(* takes part again has applied all of its blocks but at most one.         *)
(***************************************************************************)
EXTENDS PoVSyncSafety, FiniteSetTheorems, SequenceTheorems, TLAPS

(***************************************************************************)
(* The inductive invariant.                                                *)
(***************************************************************************)
Blocks == published \cup {Genesis}

\* The published blocks are one branch.
OneBranch ==
  \A b \in Blocks :
    /\ b.height \in 0 .. MaxHeight
    /\ \A c \in Blocks : c.height = b.height => c = b
    /\ b.height > 0 => b.prev \in Blocks /\ b.prev.height = b.height - 1

\* A set of blocks with exactly the heights up to k.
Full(blocks, k) ==
  /\ \A b \in blocks : b.height \in 0 .. k
  /\ \A i \in 0 .. k : \E b \in blocks : b.height = i

NoGaps == \A n \in Nodes : \E k \in Heights : Full(db[n], k)

\* What is on its way was published, and peers do not exaggerate.
MsgsOK ==
  \A m \in msgs :
    /\ m.type \in {"ResponseBlock", "PublishBlock"} => m.block \in Blocks
    /\ m.type = "ResponseHeight" => m.from \in Nodes /\ m.height \in Heights

\* The next block is awaited only by a node that synchronises with a syncer
\* that is still within its wait and has that block.
AskedOK(n) ==
  \A h \in calls[n] :
    /\ h <= Height(n) + 1
    /\ h = Height(n) + 1 => state[n] = "sync" /\ active[n] /\ h <= current[n].height

Ascending(blocks) ==
  \A i \in 2 .. Len(blocks) : blocks[i - 1].height < blocks[i].height

AppliedOK(n) ==
  /\ \A i \in DOMAIN applied[n] : applied[n][i] \in db[n]
  /\ Ascending(applied[n])
  /\ IF state[n] = "normal" THEN Height(n) <= Len(applied[n]) ELSE applied[n] = <<>>

NodesOK == \A n \in Nodes : AskedOK(n) /\ AppliedOK(n)

SInv == TypeOK /\ OneBranch /\ NoGaps /\ MsgsOK /\ NodesOK

------------------------------------------------------------------------------
(***************************************************************************)
(* Databases without gaps.                                                 *)
(***************************************************************************)
LEMMA HeightOfFull ==
  ASSUME NEW S, NEW k \in Int, k >= -1, Full(S, k) PROVE HeightOf(S) = k
<1>1. CASE k = -1
  BY <1>1 DEF Full, HeightOf
<1>2. CASE k >= 0
  <2>1. PICK b \in S : b.height = k
    BY <1>2 DEF Full
  <2>2. \A c \in S : c.height <= k /\ c.height \in Int
    BY DEF Full
  <2> DEFINE top == CHOOSE t \in S : \A c \in S : c.height <= t.height
  <2>3. top \in S /\ \A c \in S : c.height <= top.height
    BY <2>1, <2>2
  <2>4. top.height = k
    BY <2>1, <2>2, <2>3
  <2>. QED  BY <2>1, <2>4 DEF HeightOf
<1>. QED  BY <1>1, <1>2

LEMMA HeightIs ==
  ASSUME SInv, NEW n \in Nodes
  PROVE  Full(db[n], Height(n)) /\ Height(n) \in Heights /\ Height(n) \in Int /\ Height(n) >= -1
<1>1. PICK k \in Heights : Full(db[n], k)
  BY DEF SInv, NoGaps
<1>2. k \in Int /\ k >= -1
  BY SyncAssumption DEF Heights
<1>. QED  BY <1>1, <1>2, HeightOfFull DEF Height

\* The block a node puts on its chain closes no gap and leaves none.
LEMMA FullNext ==
  ASSUME NEW S, NEW k \in Int, k >= -1, Full(S, k), NEW b, b.height = k + 1
  PROVE  Full(S \cup {b}, k + 1)
BY DEF Full

LEMMA StoredNext ==
  ASSUME SInv, NEW n \in Nodes, NEW b, b.height = Height(n) + 1
  PROVE  Stored(n, b) = db[n] \cup {b}
<1>1. BlocksAt(n, b.height) = {}
  BY HeightIs DEF BlocksAt, Full
<1>. QED  BY <1>1 DEF Stored

LEMMA TopIs ==
  ASSUME SInv, NEW n \in Nodes, Height(n) >= 0
  PROVE  Top(n) \in db[n] /\ Top(n).height = Height(n)
<1>1. \E b \in db[n] : b.height = Height(n)
  BY HeightIs DEF Full
<1>. QED  BY <1>1 DEF Top, BlocksAt

\* What the replay applies.
LEMMA Replay ==
  ASSUME SInv, NEW n \in Nodes, Height(n) # -1
  PROVE  /\ Replayed(n) \in Seq(db[n])
         /\ Len(Replayed(n)) = Height(n)
         /\ Ascending(Replayed(n))
<1>1. Full(db[n], Height(n)) /\ Height(n) \in Nat
  BY HeightIs
<1>2. Cardinality(ReplayedHeights(n)) = Height(n)
  BY <1>1, FS_Interval DEF ReplayedHeights
<1> DEFINE f == [i \in 1 .. Height(n) |-> CHOOSE b \in BlocksAt(n, i - 1) : TRUE]
<1>3. Replayed(n) = f
  BY <1>2 DEF Replayed
<1>4. ASSUME NEW i \in 1 .. Height(n) PROVE f[i] \in db[n] /\ f[i].height = i - 1
  <2>1. \E b \in db[n] : b.height = i - 1
    BY <1>1 DEF Full
  <2>2. f[i] \in BlocksAt(n, i - 1)
    BY <2>1 DEF BlocksAt
  <2>. QED  BY <2>2 DEF BlocksAt
<1>5. f \in [1 .. Height(n) -> db[n]]
  BY <1>4
<1> HIDE DEF f
<1>6. f \in Seq(db[n]) /\ Len(f) = Height(n)
  BY <1>1, <1>5
<1>7. Ascending(f)
  BY <1>1, <1>4, <1>6 DEF Ascending
<1>. QED  BY <1>3, <1>6, <1>7

------------------------------------------------------------------------------
(***************************************************************************)
(* What a step of one node leaves alone.                                   *)
(***************************************************************************)
OthersRest(n) ==
  \A m \in Nodes \ {n} :
    /\ db'[m] = db[m] /\ state'[m] = state[m] /\ applied'[m] = applied[m]
    /\ current'[m] = current[m] /\ active'[m] = active[m] /\ calls'[m] = calls[m]

LEMMA NodesStep ==
  ASSUME SInv, NEW n \in Nodes, OthersRest(n), AskedOK(n)', AppliedOK(n)'
  PROVE  NodesOK'
<1>1. ASSUME NEW m \in Nodes, m # n PROVE AskedOK(m)' /\ AppliedOK(m)'
  <2>1. AskedOK(m) /\ AppliedOK(m)
    BY DEF SInv, NodesOK
  <2>2. /\ db'[m] = db[m] /\ state'[m] = state[m] /\ applied'[m] = applied[m]
        /\ current'[m] = current[m] /\ active'[m] = active[m] /\ calls'[m] = calls[m]
    BY <1>1 DEF OthersRest
  <2>3. Height(m)' = Height(m)
    BY <2>2 DEF Height
  <2>4. AskedOK(m)'
    BY <2>1, <2>2, <2>3 DEF AskedOK
  <2>5. AppliedOK(m)'
    BY <2>1, <2>2, <2>3 DEF AppliedOK
  <2>. QED  BY <2>4, <2>5
<1>. QED  BY <1>1 DEF NodesOK

LEMMA SameBranch == ASSUME SInv, UNCHANGED published PROVE OneBranch'
BY DEF SInv, OneBranch, Blocks

LEMMA SameGaps == ASSUME SInv, UNCHANGED db PROVE NoGaps'
BY DEF SInv, NoGaps

LEMMA FewerMsgs ==
  ASSUME SInv, UNCHANGED published, msgs' \subseteq msgs PROVE MsgsOK'
BY DEF SInv, MsgsOK, Blocks

\* Requests carry neither blocks nor heights of peers.
LEMMA RequestsOnly ==
  ASSUME SInv, UNCHANGED published,
         \A m \in msgs' : m \in msgs \/ m.type \in {"RequestHeight", "RequestBlock"}
  PROVE  MsgsOK'
BY DEF SInv, MsgsOK, Blocks

LEMMA SameHeight == ASSUME NEW n, db'[n] = db[n] PROVE Height(n)' = Height(n)
BY DEF Height

LEMMA SameApplied ==
  ASSUME SInv, NEW n \in Nodes, UNCHANGED <<db, state, applied>> PROVE AppliedOK(n)'
<1>1. AppliedOK(n) /\ Height(n)' = Height(n)
  BY SameHeight DEF SInv, NodesOK
<1>. QED  BY <1>1 DEF AppliedOK

------------------------------------------------------------------------------
(***************************************************************************)
(* The steps that change neither the databases nor the published blocks.   *)
(***************************************************************************)
LEMMA EndSyncStep == ASSUME SInv, NEW n \in Nodes, EndSync(n) PROVE SInv'
<1> USE DEF EndSync
<1>1. Height(n) \in Int /\ Height(n) >= -1 /\ Height(n)' = Height(n)
  BY HeightIs, SameHeight
<1>2. TypeOK /\ AskedOK(n) /\ AppliedOK(n) /\ applied[n] = <<>>
  BY DEF SInv, NodesOK, AppliedOK
<1>3. OthersRest(n)
  BY <1>2 DEF OthersRest, TypeOK
<1>4. \A h \in calls[n] : h <= Height(n) /\ h \in Int
  <2>1. ~ (active[n] /\ current[n].height > Height(n))
    BY DEF Valid
  <2>2. current[n].height \in Int
    BY <1>2, SyncAssumption DEF TypeOK, Heights
  <2>3. calls[n] \subseteq Int
    BY <1>2, SyncAssumption DEF TypeOK
  <2>. QED  BY <1>1, <1>2, <2>1, <2>2, <2>3 DEF AskedOK
<1>5. AskedOK(n)'
  BY <1>1, <1>4 DEF AskedOK
<1>6. CASE Height(n) = -1
  <2>1. TypeOK'
    BY <1>2, <1>6 DEF TypeOK
  <2>2. AppliedOK(n)'
    BY <1>2, <1>6 DEF AppliedOK, TypeOK
  <2>. QED  BY <1>3, <1>5, <2>1, <2>2, NodesStep, SameBranch, SameGaps, FewerMsgs DEF SInv
<1>7. CASE Height(n) # -1
  <2>1. /\ state'[n] = "normal"
        /\ applied' = [applied EXCEPT ![n] = Replayed(n)]
    BY <1>2, <1>7, Replay DEF TypeOK
  <2>2. Replayed(n) \in Seq(db[n]) /\ Len(Replayed(n)) = Height(n) /\ Ascending(Replayed(n))
    BY <1>7, Replay
  <2>3. Replayed(n) \in Seq(published \cup {Genesis})
    BY <1>2, <2>2 DEF TypeOK
  <2>4. TypeOK'
    <3>1. applied' \in [Nodes -> Seq(published \cup {Genesis})]
      BY <1>2, <2>1, <2>3 DEF TypeOK
    <3>2. state' = [state EXCEPT ![n] = "normal"]
      BY <1>7
    <3>3. UNCHANGED <<db, syncers, current, active, waited, calls, msgs, published, starts>>
      OBVIOUS
    <3> HIDE DEF EndSync
    <3>. QED  BY <1>2, <3>1, <3>2, <3>3 DEF TypeOK
  <2>5. AppliedOK(n)'
    BY <1>1, <1>2, <2>1, <2>2 DEF AppliedOK, TypeOK
  <2>. QED  BY <1>3, <1>5, <2>4, <2>5, NodesStep, SameBranch, SameGaps, FewerMsgs DEF SInv
<1>. QED  BY <1>6, <1>7

LEMMA AskHeightStep == ASSUME SInv, NEW n \in Nodes, AskHeight(n) PROVE SInv'
<1> USE DEF AskHeight
<1>1. TypeOK /\ AskedOK(n) /\ Height(n)' = Height(n)
  BY SameHeight DEF SInv, NodesOK
<1>2. TypeOK'
  BY <1>1 DEF TypeOK
<1>3. AskedOK(n)'
  BY <1>1 DEF AskedOK
<1>4. OthersRest(n)
  BY DEF OthersRest
<1>5. MsgsOK'
  BY RequestsOnly
<1>. QED  BY <1>2, <1>3, <1>4, <1>5, NodesStep, SameApplied, SameBranch, SameGaps DEF SInv

LEMMA RestOfSeq ==
  ASSUME NEW T, NEW q \in Seq(T), NEW i \in DOMAIN q
  PROVE  q[i] \in T /\ SubSeq(q, i + 1, Len(q)) \in Seq(T)
<1>1. i \in 1 .. Len(q) /\ Len(q) \in Nat
  OBVIOUS
<1>2. \A j \in i + 1 .. Len(q) : q[j] \in T
  BY <1>1
<1>. QED  BY <1>1, <1>2, SubSeqProperties

LEMMA TakeSyncerStep == ASSUME SInv, NEW n \in Nodes, TakeSyncer(n) PROVE SInv'
<1> USE DEF TakeSyncer, Adopt
<1>1. Height(n) \in Int /\ Height(n) >= -1 /\ Height(n)' = Height(n)
  BY HeightIs, SameHeight
<1>2. TypeOK /\ AskedOK(n)
  BY DEF SInv, NodesOK
<1>3. PICK i \in DOMAIN syncers[n] :
        /\ syncers' = [syncers EXCEPT ![n] = SubSeq(@, i + 1, Len(@))]
        /\ Adopt(n, syncers[n][i])
  OBVIOUS
<1> DEFINE s == syncers[n][i]
<1>4. s \in [id : Nodes, height : Heights] /\ s.height \in Int /\ s.height <= MaxHeight
  <2>1. syncers[n] \in Seq([id : Nodes, height : Heights])
    BY <1>2 DEF TypeOK
  <2>2. s \in [id : Nodes, height : Heights]
    BY <2>1, RestOfSeq
  <2>. QED  BY <2>2, SyncAssumption DEF Heights
<1>5. syncers' \in [Nodes -> Seq([id : Nodes, height : Heights])]
  <2>1. syncers[n] \in Seq([id : Nodes, height : Heights])
    BY <1>2 DEF TypeOK
  <2>2. SubSeq(syncers[n], i + 1, Len(syncers[n])) \in Seq([id : Nodes, height : Heights])
    BY <2>1, RestOfSeq
  <2>. QED  BY <1>2, <1>3, <2>2 DEF TypeOK
<1>6. current' \in [Nodes -> [id : Nodes \cup {0}, height : Heights]] /\ current'[n] = s
  BY <1>2, <1>3, <1>4 DEF TypeOK
<1>7. \A h \in calls[n] : h <= Height(n) /\ h \in Int
  <2>1. ~ (active[n] /\ current[n].height > Height(n))
    BY DEF Valid
  <2>2. current[n].height \in Int
    BY <1>2, SyncAssumption DEF TypeOK, Heights
  <2>3. calls[n] \subseteq Int
    BY <1>2, SyncAssumption DEF TypeOK
  <2>. QED  BY <1>1, <1>2, <2>1, <2>2, <2>3 DEF AskedOK
<1>8. /\ calls' \in [Nodes -> SUBSET (0 .. MaxHeight)]
      /\ active' \in [Nodes -> BOOLEAN]
      /\ AskedOK(n)'
  <2>1. CASE s.height > Height(n)
    <3>1. /\ calls' = [calls EXCEPT ![n] = @ \cup {Height(n) + 1}]
          /\ active' = [active EXCEPT ![n] = TRUE]
      BY <1>3, <2>1 DEF RequestBlock
    <3>2. Height(n) + 1 \in 0 .. MaxHeight
      BY <1>1, <1>4, <2>1, SyncAssumption
    <3>3. calls'[n] = calls[n] \cup {Height(n) + 1} /\ active'[n] = TRUE
      BY <1>2, <3>1 DEF TypeOK
    <3>4. AskedOK(n)'
      BY <1>1, <1>4, <1>6, <1>7, <2>1, <3>3 DEF AskedOK
    <3>. QED  BY <1>2, <3>1, <3>2, <3>4, SMTT(20) DEF TypeOK
  <2>2. CASE ~ (s.height > Height(n))
    <3>1. UNCHANGED calls /\ active' = [active EXCEPT ![n] = FALSE]
      BY <1>3, <2>2
    <3>2. AskedOK(n)'
      BY <1>1, <1>7, <3>1 DEF AskedOK
    <3>. QED  BY <1>2, <3>1, <3>2 DEF TypeOK
  <2>. QED  BY <2>1, <2>2
<1>9. TypeOK'
  BY <1>2, <1>5, <1>6, <1>8 DEF TypeOK
<1>10. OthersRest(n)
  BY <1>2, ZenonT(40) DEF OthersRest, RequestBlock, TypeOK
<1>11. MsgsOK'
  BY RequestsOnly DEF RequestBlock, BlockRequest
<1>. QED  BY <1>8, <1>9, <1>10, <1>11, NodesStep, SameApplied, SameBranch, SameGaps DEF SInv

LEMMA WaitsStep == ASSUME SInv, NEW n \in Nodes, Waits(n) PROVE SInv'
<1>1. TypeOK /\ AskedOK(n)
  BY DEF SInv, NodesOK
<1>2. UNCHANGED <<db, state, applied, syncers, current, msgs, published, starts>>
  BY DEF Waits, WaitOver, CallExpires, SyncerExpires
<1>3. Height(n)' = Height(n)
  BY <1>2, SameHeight
<1>4. TypeOK' /\ OthersRest(n) /\ AskedOK(n)'
  <2>1. CASE WaitOver(n)
    <3>1. UNCHANGED <<active, calls>> /\ waited' = [waited EXCEPT ![n] = TRUE]
      BY <2>1 DEF WaitOver
    <3>. QED  BY <1>1, <1>2, <1>3, <3>1 DEF TypeOK, OthersRest, AskedOK
  <2>2. CASE CallExpires(n)
    <3>1. PICK h \in calls[n] : calls' = [calls EXCEPT ![n] = @ \ {h}]
      BY <2>2 DEF CallExpires
    <3>2. UNCHANGED <<active, waited>>
      BY <2>2 DEF CallExpires
    <3>3. calls'[n] \subseteq calls[n]
      BY <1>1, <3>1 DEF TypeOK
    <3>4. AskedOK(n)'
      BY <1>1, <1>2, <1>3, <3>2, <3>3 DEF AskedOK
    <3>. QED  BY <1>1, <1>2, <3>1, <3>2, <3>4 DEF TypeOK, OthersRest
  <2>3. CASE SyncerExpires(n)
    <3>1. /\ calls[n] = {} /\ UNCHANGED <<calls, waited>>
          /\ active' = [active EXCEPT ![n] = FALSE]
      BY <2>3 DEF SyncerExpires
    <3>2. AskedOK(n)'
      BY <3>1 DEF AskedOK
    <3>. QED  BY <1>1, <1>2, <3>1, <3>2 DEF TypeOK, OthersRest
  <2>. QED  BY <2>1, <2>2, <2>3 DEF Waits
<1>. QED  BY <1>2, <1>4, NodesStep, SameApplied, SameBranch, SameGaps, FewerMsgs DEF SInv

LEMMA SameMemory ==
  ASSUME SInv, UNCHANGED <<db, memory, published>> PROVE NodesOK'
<1>1. \A n \in Nodes : Height(n)' = Height(n)
  BY SameHeight
<1>. QED  BY <1>1 DEF SInv, NodesOK, AskedOK, AppliedOK, memory

LEMMA AnswerStep ==
  ASSUME SInv, NEW n \in Nodes, OnRequestHeight(n) \/ OnRequestBlock(n) PROVE SInv'
<1>1. UNCHANGED <<db, memory, published, starts>>
  BY DEF OnRequestHeight, OnRequestBlock
<1>2. TypeOK'
  BY <1>1 DEF SInv, TypeOK, memory
<1>3. MsgsOK'
  <2>1. CASE OnRequestHeight(n)
    <3>1. PICK m : msgs' = (msgs \ {m}) \cup
                     {[type |-> "ResponseHeight", from |-> n, to |-> m.from, height |-> Height(n)]}
      BY <2>1 DEF OnRequestHeight
    <3>. QED  BY <1>1, <3>1, HeightIs DEF SInv, MsgsOK, Blocks
  <2>2. CASE OnRequestBlock(n)
    <3>1. PICK m \in msgs, b \in db[n] : msgs' = (msgs \ {m}) \cup
                     {[type |-> "ResponseBlock", from |-> n, to |-> m.from, block |-> b]}
      BY <2>2 DEF OnRequestBlock, Receive
    <3>2. b \in Blocks
      BY DEF SInv, TypeOK, Blocks
    <3> DEFINE a == [type |-> "ResponseBlock", from |-> n, to |-> m.from, block |-> b]
    <3>3. a.type = "ResponseBlock" /\ a.block \in Blocks
      BY <3>2
    <3>4. msgs' \subseteq msgs \cup {a}
      BY <3>1
    <3> HIDE DEF a
    <3>. QED  BY <1>1, <3>3, <3>4 DEF SInv, MsgsOK, Blocks
  <2>. QED  BY <2>1, <2>2
<1>. QED  BY <1>1, <1>2, <1>3, SameMemory, SameBranch, SameGaps DEF SInv

LEMMA OnResponseHeightStep ==
  ASSUME SInv, NEW n \in Nodes, OnResponseHeight(n) PROVE SInv'
<1>1. UNCHANGED <<db, state, applied, current, active, waited, calls, published, starts>>
  BY DEF OnResponseHeight
<1>2. PICK m \in msgs :
        /\ m.type = "ResponseHeight" /\ msgs' = msgs \ {m}
        /\ syncers' = [syncers EXCEPT ![n] = Append(@, [id |-> m.from, height |-> m.height])]
  BY DEF OnResponseHeight, Receive
<1>3. [id |-> m.from, height |-> m.height] \in [id : Nodes, height : Heights]
  BY <1>2 DEF SInv, MsgsOK
<1>4. TypeOK /\ AskedOK(n) /\ Height(n)' = Height(n)
  BY <1>1, SameHeight DEF SInv, NodesOK
<1>5. syncers' \in [Nodes -> Seq([id : Nodes, height : Heights])]
  <2>1. syncers[n] \in Seq([id : Nodes, height : Heights])
    BY <1>4 DEF TypeOK
  <2>2. Append(syncers[n], [id |-> m.from, height |-> m.height])
          \in Seq([id : Nodes, height : Heights])
    BY <1>3, <2>1, AppendProperties
  <2>. QED  BY <1>2, <1>4, <2>2 DEF TypeOK
<1>6. TypeOK'
  BY <1>1, <1>4, <1>5 DEF TypeOK
<1>7. OthersRest(n) /\ AskedOK(n)'
  BY <1>1, <1>4 DEF OthersRest, AskedOK
<1>. QED  BY <1>1, <1>2, <1>6, <1>7, NodesStep, SameApplied, SameBranch, SameGaps, FewerMsgs DEF SInv

LEMMA RestartStep == ASSUME SInv, NEW n \in Nodes, Restart(n) PROVE SInv'
<1>1. /\ starts < MaxStarts /\ starts' = starts + 1
      /\ state' = [state EXCEPT ![n] = "sync"]
      /\ applied' = [applied EXCEPT ![n] = <<>>]
      /\ syncers' = [syncers EXCEPT ![n] = <<>>]
      /\ current' = [current EXCEPT ![n] = NoSyncer]
      /\ active' = [active EXCEPT ![n] = FALSE]
      /\ waited' = [waited EXCEPT ![n] = FALSE]
      /\ calls' = [calls EXCEPT ![n] = {}]
      /\ UNCHANGED <<db, msgs, published>>
  BY DEF Restart
<1>2. TypeOK
  BY DEF SInv
<1>3. NoSyncer \in [id : Nodes \cup {0}, height : Heights] /\ starts + 1 \in 0 .. MaxStarts
  BY <1>1, <1>2, SyncAssumption DEF NoSyncer, Heights, TypeOK
<1>4. /\ state' \in [Nodes -> {"sync", "first", "normal"}]
      /\ applied' \in [Nodes -> Seq(published \cup {Genesis})]
      /\ syncers' \in [Nodes -> Seq([id : Nodes, height : Heights])]
  <2>1. <<>> \in Seq(published \cup {Genesis}) /\ <<>> \in Seq([id : Nodes, height : Heights])
    OBVIOUS
  <2>. QED  BY <1>1, <1>2, <2>1 DEF TypeOK
<1>5. /\ current' \in [Nodes -> [id : Nodes \cup {0}, height : Heights]]
      /\ active' \in [Nodes -> BOOLEAN] /\ waited' \in [Nodes -> BOOLEAN]
  BY <1>1, <1>2, <1>3 DEF TypeOK
<1>6. calls' \in [Nodes -> SUBSET (0 .. MaxHeight)]
  BY <1>1, <1>2 DEF TypeOK
<1>7. TypeOK'
  BY <1>1, <1>2, <1>3, <1>4, <1>5, <1>6 DEF TypeOK
<1>8. OthersRest(n)
  BY <1>1, <1>2 DEF OthersRest, TypeOK
<1>9. state'[n] = "sync" /\ applied'[n] = <<>> /\ calls'[n] = {}
  BY <1>1, <1>2 DEF TypeOK
<1>10. AskedOK(n)' /\ AppliedOK(n)'
  BY <1>9 DEF AskedOK, AppliedOK, Ascending
<1>. QED  BY <1>1, <1>7, <1>8, <1>10, NodesStep, SameBranch, SameGaps, FewerMsgs DEF SInv

------------------------------------------------------------------------------
(***************************************************************************)
(* The steps that store a block.                                           *)
(***************************************************************************)
LEMMA NextStored ==
  ASSUME SInv, NEW n \in Nodes, NEW b \in Blocks, b.height = Height(n) + 1,
         UNCHANGED published, db' = [db EXCEPT ![n] = Stored(n, b)]
  PROVE  /\ db' \in [Nodes -> SUBSET (published \cup {Genesis})]
         /\ db'[n] = db[n] \cup {b}
         /\ \A m \in Nodes \ {n} : db'[m] = db[m]
         /\ NoGaps'
         /\ Height(n)' = Height(n) + 1
         /\ Height(n) + 1 \in Heights
<1>1. TypeOK /\ OneBranch
  BY DEF SInv
<1>2. /\ db' \in [Nodes -> SUBSET (published \cup {Genesis})]
      /\ db'[n] = db[n] \cup {b}
      /\ \A m \in Nodes \ {n} : db'[m] = db[m]
  BY <1>1, StoredNext DEF TypeOK, Blocks
<1>3. Full(db[n], Height(n)) /\ Height(n) \in Int /\ Height(n) >= -1
  BY HeightIs
<1>4. Height(n) + 1 \in Heights
  BY <1>1, <1>3, SyncAssumption DEF OneBranch, Heights
<1>5. Full(db'[n], Height(n) + 1)
  BY <1>2, <1>3, FullNext
<1>6. NoGaps'
  BY <1>2, <1>4, <1>5 DEF SInv, NoGaps, Heights
<1>7. Height(n)' = Height(n) + 1
  BY <1>3, <1>5, HeightOfFull DEF Height
<1>. QED  BY <1>2, <1>4, <1>6, <1>7

LEMMA OnResponseBlockStep ==
  ASSUME SInv, NEW n \in Nodes, OnResponseBlock(n) PROVE SInv'
<1>1. UNCHANGED <<state, applied, syncers, current, waited, published, starts>>
  BY DEF OnResponseBlock
<1>2. TypeOK /\ AskedOK(n) /\ AppliedOK(n) /\ Height(n) \in Int
  BY HeightIs DEF SInv, NodesOK
<1>3. calls[n] \subseteq Int /\ current[n].height \in Int /\ current[n].height <= MaxHeight
  BY <1>2, SyncAssumption DEF TypeOK, Heights
<1>4. PICK m \in msgs :
        /\ m.type = "ResponseBlock" /\ m.block.height \in calls[n]
        /\ IF m.block.height # Height(n) + 1
           THEN /\ calls' = [calls EXCEPT ![n] = @ \ {m.block.height}]
                /\ msgs' = msgs \ {m}
                /\ UNCHANGED <<db, active>>
           ELSE /\ db' = [db EXCEPT ![n] = Stored(n, m.block)]
                /\ IF MoreToFetch(n, m.block.height)
                   THEN /\ calls' = [calls EXCEPT ![n] = (@ \ {m.block.height}) \cup {m.block.height + 1}]
                        /\ msgs' = (msgs \ {m}) \cup {BlockRequest(n, current[n].id, m.block.height + 1)}
                        /\ active' = [active EXCEPT ![n] = TRUE]
                   ELSE /\ calls' = [calls EXCEPT ![n] = @ \ {m.block.height}]
                        /\ msgs' = msgs \ {m}
                        /\ UNCHANGED active
  BY DEF OnResponseBlock, Receive
<1> DEFINE h == m.block.height
<1>5. m.block \in Blocks /\ h \in Int
  BY <1>3, <1>4 DEF SInv, MsgsOK
<1>6. MsgsOK'
  BY <1>1, <1>4, RequestsOnly DEF BlockRequest
<1>7. CASE h # Height(n) + 1
  <2>1. /\ calls' = [calls EXCEPT ![n] = @ \ {h}]
        /\ msgs' = msgs \ {m} /\ UNCHANGED <<db, active>>
    BY <1>4, <1>7
  <2>2. TypeOK' /\ OthersRest(n)
    BY <1>1, <1>2, <2>1 DEF TypeOK, OthersRest
  <2>3. calls'[n] \subseteq calls[n] /\ Height(n)' = Height(n)
    BY <1>2, <2>1, SameHeight DEF TypeOK
  <2>4. AskedOK(n)'
    BY <1>1, <1>2, <2>1, <2>3 DEF AskedOK
  <2>. QED  BY <1>1, <1>6, <2>1, <2>2, <2>4, NodesStep, SameApplied, SameBranch, SameGaps DEF SInv
<1>8. CASE h = Height(n) + 1
  <2>1. db' = [db EXCEPT ![n] = Stored(n, m.block)]
    BY <1>4, <1>8
  <2>2. /\ db' \in [Nodes -> SUBSET (published \cup {Genesis})]
        /\ \A p \in Nodes \ {n} : db'[p] = db[p]
        /\ NoGaps' /\ Height(n)' = Height(n) + 1
    BY <1>1, <1>5, <1>8, <2>1, NextStored
  <2>3. state[n] = "sync" /\ active[n] /\ h <= current[n].height
    BY <1>2, <1>4, <1>8 DEF AskedOK
  <2>4. AppliedOK(n)'
    BY <1>1, <1>2, <2>3 DEF AppliedOK, Ascending
  <2>5. \A g \in calls[n] \ {h} : g <= Height(n)
    BY <1>2, <1>3, <1>8 DEF AskedOK
  <2>6. /\ calls' \in [Nodes -> SUBSET (0 .. MaxHeight)]
        /\ active' \in [Nodes -> BOOLEAN]
        /\ AskedOK(n)'
        /\ \A p \in Nodes \ {n} : calls'[p] = calls[p] /\ active'[p] = active[p]
    <3>1. CASE MoreToFetch(n, h)
      <4>1. /\ calls' = [calls EXCEPT ![n] = (@ \ {h}) \cup {h + 1}]
            /\ active' = [active EXCEPT ![n] = TRUE]
        BY <1>4, <1>8, <3>1
      <4>2. h < current[n].height
        BY <3>1 DEF MoreToFetch
      <4>3. h + 1 \in 0 .. MaxHeight
        BY <1>2, <1>3, <1>4, <1>5, <4>2, SyncAssumption, SMTT(20) DEF TypeOK
      <4>4. calls'[n] = (calls[n] \ {h}) \cup {h + 1} /\ active'[n] = TRUE
        BY <1>2, <4>1 DEF TypeOK
      <4>5. AskedOK(n)'
        BY <1>1, <1>2, <1>3, <1>5, <1>8, <2>2, <2>3, <2>5, <4>2, <4>4 DEF AskedOK
      <4>. QED  BY <1>2, <4>1, <4>3, <4>5 DEF TypeOK
    <3>2. CASE ~ MoreToFetch(n, h)
      <4>1. calls' = [calls EXCEPT ![n] = @ \ {h}] /\ UNCHANGED active
        BY <1>4, <1>8, <3>2
      <4>2. calls'[n] = calls[n] \ {h}
        BY <1>2, <4>1 DEF TypeOK
      <4>3. AskedOK(n)'
        BY <1>2, <1>3, <2>2, <2>5, <4>2 DEF AskedOK
      <4>. QED  BY <1>2, <4>1, <4>3 DEF TypeOK
    <3>. QED  BY <3>1, <3>2
  <2>7. TypeOK' /\ OthersRest(n)
    BY <1>1, <1>2, <2>2, <2>6 DEF TypeOK, OthersRest
  <2>. QED  BY <1>1, <1>6, <2>2, <2>4, <2>6, <2>7, NodesStep, SameBranch DEF SInv
<1>. QED  BY <1>7, <1>8

LEMMA AppendOK ==
  ASSUME NEW T, NEW s \in Seq(T), NEW b \in T, Ascending(s),
         NEW top \in Int, \A i \in DOMAIN s : s[i].height \in Int /\ s[i].height <= top,
         b.height = top + 1
  PROVE  /\ Append(s, b) \in Seq(T)
         /\ Len(Append(s, b)) = Len(s) + 1
         /\ Ascending(Append(s, b))
<1> DEFINE t == Append(s, b)
<1>1. /\ t \in Seq(T) /\ Len(t) = Len(s) + 1 /\ Len(s) \in Nat
      /\ \A i \in 1 .. Len(s) : t[i] = s[i]
      /\ t[Len(s) + 1] = b
  BY AppendProperties
<1> HIDE DEF t
<1>2. ASSUME NEW i \in 2 .. Len(t) PROVE t[i - 1].height < t[i].height
  <2>1. CASE i \in 2 .. Len(s)
    BY <1>1, <2>1, SMTT(20) DEF Ascending
  <2>2. CASE i = Len(s) + 1
    <3>1. i - 1 \in DOMAIN s /\ t[i - 1] = s[i - 1]
      BY <1>1, <2>2
    <3>. QED  BY <1>1, <2>2, <3>1
  <2>. QED  BY <1>1, <2>1, <2>2
<1>. QED  BY <1>1, <1>2 DEF Ascending, t

LEMMA OnPublishBlockStep ==
  ASSUME SInv, NEW n \in Nodes, OnPublishBlock(n) PROVE SInv'
<1>1. UNCHANGED <<state, syncers, current, active, waited, calls, published, starts>>
  BY DEF OnPublishBlock
<1>2. TypeOK /\ OneBranch /\ AskedOK(n) /\ AppliedOK(n)
  BY DEF SInv, NodesOK
<1>3. Height(n) \in Int /\ Height(n) >= -1 /\ Full(db[n], Height(n))
  BY HeightIs
<1>4. PICK m \in msgs :
        /\ m.type = "PublishBlock" /\ m.block.height = Height(n) + 1
        /\ applied' = [applied EXCEPT ![n] = Append(@, m.block)]
        /\ db' = [db EXCEPT ![n] = Stored(n, m.block)]
        /\ msgs' = msgs \ {m}
  BY DEF OnPublishBlock, Receive, Fits
<1>5. m.block \in Blocks
  BY <1>4 DEF SInv, MsgsOK
<1>6. /\ db' \in [Nodes -> SUBSET (published \cup {Genesis})]
      /\ db'[n] = db[n] \cup {m.block}
      /\ \A p \in Nodes \ {n} : db'[p] = db[p]
      /\ NoGaps' /\ Height(n)' = Height(n) + 1
  BY <1>1, <1>4, <1>5, NextStored
\* A node that knows the commissioners has finished its synchronisation.
<1>7. state[n] = "normal"
  <2>1. KnowsCommittee(n)
    BY DEF OnPublishBlock
  <2>2. applied[n] # <<>>
    BY <2>1 DEF KnowsCommittee
  <2>. QED  BY <1>2, <2>2 DEF AppliedOK
<1>8. applied[n] \in Seq(Blocks)
  BY <1>2 DEF TypeOK, Blocks
<1>9. \A i \in DOMAIN applied[n] : applied[n][i].height \in Int /\ applied[n][i].height <= Height(n)
  BY <1>2, <1>3 DEF AppliedOK, Full
<1>10. /\ Append(applied[n], m.block) \in Seq(Blocks)
       /\ Len(Append(applied[n], m.block)) = Len(applied[n]) + 1
       /\ Ascending(Append(applied[n], m.block))
  BY <1>2, <1>3, <1>4, <1>5, <1>8, <1>9, AppendOK DEF AppliedOK
<1>11. applied' \in [Nodes -> Seq(Blocks)] /\ applied'[n] = Append(applied[n], m.block)
  BY <1>2, <1>4, <1>10 DEF TypeOK, Blocks
<1>12. AppliedOK(n)'
  <2>1. \A i \in DOMAIN applied'[n] : applied'[n][i] \in db'[n]
    BY <1>2, <1>6, <1>8, <1>11 DEF AppliedOK
  <2>2. Height(n)' <= Len(applied'[n]) /\ Ascending(applied'[n])
    BY <1>2, <1>3, <1>6, <1>7, <1>8, <1>10, <1>11 DEF AppliedOK
  <2>. QED  BY <1>1, <1>7, <2>1, <2>2 DEF AppliedOK
<1>13. AskedOK(n)'
  <2>1. \A h \in calls[n] : h \in Int /\ h <= Height(n)
    BY <1>2, <1>3, <1>7, SyncAssumption DEF AskedOK, TypeOK
  <2>. QED  BY <1>1, <1>3, <1>6, <2>1 DEF AskedOK
<1>14. TypeOK'
  BY <1>1, <1>2, <1>6, <1>11 DEF TypeOK, Blocks
<1>15. OthersRest(n)
  BY <1>1, <1>2, <1>4, <1>6 DEF OthersRest, TypeOK
<1>. QED  BY <1>1, <1>4, <1>6, <1>12, <1>13, <1>14, <1>15, NodesStep, SameBranch, FewerMsgs DEF SInv

------------------------------------------------------------------------------
(***************************************************************************)
(* Publication, and the theorems.                                          *)
(***************************************************************************)
LEMMA PublishStep == ASSUME SInv, NEW n \in Nodes, Publish(n) PROVE SInv'
<1> DEFINE b == NextBlock(n)
<1>1. /\ UNCHANGED <<db, memory, starts>>
      /\ published' = published \cup {b}
      /\ msgs' = msgs \cup {[type |-> "PublishBlock", to |-> p, block |-> b] : p \in Nodes}
      /\ Height(n) < MaxHeight
      /\ \A c \in published : c.height # Height(n) + 1
  BY DEF Publish
<1>2. TypeOK /\ OneBranch /\ AppliedOK(n)
  BY DEF SInv, NodesOK
<1>3. Height(n) >= 0 /\ Height(n) \in Int
  <2>1. Genesis \in db[n] /\ Genesis.height = 0
    BY <1>2 DEF Publish, KnowsCommittee, AppliedOK, Genesis
  <2>. QED  BY <2>1, HeightIs DEF Full
<1>4. Top(n) \in Blocks /\ Top(n).height = Height(n)
  BY <1>2, <1>3, TopIs DEF TypeOK, Blocks
<1>5. b.height = Height(n) + 1 /\ b.prev = Top(n)
  BY DEF NextBlock
<1> HIDE DEF b
<1>6. Blocks' = Blocks \cup {b}
  BY <1>1 DEF Blocks
<1>7. \A c \in Blocks : c.height # b.height /\ c.height \in Int
  <2>1. Genesis.height = 0
    BY DEF Genesis
  <2>. QED  BY <1>1, <1>2, <1>3, <1>5, <2>1 DEF Blocks, OneBranch
<1>8. OneBranch'
  <2>1. b.height \in 0 .. MaxHeight /\ b.prev \in Blocks /\ b.prev.height = b.height - 1
    BY <1>1, <1>3, <1>4, <1>5, SyncAssumption
  <2>2. \A c \in Blocks' : c.height \in 0 .. MaxHeight
    BY <1>2, <1>6, <2>1 DEF OneBranch
  <2>3. \A c, d \in Blocks' : d.height = c.height => d = c
    BY <1>2, <1>6, <1>7 DEF OneBranch
  <2>4. \A c \in Blocks' : c.height > 0 => c.prev \in Blocks' /\ c.prev.height = c.height - 1
    BY <1>2, <1>6, <2>1 DEF OneBranch
  <2>. QED  BY <2>2, <2>3, <2>4 DEF OneBranch
<1>9. MsgsOK'
  <2>1. ASSUME NEW m \in msgs', m \notin msgs PROVE m.type = "PublishBlock" /\ m.block = b
    BY <1>1, <2>1
  <2>. QED  BY <1>6, <2>1 DEF SInv, MsgsOK
<1>10. TypeOK'
  <2>1. /\ db' \in [Nodes -> SUBSET (published' \cup {Genesis})]
        /\ applied' \in [Nodes -> Seq(published' \cup {Genesis})]
    BY <1>1, <1>2 DEF TypeOK, memory
  <2>. QED  BY <1>1, <1>2, <2>1 DEF TypeOK, memory
<1>11. NodesOK'
  <2>1. \A p \in Nodes : Height(p)' = Height(p)
    BY <1>1, SameHeight
  <2>. QED  BY <1>1, <2>1 DEF SInv, NodesOK, AskedOK, AppliedOK, memory
<1>. QED  BY <1>1, <1>8, <1>9, <1>10, <1>11, SameGaps DEF SInv

LEMMA SyncInit == Init => SInv
<1> SUFFICES ASSUME NEW joiners \in SUBSET MayStart,
                    Cardinality(joiners) <= MaxStarts, InitWith(joiners)
             PROVE  SInv
  BY DEF Init
<1> USE DEF InitWith
<1>1. Blocks = {Genesis} /\ Genesis.height = 0
  BY DEF Blocks, Genesis
<1>2. Cardinality(joiners) \in 0 .. MaxStarts
  <2>1. IsFiniteSet(joiners)
    BY SyncAssumption, FS_Subset
  <2>. QED  BY <2>1, FS_CardinalityType, SyncAssumption
<1>3. NoSyncer \in [id : Nodes \cup {0}, height : Heights]
  BY SyncAssumption DEF NoSyncer, Heights
<1>4. TypeOK
  <2>1. <<>> \in Seq([id : Nodes, height : Heights])
    OBVIOUS
  <2>2. <<>> \in Seq({Genesis}) /\ <<Genesis>> \in Seq({Genesis})
    OBVIOUS
  <2>. QED  BY <1>2, <1>3, <2>1, <2>2 DEF TypeOK
<1>5. OneBranch
  BY <1>1, SyncAssumption DEF OneBranch
<1>6. ASSUME NEW n \in Nodes
      PROVE  IF n \in joiners THEN Full(db[n], -1) ELSE Full(db[n], 0)
  BY <1>1 DEF Full
<1>7. NoGaps
  <2>1. -1 \in Heights /\ 0 \in Heights
    BY SyncAssumption DEF Heights
  <2>. QED  BY <1>6, <2>1 DEF NoGaps
<1>8. MsgsOK
  BY DEF MsgsOK
<1>9. ASSUME NEW n \in Nodes PROVE AskedOK(n) /\ AppliedOK(n)
  <2>1. CASE n \in joiners
    BY <2>1 DEF AskedOK, AppliedOK, Ascending
  <2>2. CASE n \notin joiners
    <3>1. Full(db[n], 0)
      BY <1>6, <2>2
    <3>2. Height(n) = 0
      BY <3>1, HeightOfFull DEF Height
    <3>. QED  BY <2>2, <3>2 DEF AskedOK, AppliedOK, Ascending
  <2>. QED  BY <2>1, <2>2
<1>. QED  BY <1>4, <1>5, <1>7, <1>8, <1>9 DEF SInv, NodesOK

LEMMA SyncNext == SInv /\ [Next]_vars => SInv'
<1>1. ASSUME SInv, UNCHANGED vars PROVE SInv'
  <2>1. UNCHANGED <<db, memory, msgs, published, starts>>
    BY <1>1 DEF vars
  <2>2. TypeOK'
    BY <1>1, <2>1 DEF SInv, TypeOK, memory
  <2>. QED  BY <1>1, <2>1, <2>2, SameMemory, SameBranch, SameGaps, FewerMsgs DEF SInv
<1>2. ASSUME SInv, NEW n \in Nodes, Synchronise(n) PROVE SInv'
  BY <1>2, EndSyncStep, AskHeightStep, TakeSyncerStep DEF Synchronise
<1>3. ASSUME SInv, NEW n \in Nodes, Handle(n) PROVE SInv'
  BY <1>3, AnswerStep, OnResponseHeightStep, OnResponseBlockStep, OnPublishBlockStep DEF Handle
<1>. QED  BY <1>1, <1>2, <1>3, WaitsStep, PublishStep, RestartStep DEF Next

\* The inductive invariant: a peer's answer, a call and a syncer within its
\* wait always belong together, so that no block is stored when nobody
\* synchronises.
THEOREM SyncInvariant == Spec => []SInv
BY SyncInit, SyncNext, PTL DEF Spec

\* The state stays well-formed: only published blocks are stored or applied,
\* and no block is asked for that was never published.
THEOREM SyncTypes == Spec => []TypeOK
<1>1. SInv => TypeOK
  BY DEF SInv
<1>. QED  BY <1>1, SyncInvariant, PTL

\* Every database is a chain, although handleResponseBlock stores what it
\* is sent without looking at the predecessor.
THEOREM ChainStored == Spec => []StoredChain
<1>1. SInv => StoredChain
  <2> SUFFICES ASSUME SInv, NEW n \in Nodes, NEW b \in db[n]
               PROVE  /\ BlocksAt(n, b.height) = {b}
                      /\ b.height > 0 => b.prev \in db[n]
    BY DEF StoredChain
  <2>1. OneBranch /\ db[n] \subseteq Blocks /\ Full(db[n], Height(n)) /\ Height(n) \in Int
    BY HeightIs DEF SInv, TypeOK, Blocks
  <2>2. BlocksAt(n, b.height) = {b}
    BY <2>1 DEF OneBranch, BlocksAt
  <2>3. ASSUME b.height > 0 PROVE b.prev \in db[n]
    <3>1. b.prev \in Blocks /\ b.prev.height = b.height - 1 /\ b.height \in 0 .. Height(n)
      BY <2>1, <2>3 DEF OneBranch, Full
    <3>2. b.height - 1 \in 0 .. Height(n)
      BY <2>1, <2>3, <3>1
    <3>3. PICK c \in db[n] : c.height = b.height - 1
      BY <2>1, <3>2 DEF Full
    <3>4. c = b.prev
      BY <2>1, <3>1, <3>3 DEF OneBranch
    <3>. QED  BY <3>3, <3>4
  <2>. QED  BY <2>2, <2>3
<1>. QED  BY <1>1, SyncInvariant, PTL

\* A database holds one block more than its last height says.
LEMMA BlocksStored ==
  ASSUME SInv, NEW n \in Nodes PROVE Cardinality(db[n]) = Height(n) + 1
<1> DEFINE k == Height(n)
<1>1. OneBranch /\ db[n] \subseteq Blocks /\ Full(db[n], k) /\ k \in Int /\ k >= -1
  BY HeightIs DEF SInv, TypeOK, Blocks
<1> HIDE DEF k
<1> DEFINE f == [i \in 0 .. k |-> CHOOSE b \in db[n] : b.height = i]
<1>2. \A i \in 0 .. k : f[i] \in db[n] /\ f[i].height = i
  BY <1>1 DEF Full
<1>3. \A b \in db[n] : b.height \in 0 .. k /\ f[b.height] = b
  BY <1>1, <1>2 DEF Full, OneBranch
<1>4. f \in Bijection(0 .. k, db[n])
  <2>1. f \in [0 .. k -> db[n]]
    BY <1>2
  <2>2. \A i, j \in 0 .. k : f[i] = f[j] => i = j
    BY <1>2
  <2>3. \A b \in db[n] : \E i \in 0 .. k : f[i] = b
    BY <1>3
  <2> HIDE DEF f
  <2>. QED  BY <2>1, <2>2, <2>3 DEF Bijection, Injection, Surjection, IsInjective
<1>5. ExistsBijection(0 .. k, db[n])
  BY <1>4 DEF ExistsBijection
<1>6. Cardinality(db[n]) = Cardinality(0 .. k)
  BY <1>1, <1>5, FS_Interval, FS_Bijection
<1>. QED  BY <1>1, <1>6, FS_Interval DEF k

\* A node that takes part again has applied the blocks of its database in
\* their order, all of them but at most one: the loop of the replay leaves
\* out one, and no fetched block arrives behind its back.
THEOREM FewUnapplied == Spec => []AtMostOneUnapplied
<1>1. SInv => AtMostOneUnapplied
  <2> SUFFICES ASSUME SInv, NEW n \in Nodes, state[n] = "normal"
               PROVE  /\ \A i \in DOMAIN applied[n] : applied[n][i] \in db[n]
                      /\ \A i \in 2 .. Len(applied[n]) :
                           applied[n][i - 1].height < applied[n][i].height
                      /\ Cardinality(db[n]) <= Len(applied[n]) + 1
    BY DEF AtMostOneUnapplied
  <2>1. AppliedOK(n) /\ applied[n] \in Seq(published \cup {Genesis})
    BY DEF SInv, NodesOK, TypeOK
  <2>2. Height(n) \in Int /\ Height(n) <= Len(applied[n])
    BY <2>1, HeightIs DEF AppliedOK
  <2>. QED  BY <2>1, <2>2, BlocksStored DEF AppliedOK, Ascending
<1>. QED  BY <1>1, SyncInvariant, PTL
==============================================================================
