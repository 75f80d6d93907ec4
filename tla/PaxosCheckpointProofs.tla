------------------------ MODULE PaxosCheckpointProofs ------------------------
(***************************************************************************)
(* What PaxosCheckpointSafety states holds of PaxosCheckpoint for every     *)
(* group, hold count, save interval and number of blocks, and any number of *)
(* instances, transfers and crashes.  CInv is inductive: CInit shows that it *)
(* holds at first, one lemma per action that it stays (CStep), and the      *)
(* theorems at the end follow from it.                                      *)
(***************************************************************************)
EXTENDS PaxosCheckpointSafety, FiniteSetTheorems, WellFoundedInduction, TLAPS

-----------------------------------------------------------------------------
(* Types, as sets of records.                                               *)

Blocks == SUBSET (Instances \X (1 .. Files))

Disks ==
    [log : SUBSET Instances, promise : SUBSET Instances, min : 0 .. TooLarge,
     cp : Instances, parts : Blocks, tmp : Blocks]

Receivers == [from : Node \cup {NoNode}, uuid : Nat, seq : 0 .. Files]

Processes ==
    [up : BOOLEAN, now : Instances, min : 0 .. TooLarge, lastSave : Instances,
     todo : SUBSET Instances, asking : BOOLEAN, rcv : Receivers,
     pull : {"none", "further", "overrun", "stale"}]

Senders == [to : Node \cup {NoNode}, uuid : Nat, seq : 0 .. Files + 1]

AskMessages == [type : {"ask"}, from : Node, to : Node]

FileMessages ==
    [type : {"file"}, flag : {"begin", "ing", "end"}, from : Node, to : Node,
     uuid : Nat \ {0}, seq : 0 .. Files + 1, cp : Instances, file : 0 .. Files]

Asks  == {c \in msgs : c.type = "ask"}
Parts == {c \in msgs : c.type = "file"}

StateOK ==
    /\ disk \in [Node -> Disks]
    /\ mem \in [Node -> Processes]
    /\ sender \in [Node -> Senders]
    /\ msgs \subseteq AskMessages \cup FileMessages /\ IsFiniteSet(msgs)
    /\ top \in Instances
    /\ voted \subseteq Node /\ tainted \subseteq Node /\ hasty \subseteq Node
    /\ sessions \in Nat /\ sessions + Cardinality(Asks) <= MaxSessions
    /\ faults \in 0 .. MaxFaults

\* A node has no record and no checkpoint beyond the instance it is in.
Within(d, i) == Records(d) \subseteq 0 .. i /\ d.cp <= i

\* A pass of the cleaner was read below what is held back, and stays there.
PassOK(d, p) == \A i \in p.todo : i + HoldCount < d.cp /\ i + HoldCount < p.now

PositionOK(n) == /\ Within(disk[n], mem[n].now) /\ mem[n].now <= top
                 /\ PassOK(disk[n], mem[n])

(* Sessions: a uuid is used by one sender, for one checkpoint, and the       *)
(* receiver has the blocks before the one it waits for.                      *)

MessageOK(c) ==
    /\ c.uuid <= sessions /\ c.cp <= top
    /\ c.flag = "begin" => c.seq = 0
    /\ c.flag = "ing" => c.seq = c.file /\ c.seq \in 1 .. FileCount(c.cp)
    /\ c.flag = "end" => c.seq = FileCount(c.cp) + 1

FirstBlocks(cp, k) == {<<cp, f>> : f \in 1 .. k}

SessionsOK ==
    /\ \A c \in Parts : MessageOK(c)
    /\ \A c, d \in Parts : c.uuid = d.uuid => c.cp = d.cp
    /\ \A x \in Node :
         /\ sender[x] # NoSender =>
              /\ sender[x].uuid \in 1 .. sessions /\ sender[x].to \in Node
              /\ sender[x].seq <= FileCount(disk[x].cp) + 1
         /\ \A c \in Parts : sender[x].uuid = c.uuid => c.cp = disk[x].cp
         /\ \A y \in Node : x # y /\ sender[x].uuid = sender[y].uuid => sender[x] = NoSender
    /\ \A n \in Node :
         /\ mem[n].rcv.uuid <= sessions
         /\ mem[n].rcv.uuid # 0 => mem[n].pull # "none"
         /\ \A c \in Parts : mem[n].rcv.uuid = c.uuid =>
              disk[n].tmp = FirstBlocks(c.cp, mem[n].rcv.seq)
         /\ \A x \in Node : sender[x] # NoSender /\ mem[n].rcv.uuid = sender[x].uuid =>
              disk[n].tmp = FirstBlocks(disk[x].cp, mem[n].rcv.seq)

(* What is remembered.  Only the last chosen instance counts: who has a      *)
(* record of it or starts above it starts above all before.  A node that     *)
(* asks for a checkpoint has no part in it, unless it is hasty.              *)

AskerOK(n) ==
    mem[n].asking => mem[n].now < top /\ (mem[n].now + 1 < top \/ n \in hasty)

MemoryOK ==
    /\ \A n \in voted : top \in disk[n].log
    /\ top > 0 => Cardinality(Forgetters(top - 1) \ hasty) < Majority

(* A node with disk d and process p that wrote nothing in a pull.  While a    *)
(* checkpoint is pending the log is empty; otherwise the log reaches from    *)
(* the checkpoint to the present instance.  While no pull disturbs it, the   *)
(* cleaner keeps nothing between the saved minimum and the cached one, and   *)
(* goes through its pass without a gap.                                      *)

Pending(d, p) == p.pull # "none" \/ d.min > d.cp

CleanerOK(d, p) ==
    /\ d.min <= p.min /\ p.min <= d.min + SaveInterval /\ p.lastSave <= d.min
    /\ \A i \in d.min .. (p.min - 1) : i \notin Records(d)
    /\ \A i \in p.todo : p.min <= i /\ (p.min + 1) .. i \subseteq p.todo
    /\ p.todo = {} \/ p.min \in p.todo \/ p.min \notin Records(d)

Clean(d, p) ==
    /\ p.up
    /\ d.promise \subseteq {p.now} \ d.log
    /\ Pending(d, p) => Records(d) = {}
    /\ p.pull \in {"none", "further"} => (p.min + 1) .. (p.now - 1) \subseteq d.log
    /\ p.pull = "none" => CleanerOK(d, p)
    /\ ~Pending(d, p) => p.min <= d.cp /\ d.cp .. (p.now - 1) \subseteq d.log
    /\ Records(d) = {} \/ p.now - 1 \in d.log \/ p.now \in Records(d)

CInv ==
    /\ StateOK
    /\ \A n \in Node : PositionOK(n)
    /\ SessionsOK
    /\ LoadedWhole
    /\ \A n \in Node : AskerOK(n)
    /\ MemoryOK
    /\ \A n \in Node : n \notin tainted => Clean(disk[n], mem[n])

-----------------------------------------------------------------------------
(* Least and greatest elements, and what a start makes of a disk.           *)

LEMMA LeastNatural ==
  ASSUME NEW S \in SUBSET Nat, S # {}
  PROVE  Min(S) \in S /\ \A x \in S : Min(S) <= x
<1> DEFINE T == {0 .. x : x \in S}
           R == StrictSubsetOrdering(Nat)
<1>1. T \subseteq FiniteSubsetsOf(Nat) /\ T # {}
  <2>1. ASSUME NEW x \in S PROVE 0 .. x \in FiniteSubsetsOf(Nat)
    <3>1. x \in Int /\ 0 \in Int /\ 0 .. x \in SUBSET Nat
      OBVIOUS
    <3>2. IsFiniteSet(0 .. x)
      BY <3>1, FS_Interval
    <3>. QED  BY <3>1, <3>2 DEF FiniteSubsetsOf
  <2>. QED  BY <2>1
<1>2. PICK t \in T : \A u \in T : <<u, t>> \notin R
  <2>. HIDE DEF T, R
  <2>1. IsWellFoundedOn(R, FiniteSubsetsOf(Nat))
    BY FS_StrictSubsetOrderingWellFounded DEF R
  <2>. QED  BY <1>1, <2>1, WFMin
<1>3. PICK x \in S : t = 0 .. x
  OBVIOUS
<1>4. ASSUME NEW y \in S, y < x PROVE FALSE
  <2>1. 0 .. y \in T /\ 0 .. y \subseteq 0 .. x /\ x \in 0 .. x /\ x \notin 0 .. y
    BY <1>4
  <2>2. <<0 .. y, 0 .. x>> \in R
    BY <2>1 DEF StrictSubsetOrdering
  <2>. QED  BY <1>2, <1>3, <2>1, <2>2
<1>5. \A y \in S : x <= y
  BY <1>4
<1>. QED  BY <1>5 DEF Min

\* Min and Max are defined by CHOOSE; a finite set of numbers has both.
LEMMA GreatestNatural ==
  ASSUME NEW N \in Nat, NEW S \in SUBSET (0 .. N), S # {}
  PROVE  Max(S) \in S /\ \A x \in S : x <= Max(S)
<1> DEFINE T == {N - x : x \in S}
<1>1. T \in SUBSET Nat /\ T # {}
  <2>1. \A x \in S : N - x \in Nat
    OBVIOUS
  <2>. QED  BY <2>1
<1>2. Min(T) \in T /\ \A y \in T : Min(T) <= y
  BY <1>1, LeastNatural
<1>3. PICK x \in S : Min(T) = N - x
  BY <1>2
<1>4. \A y \in S : N - x <= N - y
  BY <1>2, <1>3
<1>5. \A y \in S : y <= x
  BY <1>4
<1>. QED  BY <1>5 DEF Max

\* What the constants are.
LEMMA Bounds ==
  /\ IsFiniteSet(Node) /\ NoNode \notin Node
  /\ LastInstance \in Nat /\ MaxSessions \in Nat /\ MaxFaults \in Nat
  /\ HoldCount \in Nat /\ HoldCount >= 1 /\ SaveInterval \in Nat /\ SaveInterval >= 1
  /\ Files \in Nat /\ Files >= 1
  /\ TooLarge \in Nat /\ TooLarge = LastInstance + 2
BY ConstantsOK DEF TooLarge

LEMMA RecordsOfDisk ==
  ASSUME NEW d \in Disks
  PROVE  Records(d) \in SUBSET (0 .. LastInstance)
BY DEF Disks, Records, Instances

\* MaxInstanceID is the highest record, 0 if there is none.
LEMMA HighestRecord ==
  ASSUME NEW d \in Disks
  PROVE  /\ MaxInstanceID(d) \in 0 .. LastInstance
         /\ \A r \in Records(d) : r <= MaxInstanceID(d)
         /\ Records(d) # {} => MaxInstanceID(d) \in Records(d)
         /\ Records(d) = {} => MaxInstanceID(d) = 0
<1>1. CASE Records(d) = {}
  BY <1>1, Bounds DEF MaxInstanceID
<1>2. CASE Records(d) # {}
  <2>1. Max(Records(d)) \in Records(d) /\ \A r \in Records(d) : r <= Max(Records(d))
    BY <1>2, Bounds, RecordsOfDisk, GreatestNatural
  <2>. QED  BY <1>2, <2>1, RecordsOfDisk DEF MaxInstanceID
<1>. QED  BY <1>1, <1>2

LEMMA StartPosition ==
  ASSUME NEW d \in Disks
  PROVE  /\ NowAtStart(d) \in 0 .. LastInstance
         /\ d.cp <= NowAtStart(d) /\ MaxInstanceID(d) <= NowAtStart(d)
         /\ NowAtStart(d) \in {d.cp, MaxInstanceID(d)}
<1>1. d.cp \in 0 .. LastInstance
  BY DEF Disks, Instances
<1>2. {d.cp, MaxInstanceID(d)} \in SUBSET (0 .. LastInstance) /\ {d.cp, MaxInstanceID(d)} # {}
  BY <1>1, HighestRecord
<1>3. /\ Max({d.cp, MaxInstanceID(d)}) \in {d.cp, MaxInstanceID(d)}
      /\ \A x \in {d.cp, MaxInstanceID(d)} : x <= Max({d.cp, MaxInstanceID(d)})
  BY <1>2, Bounds, GreatestNatural
<1>. QED  BY <1>2, <1>3 DEF NowAtStart

\* What FixMinChosenInstanceID makes of the saved minimum.
LEMMA StartMinimum ==
  ASSUME NEW d \in Disks
  PROVE  /\ FixMinChosen(d) \in 0 .. TooLarge
         /\ d.min <= FixMinChosen(d) /\ FixMinChosen(d) <= d.min + SaveInterval
         /\ d.min >= d.cp => FixMinChosen(d) = d.min
         /\ d.min <= d.cp => FixMinChosen(d) <= d.cp
         /\ \/ FixMinChosen(d) >= d.cp \/ FixMinChosen(d) \in Records(d)
            \/ FixMinChosen(d) = d.min + SaveInterval
<1> DEFINE S == {i \in d.min .. (d.min + SaveInterval) :
                   i >= d.cp \/ i \in Records(d) \/ i = d.min + SaveInterval}
<1>1. d.min \in 0 .. TooLarge /\ d.cp \in 0 .. LastInstance
  BY DEF Disks, Instances
<1>2. S \in SUBSET Nat /\ d.min + SaveInterval \in S
  BY <1>1, Bounds
<1>3. S # {}
  BY <1>2
<1>4. Min(S) \in S /\ \A x \in S : Min(S) <= x
  <2>. HIDE DEF S
  <2>. QED  BY <1>2, <1>3, LeastNatural
<1>5. FixMinChosen(d) = Min(S)
  BY DEF FixMinChosen
<1>6. /\ Min(S) \in d.min .. (d.min + SaveInterval)
      /\ Min(S) >= d.cp \/ Min(S) \in Records(d) \/ Min(S) = d.min + SaveInterval
  BY <1>4
<1>7. ASSUME d.min >= d.cp PROVE Min(S) = d.min
  <2>1. d.min \in S
    BY <1>1, <1>7, Bounds
  <2>. QED  BY <2>1, <1>4, <1>6, <1>1, Bounds
<1>8. ASSUME d.min <= d.cp PROVE Min(S) <= d.cp
  <2>1. CASE d.cp <= d.min + SaveInterval
    <3>1. d.cp \in S
      BY <1>1, <1>8, <2>1, Bounds
    <3>. QED  BY <3>1, <1>4
  <2>2. CASE d.cp > d.min + SaveInterval
    BY <2>2, <1>6, <1>1, Bounds
  <2>. QED  BY <2>1, <2>2, <1>1, Bounds
<1> HIDE DEF S
<1>9. Min(S) \in 0 .. TooLarge
  BY <1>1, <1>6, <1>7, <1>8, Bounds
<1>. QED  BY <1>5, <1>6, <1>7, <1>8, <1>9, <1>1, Bounds

\* A node starts above an instance if its checkpoint or a record is.
LEMMA StartAbove ==
  ASSUME NEW d \in Disks, NEW i \in Nat
  PROVE  NowAtStart(d) > i <=> d.cp > i \/ \E r \in Records(d) : r > i
<1>1. d.cp \in Nat /\ Records(d) \in SUBSET Nat
  BY RecordsOfDisk DEF Disks, Instances
<1>2. MaxInstanceID(d) > i <=> \E r \in Records(d) : r > i
  BY <1>1, HighestRecord
<1>. QED  BY <1>1, <1>2, StartPosition, HighestRecord

LEMMA StartWithin ==
  ASSUME NEW d \in Disks, NEW i \in Nat, Within(d, i)
  PROVE  NowAtStart(d) <= i /\ MaxInstanceID(d) <= i
BY StartPosition, HighestRecord DEF Within

LEMMA StartIsWithin ==
  ASSUME NEW d \in Disks
  PROVE  Within(d, NowAtStart(d))
BY StartPosition, HighestRecord, RecordsOfDisk DEF Within

LEMMA StartTypes ==
  ASSUME NEW d \in Disks
  PROVE  /\ MinAtStart(d) \in 0 .. TooLarge
         /\ [d EXCEPT !.min = MinAtStart(d)] \in Disks
         /\ Started(d) \in Processes
<1>1. d.cp \in 0 .. TooLarge
  BY Bounds DEF Disks, Instances
<1>2. MinAtStart(d) \in 0 .. TooLarge
  BY <1>1, StartMinimum DEF MinAtStart
<1>3. Started(d) \in Processes
  BY <1>2, StartPosition, Bounds DEF Started, Processes, NoReceiver, Receivers, Instances,
     StartFails, PlayLogFails, ProtectionFails
<1>. QED  BY <1>2, <1>3 DEF Disks

\* What a start keeps of a disk and makes of a process.
LEMMA StartFields ==
  ASSUME NEW d \in Disks, NEW e, e = [d EXCEPT !.min = MinAtStart(d)]
  PROVE  /\ e.log = d.log /\ e.promise = d.promise /\ e.cp = d.cp
         /\ e.parts = d.parts /\ e.tmp = d.tmp /\ e.min = MinAtStart(d)
         /\ Records(e) = Records(d) /\ NowAtStart(e) = NowAtStart(d)
         /\ Started(d).up = ~StartFails(d) /\ Started(d).now = NowAtStart(d)
         /\ Started(d).min = MinAtStart(d) /\ Started(d).lastSave = 0
         /\ Started(d).asking = FALSE /\ Started(d).rcv = NoReceiver
         /\ Started(d).pull = "none" /\ Started(d).todo = {}
<1>1. /\ e.log = d.log /\ e.promise = d.promise /\ e.cp = d.cp
      /\ e.parts = d.parts /\ e.tmp = d.tmp /\ e.min = MinAtStart(d)
  BY DEF Disks
<1>2. Records(e) = Records(d)
  BY <1>1 DEF Records
<1>3. NowAtStart(e) = NowAtStart(d)
  BY <1>1, <1>2 DEF NowAtStart, MaxInstanceID
<1>. QED  BY <1>1, <1>2, <1>3 DEF Started

\* A node that wrote nothing in a pull can start on its disk ...
LEMMA CleanStarts ==
  ASSUME NEW d \in Disks, NEW p \in Processes, Clean(d, p), Within(d, p.now)
  PROVE  ~StartFails(d)
<1>1. d.cp \in Nat /\ d.min \in Nat /\ p.now \in Nat /\ p.min \in Nat
  BY Bounds DEF Disks, Processes, Instances
<1>2. CASE Records(d) = {}
  BY <1>1, <1>2, HighestRecord DEF StartFails, PlayLogFails, ProtectionFails
<1>3. CASE Records(d) # {}
  <2>1. ~Pending(d, p)
    BY <1>3 DEF Clean
  <2>2. /\ d.min <= d.cp /\ p.min <= d.cp
        /\ d.cp .. (p.now - 1) \subseteq d.log
        /\ p.now - 1 \in d.log \/ p.now \in Records(d)
    BY <2>1, <1>1, <1>3 DEF Clean, Pending
  <2>3. d.log \subseteq Records(d) /\ d.cp <= p.now /\ MaxInstanceID(d) \in Nat
    BY StartWithin, HighestRecord DEF Records, Within
  <2>4. MaxInstanceID(d) <= p.now /\ p.now - 1 <= MaxInstanceID(d)
    <3>1. MaxInstanceID(d) <= p.now
      BY <1>1, StartWithin
    <3>2. p.now - 1 \in Records(d) \/ p.now \in Records(d)
      BY <2>2, <2>3
    <3>. QED  BY <3>1, <3>2, HighestRecord, <1>1, <2>3
  <2>5. d.cp <= MaxInstanceID(d) + 1
    BY <2>3, <2>4, <1>1
  <2>6. FixMinChosen(d) <= d.cp
    BY <2>2, StartMinimum
  <2>7. d.cp .. (MaxInstanceID(d) - 1) \subseteq Records(d)
    BY <2>2, <2>3, <2>4, <1>1
  <2>8. FixMinChosen(d) \in Nat
    BY StartMinimum, Bounds
  <2>9. ~PlayLogFails(d)
    BY <2>6, <2>7, <2>8, <1>1 DEF PlayLogFails
  <2>10. ~AheadOfLog(d)
    BY <2>5, <2>3, <1>1 DEF AheadOfLog
  <2>. QED  BY <2>9, <2>10 DEF StartFails, ProtectionFails
<1>. QED  BY <1>2, <1>3

\* A node starts cleanly on an empty log.
LEMMA EmptyLogStarts ==
  ASSUME NEW d \in Disks, Records(d) = {}
  PROVE  /\ ~StartFails(d)
         /\ Clean([d EXCEPT !.min = MinAtStart(d)], Started(d))
<1> DEFINE e == [d EXCEPT !.min = MinAtStart(d)]
           p == Started(d)
<1>1. d.cp \in Nat /\ d.min \in Nat
  BY Bounds DEF Disks, Instances
<1>2. MaxInstanceID(d) = 0 /\ NowAtStart(d) = d.cp
  BY <1>1, HighestRecord, StartPosition
<1>3. ~StartFails(d)
  BY <1>1, <1>2 DEF StartFails, PlayLogFails, ProtectionFails
<1>4. MinAtStart(d) \in Nat /\ (d.cp > 1 => MinAtStart(d) = d.cp)
  <2>1. MinAtStart(d) \in Nat
    <3>1. MinAtStart(d) \in 0 .. TooLarge
      BY StartTypes
    <3>. QED  BY <3>1, Bounds
  <2>2. d.cp > 1 => AheadOfLog(d) /\ ~ProtectionFails(d)
    BY <1>1, <1>2 DEF AheadOfLog, ProtectionFails
  <2>. QED  BY <2>1, <2>2 DEF MinAtStart
<1>5. /\ Records(e) = {} /\ e.promise = {} /\ e.log = {} /\ e.cp = d.cp
      /\ e.min = MinAtStart(d) /\ p.up /\ p.now = d.cp /\ p.min = MinAtStart(d)
      /\ p.lastSave = 0 /\ p.pull = "none" /\ p.todo = {}
  BY <1>2, <1>3, StartFields DEF Records
<1> HIDE DEF e, p
<1>6. (p.min + 1) .. (p.now - 1) = {}
  BY <1>1, <1>4, <1>5
<1>7. ~Pending(e, p) => p.min <= e.cp
  BY <1>1, <1>4, <1>5 DEF Pending
<1>8. e.cp .. (p.now - 1) = {}
  BY <1>1, <1>5
<1>9. p.min <= e.min + SaveInterval /\ p.lastSave <= e.min
  BY <1>1, <1>4, <1>5, Bounds
<1>10. Clean(e, p)
  BY <1>4, <1>5, <1>6, <1>7, <1>8, <1>9 DEF Clean, CleanerOK
<1>. QED  BY <1>3, <1>10 DEF e, p

\* ... and is then again one that wrote nothing.
LEMMA CleanRestart ==
  ASSUME NEW d \in Disks, NEW p \in Processes, Clean(d, p), Within(d, p.now)
  PROVE  Clean([d EXCEPT !.min = MinAtStart(d)], Started(d))
<1>1. CASE Records(d) = {}
  BY <1>1, EmptyLogStarts
<1>2. CASE Records(d) # {}
  <2> DEFINE e == [d EXCEPT !.min = MinAtStart(d)]
             q == Started(d)
             fix == FixMinChosen(d)
             high == MaxInstanceID(d)
  <2>1. /\ d.cp \in Nat /\ d.min \in Nat /\ p.now \in Nat /\ p.min \in Nat
        /\ fix \in Nat /\ high \in Nat /\ Records(d) \in SUBSET Nat
    BY Bounds, StartMinimum, HighestRecord, RecordsOfDisk DEF Disks, Processes, Instances
  <2>2. /\ ~Pending(d, p) /\ p.pull = "none" /\ d.min <= d.cp
    BY <2>1, <1>2 DEF Clean, Pending
  <2>3. /\ p.min <= d.cp /\ d.cp .. (p.now - 1) \subseteq d.log
        /\ (p.min + 1) .. (p.now - 1) \subseteq d.log
        /\ d.min <= p.min /\ p.min <= d.min + SaveInterval
        /\ \A i \in d.min .. (p.min - 1) : i \notin Records(d)
        /\ d.promise \subseteq {p.now} \ d.log
        /\ p.now - 1 \in d.log \/ p.now \in Records(d)
    BY <2>2, <1>2 DEF Clean, CleanerOK
  <2>4. high <= p.now /\ NowAtStart(d) <= p.now /\ d.cp <= p.now
    BY <2>1, StartWithin DEF Within
  <2>5. p.now - 1 \in Records(d) \/ p.now \in Records(d)
    BY <2>3 DEF Records
  <2>6. p.now - 1 <= high
    BY <2>5, HighestRecord, <2>1
  <2>7. ~AheadOfLog(d) /\ MinAtStart(d) = fix
    BY <2>1, <2>4, <2>6 DEF AheadOfLog, MinAtStart
  <2>8. /\ NowAtStart(d) \in Records(d) \/ NowAtStart(d) - 1 \in d.log
        /\ p.now \in Records(d) => NowAtStart(d) = p.now
        /\ NowAtStart(d) \in Nat
    <3>1. NowAtStart(d) \in Nat /\ NowAtStart(d) \in {d.cp, high} /\ d.cp <= NowAtStart(d)
          /\ high <= NowAtStart(d)
      BY <2>1, StartPosition
    <3>2. high \in Records(d)
      BY <1>2, HighestRecord
    <3>3. p.now \in Records(d) => p.now <= high
      BY HighestRecord
    <3>4. CASE NowAtStart(d) = high
      BY <3>1, <3>2, <3>3, <3>4, <2>1, <2>4
    <3>5. CASE NowAtStart(d) = d.cp /\ d.cp # high
      <4>1. d.cp = p.now /\ high = p.now - 1
        BY <3>1, <3>5, <2>1, <2>4, <2>6
      <4>2. p.now \notin Records(d)
        BY <4>1, <3>3, <2>1
      <4>. QED  BY <4>1, <4>2, <3>5, <3>1, <2>3
    <3>. QED  BY <3>1, <3>4, <3>5
  <2>9. p.min <= fix
    BY <2>1, <2>3, StartMinimum
  <2>10. /\ Records(e) = Records(d) /\ e.promise = d.promise /\ e.log = d.log /\ e.cp = d.cp
         /\ e.min = fix /\ q.up /\ q.now = NowAtStart(d) /\ q.min = fix
         /\ q.lastSave = 0 /\ q.pull = "none" /\ q.todo = {}
    BY <2>7, StartFields, CleanStarts
  <2>11. fix <= d.cp
    BY <2>2, StartMinimum
  <2> HIDE DEF e, q, fix, high
  <2>12. e.promise \subseteq {q.now} \ e.log
    <3>1. e.promise \subseteq {p.now} \ e.log /\ e.promise \subseteq Records(d)
      BY <2>3, <2>10 DEF Records
    <3>. QED  BY <3>1, <2>8, <2>10
  <2>13. (q.min + 1) .. (q.now - 1) \subseteq e.log
    BY <2>1, <2>3, <2>4, <2>8, <2>9, <2>10
  <2>14. q.min <= e.cp /\ e.cp .. (q.now - 1) \subseteq e.log /\ ~Pending(e, q)
    BY <2>1, <2>3, <2>4, <2>8, <2>10, <2>11 DEF Pending
  <2>15. /\ e.min <= q.min /\ q.min <= e.min + SaveInterval /\ q.lastSave <= e.min
         /\ e.min .. (q.min - 1) = {}
    BY <2>1, <2>10, Bounds
  <2>16. q.now \in Records(e) \/ q.now - 1 \in e.log
    BY <2>8, <2>10
  <2>17. Clean(e, q)
    BY <2>10, <2>12, <2>13, <2>14, <2>15, <2>16 DEF Clean, CleanerOK
  <2>. QED  BY <2>17 DEF e, q
<1>. QED  BY <1>1, <1>2

-----------------------------------------------------------------------------
(* What each step makes of a clean node.                                    *)

LEMMA NodeTypes ==
  ASSUME NEW d \in Disks, NEW p \in Processes
  PROVE  /\ d.cp \in Nat /\ d.min \in Nat /\ p.now \in Nat /\ p.min \in Nat /\ p.lastSave \in Nat
         /\ d.log \in SUBSET Nat /\ d.promise \in SUBSET Nat /\ Records(d) \in SUBSET Nat
         /\ d.log \subseteq Records(d) /\ d.promise \subseteq Records(d)
BY Bounds DEF Disks, Processes, Instances, Records

\* Clean depends on these fields only.
LEMMA CleanSame ==
  ASSUME NEW d \in Disks, NEW p \in Processes, Clean(d, p), NEW e, NEW q,
         e.log = d.log, e.promise = d.promise, e.min = d.min, e.cp = d.cp,
         q.up = p.up, q.now = p.now, q.min = p.min, q.lastSave = p.lastSave,
         q.pull = p.pull, q.todo = p.todo
  PROVE  Clean(e, q)
<1>1. Records(e) = Records(d) /\ (Pending(e, q) <=> Pending(d, p))
  BY DEF Records, Pending
<1>. QED  BY <1>1 DEF Clean, CleanerOK

LEMMA PassSame ==
  ASSUME NEW d \in Disks, NEW p \in Processes, PassOK(d, p),
         NEW e \in Disks, NEW q \in Processes,
         d.cp <= e.cp, p.now <= q.now, q.todo \subseteq p.todo
  PROVE  PassOK(e, q)
<1>1. \A i \in p.todo : i \in Nat
  BY Bounds DEF Processes, Instances
<1>. QED  BY <1>1, NodeTypes, Bounds DEF PassOK

\* A vote in the present instance is above what the cleaner has in hand.
LEMMA CleanerWrites ==
  ASSUME NEW d \in Disks, NEW p \in Processes, CleanerOK(d, p), PassOK(d, p),
         p.min <= p.now, NEW e, e.min = d.min, Records(e) \subseteq Records(d) \cup {p.now}
  PROVE  CleanerOK(e, p)
<1>1. \A i \in e.min .. (p.min - 1) : i \notin Records(e)
  BY NodeTypes DEF CleanerOK
<1>2. p.todo # {} => p.min # p.now
  <2>1. ASSUME NEW i \in p.todo PROVE p.min # p.now
    <3>1. i \in Nat /\ p.min <= i /\ i + HoldCount < p.now
      BY Bounds DEF CleanerOK, PassOK, Processes, Instances
    <3>. QED  BY <3>1, NodeTypes, Bounds
  <2>. QED  BY <2>1
<1>. QED  BY <1>1, <1>2 DEF CleanerOK

\* Each kind of step keeps Clean: a vote in the present instance,
LEMMA CleanVote ==
  ASSUME NEW d \in Disks, NEW p \in Processes, Clean(d, p), Within(d, p.now),
         PassOK(d, p), ~Pending(d, p), NEW e \in Disks,
         e.log = d.log \cup {p.now}, e.promise = {}, e.min = d.min, e.cp = d.cp
  PROVE  Clean(e, p)
<1>1. Records(e) = d.log \cup {p.now} /\ Records(e) \subseteq Records(d) \cup {p.now}
  BY DEF Records
<1>2. ~Pending(e, p)
  BY DEF Pending
<1>3. d.cp <= p.now /\ p.min <= d.cp
  BY DEF Within, Clean
<1>4. p.min <= p.now /\ (p.pull = "none" => CleanerOK(e, p))
  <2>1. p.min <= p.now
    BY <1>3, NodeTypes
  <2>. QED  BY <2>1, <1>1, CleanerWrites DEF Clean
<1>5. (p.pull \in {"none", "further"} => (p.min + 1) .. (p.now - 1) \subseteq e.log)
      /\ e.cp .. (p.now - 1) \subseteq e.log
  BY <1>1 DEF Clean
<1>6. p.now \in Records(e)
  BY <1>1
<1>. QED  BY <1>2, <1>3, <1>4, <1>5, <1>6 DEF Clean

\* a promise in it,
LEMMA CleanPromise ==
  ASSUME NEW d \in Disks, NEW p \in Processes, Clean(d, p), Within(d, p.now),
         PassOK(d, p), ~Pending(d, p), p.now \notin d.log, NEW e \in Disks,
         e.log = d.log, e.promise = {p.now}, e.min = d.min, e.cp = d.cp
  PROVE  Clean(e, p)
<1>1. Records(e) = d.log \cup {p.now} /\ Records(e) \subseteq Records(d) \cup {p.now}
  BY DEF Records
<1>2. ~Pending(e, p)
  BY DEF Pending
<1>3. d.cp <= p.now /\ p.min <= d.cp
  BY DEF Within, Clean
<1>4. p.min <= p.now /\ (p.pull = "none" => CleanerOK(e, p))
  <2>1. p.min <= p.now
    BY <1>3, NodeTypes
  <2>. QED  BY <2>1, <1>1, CleanerWrites DEF Clean
<1>6. p.now \in Records(e)
  BY <1>1
<1>. QED  BY <1>2, <1>3, <1>4, <1>6 DEF Clean

\* going on to the next,
LEMMA CleanLearn ==
  ASSUME NEW d \in Disks, NEW p \in Processes, Clean(d, p), Within(d, p.now),
         p.now \in d.log, NEW q \in Processes, q.now = p.now + 1,
         q.up = p.up, q.min = p.min, q.lastSave = p.lastSave, q.pull = p.pull,
         q.todo = p.todo
  PROVE  Clean(d, q)
<1>1. p.now \in Records(d) /\ ~Pending(d, p) /\ ~Pending(d, q)
  BY DEF Records, Clean, Pending
<1>2. d.promise = {}
  BY DEF Clean
<1>3. /\ p.pull \in {"none", "further"} => (q.min + 1) .. (q.now - 1) \subseteq d.log
      /\ d.cp .. (q.now - 1) \subseteq d.log
  <2>1. \A i \in Int : i <= q.now - 1 => i = p.now \/ i <= p.now - 1
    BY NodeTypes
  <2>. QED  BY <2>1, <1>1, NodeTypes DEF Clean
<1>4. q.now - 1 \in d.log
  BY NodeTypes
<1>. QED  BY <1>1, <1>2, <1>3, <1>4 DEF Clean, CleanerOK

\* the replayer moving the checkpoint,
LEMMA CleanPlay ==
  ASSUME NEW d \in Disks, NEW p \in Processes, Clean(d, p), d.cp \in d.log,
         NEW e \in Disks, e.log = d.log, e.promise = d.promise, e.min = d.min,
         e.cp = d.cp + 1
  PROVE  Clean(e, p)
<1>1. Records(e) = Records(d) /\ d.cp \in Records(d)
  BY DEF Records
<1>2. ~Pending(d, p) /\ ~Pending(e, p)
  BY <1>1, NodeTypes DEF Clean, Pending
<1>3. p.min <= e.cp /\ e.cp .. (p.now - 1) \subseteq e.log
  BY <1>2, NodeTypes DEF Clean
<1>. QED  BY <1>1, <1>2, <1>3 DEF Clean, CleanerOK

\* the cleaner reading a pass,
LEMMA CleanPass ==
  ASSUME NEW d \in Disks, NEW p \in Processes, Clean(d, p), NEW q \in Processes,
         q.todo = {i \in p.min .. p.now : i + HoldCount < d.cp /\ i + HoldCount < p.now},
         q.up = p.up, q.now = p.now, q.min = p.min, q.lastSave = p.lastSave, q.pull = p.pull
  PROVE  Clean(d, q) /\ PassOK(d, q)
<1>1. PassOK(d, q)
  BY DEF PassOK
<1>2. ASSUME NEW i \in q.todo
      PROVE  p.min <= i /\ (p.min + 1) .. i \subseteq q.todo /\ p.min \in q.todo
  BY NodeTypes, Bounds
<1>3. p.pull = "none" => CleanerOK(d, q)
  BY <1>2 DEF Clean, CleanerOK
<1>4. Pending(d, q) <=> Pending(d, p)
  BY DEF Pending
<1>. QED  BY <1>1, <1>3, <1>4 DEF Clean

\* deleting the next of it, whether or not it saves the minimum,
LEMMA CleanDelete ==
  ASSUME NEW d \in Disks, NEW p \in Processes, Clean(d, p), PassOK(d, p),
         NEW i \in p.todo, \A j \in p.todo : i <= j,
         NEW e \in Disks, NEW q \in Processes,
         e.log = d.log \ {i}, e.promise = d.promise, e.cp = d.cp,
         q.up = p.up, q.now = p.now, q.todo = p.todo \ {i},
         q.pull = IF p.pull = "further" THEN "overrun" ELSE p.pull,
         IF i >= p.lastSave + SaveInterval
           THEN q.min = i + 1 /\ e.min = i + 1 /\ q.lastSave = i
           ELSE q.min = i /\ e.min = d.min /\ q.lastSave = p.lastSave
  PROVE  Clean(e, q)
<1>1. Records(e) \subseteq Records(d) /\ Records(e) \subseteq (d.log \ {i}) \cup d.promise
  BY DEF Records
<1>2. /\ d.cp \in Nat /\ d.min \in Nat /\ p.now \in Nat /\ p.min \in Nat /\ p.lastSave \in Nat
      /\ HoldCount \in Nat /\ HoldCount >= 1 /\ SaveInterval \in Nat /\ SaveInterval >= 1
      /\ q.min \in Nat /\ e.min \in Nat /\ q.lastSave \in Nat /\ i \in Nat
      /\ p.todo \in SUBSET Nat
  BY Bounds, NodeTypes DEF Processes, Instances
<1>3. i + HoldCount < d.cp /\ i + HoldCount < p.now
  BY DEF PassOK
<1>4. e.promise \subseteq {q.now} \ e.log /\ i \notin Records(e)
  BY <1>1, <1>2, <1>3 DEF Clean
<1>5. Records(d) = {} => Records(e) = {}
  BY <1>1
<1>6. Records(e) = {} \/ q.now - 1 \in e.log \/ q.now \in Records(e)
  <2>1. CASE Records(d) = {}
    BY <2>1, <1>5
  <2>2. CASE p.now - 1 \in d.log
    BY <2>2, <1>2, <1>3
  <2>3. CASE p.now \in Records(d)
    BY <2>3, <1>2, <1>3 DEF Records
  <2>. QED  BY <2>1, <2>2, <2>3 DEF Clean
<1>7. CASE p.pull # "none"
  <2>1. Records(e) = {}
    BY <1>5, <1>7 DEF Clean, Pending
  <2>2. q.pull \notin {"none", "further"} /\ Pending(e, q)
    BY <1>7 DEF Pending
  <2>. QED  BY <2>1, <2>2, <1>4, <1>6 DEF Clean
<1>8. CASE p.pull = "none"
  <2>1. /\ d.min <= p.min /\ p.min <= d.min + SaveInterval /\ p.lastSave <= d.min
        /\ \A j \in d.min .. (p.min - 1) : j \notin Records(d)
        /\ \A j \in p.todo : p.min <= j /\ (p.min + 1) .. j \subseteq p.todo
        /\ p.min \in p.todo \/ p.min \notin Records(d)
        /\ (p.min + 1) .. (p.now - 1) \subseteq d.log
    BY <1>8 DEF Clean, CleanerOK
  <2>2. i \in {p.min, p.min + 1}
    <3>1. CASE i > p.min
      <4>1. p.min + 1 \in p.todo
        BY <2>1, <3>1, <1>2
      <4>. QED  BY <4>1, <3>1, <1>2
    <3>. QED  BY <3>1, <2>1, <1>2
  <2>3. q.pull = "none"
    BY <1>8
  <2>4. p.min <= q.min /\ q.min \in {i, i + 1} /\ e.min <= q.min /\ q.min <= e.cp
        /\ q.min <= e.min + SaveInterval /\ q.lastSave <= e.min
    BY <2>1, <2>2, <1>2, <1>3
  <2>5. \A j \in e.min .. (q.min - 1) : j \notin Records(e)
    <3>1. ASSUME NEW j \in d.min .. (i - 1) PROVE j \notin Records(d)
      <4>1. CASE j <= p.min - 1
        BY <4>1, <2>1, <1>2
      <4>2. CASE j = p.min
        <5>1. p.min \notin p.todo
          BY <4>2, <1>2
        <5>. QED  BY <5>1, <4>2, <2>1
      <4>. QED  BY <4>1, <4>2, <2>2, <1>2
    <3>2. (q.min = i + 1 /\ e.min = i + 1) \/ (q.min = i /\ e.min = d.min)
      <4>1. CASE i >= p.lastSave + SaveInterval
        BY <4>1
      <4>2. CASE ~(i >= p.lastSave + SaveInterval)
        BY <4>2
      <4>. QED  BY <4>1, <4>2
    <3>3. CASE q.min = i + 1 /\ e.min = i + 1
      BY <3>3, <1>2
    <3>4. CASE q.min = i /\ e.min = d.min
      BY <3>1, <3>4, <1>1
    <3>. QED  BY <3>2, <3>3, <3>4
  <2>6. \A j \in q.todo : q.min <= j /\ (q.min + 1) .. j \subseteq q.todo
    BY <2>1, <2>4, <1>2
  <2>7. q.todo = {} \/ q.min \in q.todo \/ q.min \notin Records(e)
    <3>1. ASSUME q.min = i + 1, NEW j \in q.todo PROVE i + 1 \in q.todo
      BY <3>1, <2>1, <2>2, <1>2
    <3>. QED  BY <3>1, <2>4, <1>4
  <2>8. CleanerOK(e, q)
    BY <2>4, <2>5, <2>6, <2>7 DEF CleanerOK
  <2>9. (q.min + 1) .. (q.now - 1) \subseteq e.log
    BY <2>1, <2>2, <2>4, <1>2
  <2>10. ~Pending(e, q)
    BY <2>3, <2>4, <1>2, <1>3 DEF Pending
  <2>11. e.cp .. (q.now - 1) \subseteq e.log
    <3>1. CASE Pending(d, p)
      <4>1. d.min > d.cp
        BY <3>1, <1>8 DEF Pending
      <4>. QED  BY <4>1, <2>1, <2>2, <1>2, <1>3
    <3>2. CASE ~Pending(d, p)
      BY <3>2, <1>2, <1>3 DEF Clean
    <3>. QED  BY <3>1, <3>2
  <2>. QED  BY <2>3, <2>4, <2>8, <2>9, <2>10, <2>11, <1>4, <1>6 DEF Clean
<1>. QED  BY <1>7, <1>8

\* and the begin of a pull, which leaves an empty log.
LEMMA CleanBegin ==
  ASSUME NEW d \in Disks, NEW p \in Processes, NEW q \in Processes, NEW cp \in Instances,
         d.log = {}, d.promise = {}, d.min = CheckpointInstanceID(cp), p.up,
         q.up = p.up, q.now = p.now, q.min = CheckpointInstanceID(cp),
         q.pull = IF cp # 0 /\ cp < p.now THEN "stale" ELSE "further"
  PROVE  Clean(d, q)
<1>1. Records(d) = {} /\ Pending(d, q) /\ q.pull # "none"
  BY DEF Records, Pending
<1>2. q.min \in Nat /\ d.min = q.min
  BY NodeTypes
<1>3. q.pull \in {"none", "further"} => (q.min + 1) .. (q.now - 1) = {}
  <2>1. p.now \in 0 .. LastInstance /\ cp \in Nat
    BY Bounds DEF Processes, Instances
  <2>2. q.pull # "stale" => q.min >= p.now - 1
    BY <2>1, Bounds DEF CheckpointInstanceID
  <2>. QED  BY <2>1, <2>2, <1>2
<1>. QED  BY <1>1, <1>2, <1>3 DEF Clean

-----------------------------------------------------------------------------
(* Steps of one node, and what is remembered over them.                     *)

LEMMA OneDisk ==
  ASSUME StateOK, NEW n \in Node, NEW e \in Disks, disk' = [disk EXCEPT ![n] = e]
  PROVE  /\ disk' \in [Node -> Disks] /\ disk'[n] = e
         /\ \A m \in Node \ {n} : disk'[m] = disk[m]
BY DEF StateOK

LEMMA OneProcess ==
  ASSUME StateOK, NEW n \in Node, NEW q \in Processes, mem' = [mem EXCEPT ![n] = q]
  PROVE  /\ mem' \in [Node -> Processes] /\ mem'[n] = q
         /\ \A m \in Node \ {n} : mem'[m] = mem[m]
BY DEF StateOK

\* Remembers, of a disk.
Keeps(d, i) == i \in d.log \/ NowAtStart(d) > i

\* No node but a hasty one forgets: a majority still remembers.
LEMMA ForgettersMove ==
  ASSUME StateOK, NEW i,
         \A m \in Node \ hasty' : Keeps(disk[m], i) => Keeps(disk'[m], i),
         hasty \subseteq hasty', Cardinality(Forgetters(i) \ hasty) < Majority
  PROVE  Cardinality((Forgetters(i) \ hasty)') < Majority
<1> DEFINE F == Forgetters(i) \ hasty
           G == {m \in Node : ~Keeps(disk'[m], i)} \ hasty'
<1>1. F \subseteq Node /\ G \subseteq F
  BY DEF Forgetters, Remembers, Keeps
<1>2. IsFiniteSet(F) /\ IsFiniteSet(G) /\ Cardinality(G) <= Cardinality(F)
        /\ Cardinality(F) \in Nat /\ Cardinality(G) \in Nat
  BY <1>1, Bounds, FS_Subset, FS_CardinalityType
<1>3. Majority \in Nat
  BY Bounds, FS_CardinalityType DEF Majority
<1>4. (Forgetters(i) \ hasty)' = G
  BY DEF Forgetters, Remembers, Keeps
<1>. QED  BY <1>2, <1>3, <1>4

LEMMA MemoryMoves ==
  ASSUME StateOK, MemoryOK, top' = top, voted' = voted, hasty \subseteq hasty',
         \A m \in Node \ hasty' : top > 0 /\ Keeps(disk[m], top - 1) => Keeps(disk'[m], top - 1),
         \A m \in voted : top \in disk[m].log => top \in disk'[m].log
  PROVE  MemoryOK'
<1>1. top > 0 => Cardinality((Forgetters(top - 1) \ hasty)') < Majority
  <2>1. CASE top > 0
    <3>1. Cardinality(Forgetters(top - 1) \ hasty) < Majority
      BY <2>1 DEF MemoryOK
    <3>. QED  BY <2>1, <3>1, ForgettersMove
  <2>. QED  BY <2>1
<1>2. \A m \in voted' : top' \in disk'[m].log
  BY DEF MemoryOK
<1>. QED  BY <1>1, <1>2 DEF MemoryOK

\* A node's steps that leave the network and its own pull alone.
LEMMA LocalStep ==
  ASSUME CInv, NEW n \in Node, NEW e \in Disks, NEW q \in Processes,
         disk' = [disk EXCEPT ![n] = e], mem' = [mem EXCEPT ![n] = q],
         UNCHANGED <<sender, msgs, sessions>>,
         top' \in Instances, top <= top', tainted \subseteq tainted', tainted' \subseteq Node,
         voted' \subseteq Node, hasty' \subseteq Node, faults' \in 0 .. MaxFaults,
         Within(e, q.now), q.now <= top', PassOK(e, q), e.tmp = disk[n].tmp,
         q.rcv = mem[n].rcv, mem[n].pull # "none" => q.pull # "none",
         e.cp = disk[n].cp \/ sender[n] = NoSender, e.parts = Whole(e.cp),
         \A m \in Node : AskerOK(m)', MemoryOK', n \notin tainted' => Clean(e, q)
  PROVE  CInv'
<1>1. StateOK
  BY DEF CInv
<1>2. /\ disk' \in [Node -> Disks] /\ disk'[n] = e
      /\ \A m \in Node \ {n} : disk'[m] = disk[m]
  BY <1>1, OneDisk
<1>3. /\ mem' \in [Node -> Processes] /\ mem'[n] = q
      /\ \A m \in Node \ {n} : mem'[m] = mem[m]
  BY <1>1, OneProcess
<1>4. StateOK'
  BY <1>1, <1>2, <1>3 DEF StateOK, Asks
<1>5. \A m \in Node : PositionOK(m)'
  <2>1. ASSUME NEW m \in Node \ {n} PROVE PositionOK(m)'
    <3>1. PositionOK(m) /\ mem[m].now \in Nat /\ top \in Nat /\ top' \in Nat
      BY <1>1, Bounds, NodeTypes DEF CInv, StateOK, Instances
    <3>2. mem[m].now <= top'
      BY <3>1 DEF PositionOK
    <3>. QED  BY <3>1, <3>2, <1>2, <1>3 DEF PositionOK
  <2>2. PositionOK(n)'
    BY <1>2, <1>3 DEF PositionOK
  <2>. QED  BY <2>1, <2>2
<1>6. \A m \in Node : /\ disk'[m].tmp = disk[m].tmp
                      /\ mem'[m].rcv = mem[m].rcv
                      /\ mem[m].pull # "none" => mem'[m].pull # "none"
                      /\ disk'[m].cp = disk[m].cp \/ sender[m] = NoSender
  BY <1>2, <1>3
<1>7. SessionsOK'
  <2>1. SessionsOK /\ top \in Nat /\ top' \in Nat /\ Parts' = Parts
    BY <1>1, Bounds DEF CInv, StateOK, Instances, Parts
  <2>2. \A c \in Parts : c.uuid # 0 /\ c.cp \in Nat
    BY <1>1, Bounds DEF StateOK, Parts, AskMessages, FileMessages, Instances
  <2>3. \A c \in Parts' : MessageOK(c)'
    BY <2>1, <2>2 DEF SessionsOK, MessageOK
  <2>4. \A m \in Node : sender[m] = NoSender => sender[m].uuid = 0
    BY DEF NoSender
  <2>. QED  BY <2>1, <2>2, <2>3, <2>4, <1>6 DEF SessionsOK
<1>8. LoadedWhole'
  BY <1>2 DEF LoadedWhole, CInv
<1>9. \A m \in Node : m \notin tainted' => Clean(disk'[m], mem'[m])
  BY <1>2, <1>3 DEF CInv
<1>. QED  BY <1>4, <1>5, <1>7, <1>8, <1>9 DEF CInv

\* The network's steps that leave every node alone.
LEMMA NetworkStep ==
  ASSUME CInv, UNCHANGED <<disk, mem, top, voted, tainted, hasty>>, StateOK', SessionsOK'
  PROVE  CInv'
<1>1. \A m \in Node : PositionOK(m)' /\ AskerOK(m)'
  BY DEF CInv, PositionOK, AskerOK
<1>2. MemoryOK'
  BY DEF CInv, MemoryOK, Forgetters, Remembers
<1>3. LoadedWhole'
  BY DEF CInv, LoadedWhole
<1>. QED  BY <1>1, <1>2, <1>3 DEF CInv

-----------------------------------------------------------------------------
(* The steps, one by one.                                                   *)

LEMMA NodeFacts ==
  ASSUME CInv, NEW n \in Node
  PROVE  /\ StateOK /\ disk[n] \in Disks /\ mem[n] \in Processes /\ sender[n] \in Senders
         /\ Within(disk[n], mem[n].now) /\ mem[n].now <= top /\ disk[n].cp <= mem[n].now
         /\ AskerOK(n) /\ MemoryOK /\ disk[n].parts = Whole(disk[n].cp)
         /\ mem[n].now \in Nat /\ mem[n].now <= LastInstance
         /\ top \in 0 .. LastInstance /\ top \in Nat /\ PassOK(disk[n], mem[n])
         /\ n \notin tainted => Clean(disk[n], mem[n])
         /\ mem = [mem EXCEPT ![n] = mem[n]] /\ disk = [disk EXCEPT ![n] = disk[n]]
<1>1. StateOK
  BY DEF CInv
<1>2. disk[n] \in Disks /\ mem[n] \in Processes /\ sender[n] \in Senders
  BY <1>1 DEF StateOK
<1>3. mem[n].now \in 0 .. LastInstance /\ top \in 0 .. LastInstance
  BY <1>1, <1>2 DEF StateOK, Processes, Instances
<1>4. /\ Within(disk[n], mem[n].now) /\ mem[n].now <= top /\ disk[n].cp <= mem[n].now
      /\ PassOK(disk[n], mem[n])
  BY DEF CInv, PositionOK, Within
<1>5. mem = [mem EXCEPT ![n] = mem[n]] /\ disk = [disk EXCEPT ![n] = disk[n]]
  BY <1>1 DEF StateOK
<1>. QED  BY <1>1, <1>2, <1>3, <1>4, <1>5, Bounds DEF CInv, LoadedWhole

\* What a write in the present instance keeps.
LEMMA WriteKeeps ==
  ASSUME NEW d \in Disks, NEW e \in Disks, NEW i \in Nat, NEW j \in Nat, Within(d, j),
         d.log \subseteq e.log, j \in Records(e), e.cp = d.cp, Keeps(d, i)
  PROVE  Keeps(e, i)
<1>1. CASE i \in d.log
  BY <1>1 DEF Keeps
<1>2. CASE NowAtStart(d) > i
  <2>1. NowAtStart(d) \in Nat /\ NowAtStart(d) <= j
    BY StartWithin, StartPosition, Bounds
  <2>2. j > i
    BY <1>2, <2>1
  <2>. QED  BY <2>2, StartAbove DEF Keeps
<1>. QED  BY <1>1, <1>2 DEF Keeps

\* The one step that can choose: the voters are a majority that has the record.
LEMMA VoteStep ==
  ASSUME CInv, NEW n \in Node, Vote(n)
  PROVE  CInv'
<1> DEFINE d == disk[n]
           p == mem[n]
           e == [d EXCEPT !.log = @ \cup {top}, !.promise = {}]
           counted == voted \cup {n}
           chosen == Cardinality(counted) >= Majority
<1>1. /\ p.up /\ ~p.asking /\ p.now = top /\ top < LastInstance /\ n \notin voted
      /\ disk' = [disk EXCEPT ![n] = e] /\ mem' = mem
      /\ voted' = (IF chosen THEN {} ELSE counted)
      /\ top' = (IF chosen THEN top + 1 ELSE top)
      /\ hasty' = (IF chosen THEN {} ELSE hasty)
      /\ tainted' = (IF Unloaded(n) THEN tainted \cup {n} ELSE tainted)
      /\ UNCHANGED <<sender, msgs, sessions, faults>>
  BY DEF Vote, Tainted
<1>2. /\ StateOK /\ d \in Disks /\ p \in Processes /\ Within(d, p.now) /\ p.now <= top
      /\ MemoryOK /\ d.parts = Whole(d.cp) /\ top \in Nat /\ LastInstance \in Nat
      /\ PassOK(d, p)
      /\ n \notin tainted => Clean(d, p)
      /\ mem = [mem EXCEPT ![n] = p]
  BY NodeFacts, Bounds
<1>3. /\ e.log = d.log \cup {top} /\ e.promise = {} /\ e.min = d.min /\ e.cp = d.cp
      /\ e.parts = d.parts /\ e.tmp = d.tmp
  BY <1>2 DEF Disks
<1>4. e \in Disks
  <2>1. top \in Instances
    BY <1>2 DEF StateOK
  <2>. QED  BY <2>1, <1>2 DEF Disks
<1> HIDE DEF d, p, e
<1>5. /\ disk' \in [Node -> Disks] /\ disk'[n] = e
      /\ \A m \in Node \ {n} : disk'[m] = disk[m]
  BY <1>1, <1>2, <1>4, OneDisk
<1>6. Within(e, p.now) /\ top \in Records(e) /\ PassOK(e, p)
  <2>1. PassOK(e, p)
    BY <1>2, <1>3, <1>4, NodeTypes, PassSame
  <2>. QED  BY <2>1, <1>1, <1>2, <1>3 DEF Within, Records
<1>7. voted \subseteq Node /\ hasty \subseteq Node /\ tainted \subseteq Node
  BY <1>2 DEF StateOK
<1>8. \A m \in Node : AskerOK(m)'
  <2>1. ASSUME NEW m \in Node PROVE AskerOK(m)'
    <3>1. AskerOK(m) /\ mem[m].now \in Nat
      BY NodeFacts
    <3>. QED  BY <3>1, <1>1, <1>2 DEF AskerOK
  <2>. QED  BY <2>1
<1>9. MemoryOK'
  <2>1. CASE ~chosen
    <3>1. ASSUME NEW m \in Node, top > 0, Keeps(disk[m], top - 1)
          PROVE  Keeps(disk'[m], top - 1)
      <4>1. CASE m = n
        <5>1. top - 1 \in Nat /\ Within(d, top) /\ d.log \subseteq e.log
          BY <1>1, <1>2, <1>3, <3>1
        <5>2. Keeps(d, top - 1)
          BY <3>1, <4>1 DEF d
        <5>3. Keeps(e, top - 1)
          BY <5>1, <5>2, <1>2, <1>3, <1>4, <1>6, WriteKeeps
        <5>. QED  BY <5>3, <4>1, <1>5
      <4>. QED  BY <4>1, <3>1, <1>5
    <3>2. top > 0 => Cardinality((Forgetters(top - 1) \ hasty)') < Majority
      <4>1. CASE top > 0
        <5>1. Cardinality(Forgetters(top - 1) \ hasty) < Majority /\ hasty \subseteq hasty'
          BY <4>1, <1>1, <1>2, <2>1 DEF MemoryOK
        <5>2. \A m \in Node \ hasty' : Keeps(disk[m], top - 1) => Keeps(disk'[m], top - 1)
          BY <4>1, <3>1
        <5>3. top' = top
          BY <1>1, <2>1
        <5>. QED  BY <5>1, <5>2, <5>3, <1>2, ForgettersMove
      <4>. QED  BY <4>1
    <3>3. \A m \in voted' : top \in disk'[m].log
      BY <1>1, <1>2, <1>3, <1>5, <1>7, <2>1 DEF MemoryOK
    <3>. QED  BY <3>2, <3>3, <1>1, <2>1 DEF MemoryOK
  <2>2. CASE chosen
    <3> DEFINE F == (Forgetters(top - 1) \ hasty)'
    <3>0. top' - 1 = top /\ hasty' = {}
      BY <1>1, <1>2, <2>2
    <3>1. F \subseteq Node \ counted
      <4>1. \A m \in counted : top \in disk'[m].log
        BY <1>2, <1>3, <1>5, <1>7 DEF MemoryOK
      <4>. QED  BY <4>1, <3>0, <1>7 DEF Forgetters, Remembers
    <3>2. /\ IsFiniteSet(Node \ counted) /\ IsFiniteSet(F) /\ counted \subseteq Node
          /\ Cardinality(F) <= Cardinality(Node \ counted)
      BY <3>1, <1>7, Bounds, FS_Subset
    <3>3. /\ Cardinality(Node \ counted) = Cardinality(Node) - Cardinality(Node \cap counted)
          /\ Node \cap counted = counted
      BY <3>2, Bounds, FS_Difference
    <3>4. /\ Cardinality(Node) \in Nat /\ Cardinality(counted) \in Nat /\ Cardinality(F) \in Nat
      BY <3>2, Bounds, FS_CardinalityType, FS_Subset
    <3>5. Cardinality(F) < Majority
      <4>1. Cardinality(counted) >= Majority
        BY <2>2
      <4> DEFINE k == Cardinality(F)
                 a == Cardinality(Node)
                 b == Cardinality(counted)
      <4>2. k <= a - b /\ a \in Nat /\ b \in Nat /\ k \in Nat
        BY <3>2, <3>3, <3>4
      <4>3. b >= a \div 2 + 1
        BY <4>1 DEF Majority
      <4> HIDE DEF a, b, k
      <4>4. k < a \div 2 + 1
        BY <4>2, <4>3
      <4>. QED  BY <4>4 DEF a, k, Majority
    <3>6. top' - 1 = top /\ voted' = {}
      BY <1>1, <1>2, <2>2
    <3>7. top' > 0 => Cardinality((Forgetters(top - 1) \ hasty)') < Majority
      BY <3>5
    <3> HIDE DEF F
    <3>8. \A m \in voted' : top' \in disk'[m].log
      BY <3>6
    <3>. QED  BY <3>7, <3>8 DEF MemoryOK
  <2>. QED  BY <2>1, <2>2
<1>10. n \notin tainted' => Clean(e, p)
  <2>1. n \notin tainted' => n \notin tainted /\ ~Pending(d, p)
    BY <1>1 DEF Unloaded, Pending, d, p
  <2>. QED  BY <2>1, <1>1, <1>2, <1>3, <1>4, CleanVote
<1>11. top' \in Instances /\ top <= top' /\ p.now <= top'
  BY <1>1, <1>2 DEF Instances
<1>12. /\ tainted \subseteq tainted' /\ tainted' \subseteq Node
       /\ voted' \subseteq Node /\ hasty' \subseteq Node /\ faults' \in 0 .. MaxFaults
  BY <1>1, <1>2, <1>7 DEF StateOK
<1>13. /\ e.tmp = disk[n].tmp /\ p.rcv = mem[n].rcv /\ p.pull = mem[n].pull
       /\ e.cp = disk[n].cp /\ e.parts = Whole(e.cp)
  BY <1>2, <1>3 DEF d, p
<1>. QED  BY <1>1, <1>2, <1>4, <1>6, <1>8, <1>9, <1>10, <1>11, <1>12, <1>13, LocalStep

\* A local step within an instance that nobody votes in.
LEMMA QuietStep ==
  ASSUME CInv, NEW n \in Node, NEW e \in Disks, NEW q \in Processes,
         disk' = [disk EXCEPT ![n] = e], mem' = [mem EXCEPT ![n] = q],
         UNCHANGED <<sender, msgs, sessions, top, voted, hasty>>,
         tainted \subseteq tainted', tainted' \subseteq Node, faults' \in 0 .. MaxFaults,
         Within(e, q.now), q.now <= top, PassOK(e, q), e.tmp = disk[n].tmp,
         q.rcv = mem[n].rcv, mem[n].pull # "none" => q.pull # "none",
         e.cp = disk[n].cp \/ sender[n] = NoSender, e.parts = Whole(e.cp),
         q.asking => mem[n].asking /\ q.now = mem[n].now,
         top > 0 /\ Keeps(disk[n], top - 1) => Keeps(e, top - 1),
         top \in disk[n].log => top \in e.log,
         n \notin tainted' => Clean(e, q)
  PROVE  CInv'
<1>1. StateOK /\ MemoryOK
  BY DEF CInv
<1>2. disk'[n] = e /\ \A m \in Node \ {n} : disk'[m] = disk[m]
  BY <1>1, OneDisk
<1>3. mem'[n] = q /\ \A m \in Node \ {n} : mem'[m] = mem[m]
  BY <1>1, OneProcess
<1>4. \A m \in Node : AskerOK(m)'
  BY <1>3 DEF CInv, AskerOK
<1>5. MemoryOK'
  <2>1. \A m \in Node \ hasty' : top > 0 /\ Keeps(disk[m], top - 1) => Keeps(disk'[m], top - 1)
    BY <1>2
  <2>2. \A m \in voted : top \in disk[m].log => top \in disk'[m].log
    BY <1>1, <1>2 DEF StateOK
  <2>. QED  BY <1>1, <2>1, <2>2, MemoryMoves
<1>6. /\ top' \in Instances /\ top <= top' /\ voted' \subseteq Node /\ hasty' \subseteq Node
      /\ q.now <= top'
  BY <1>1, Bounds DEF StateOK, Instances
<1>. QED  BY <1>4, <1>5, <1>6, LocalStep

LEMMA KeepsSame ==
  ASSUME NEW d \in Disks, NEW e \in Disks, NEW i \in Nat, e.log = d.log,
         e.promise = d.promise, d.cp <= e.cp, Keeps(d, i)
  PROVE  Keeps(e, i)
<1>1. Records(e) = Records(d)
  BY DEF Records
<1>2. d.cp \in Nat /\ e.cp \in Nat
  BY Bounds DEF Disks, Instances
<1>. QED  BY <1>1, <1>2, StartAbove DEF Keeps

LEMMA PromiseStep ==
  ASSUME CInv, NEW n \in Node, Promise(n)
  PROVE  CInv'
<1> DEFINE d == disk[n]
           p == mem[n]
           e == [d EXCEPT !.promise = {p.now}]
<1>1. /\ p.asking /\ faults < MaxFaults /\ p.now \notin d.log
      /\ disk' = [disk EXCEPT ![n] = e] /\ mem' = mem /\ faults' = faults + 1
      /\ tainted' = (IF Unloaded(n) THEN tainted \cup {n} ELSE tainted)
      /\ UNCHANGED <<sender, msgs, sessions, top, voted, hasty>>
  BY DEF Promise, Tainted
<1>2. /\ StateOK /\ d \in Disks /\ p \in Processes /\ Within(d, p.now) /\ p.now <= top
      /\ MemoryOK /\ d.parts = Whole(d.cp) /\ top \in Nat /\ p.now \in Nat
      /\ PassOK(d, p)
      /\ n \notin tainted => Clean(d, p)
      /\ mem = [mem EXCEPT ![n] = p]
  BY NodeFacts, Bounds
<1>3. /\ e.log = d.log /\ e.promise = {p.now} /\ e.min = d.min /\ e.cp = d.cp
      /\ e.parts = d.parts /\ e.tmp = d.tmp
  BY <1>2 DEF Disks
<1>4. e \in Disks
  <2>1. p.now \in Instances
    BY <1>2 DEF Processes
  <2>. QED  BY <2>1, <1>2 DEF Disks
<1> HIDE DEF d, p, e
<1>5. Within(e, p.now) /\ p.now \in Records(e) /\ PassOK(e, p)
  <2>1. PassOK(e, p)
    BY <1>2, <1>3, <1>4, NodeTypes, PassSame
  <2>. QED  BY <2>1, <1>2, <1>3 DEF Within, Records
<1>6. top > 0 /\ Keeps(d, top - 1) => Keeps(e, top - 1)
  <2>1. ASSUME top > 0, Keeps(d, top - 1) PROVE Keeps(e, top - 1)
    <3>1. top - 1 \in Nat /\ d.log \subseteq e.log
      BY <1>2, <1>3, <2>1
    <3>. QED  BY <2>1, <3>1, <1>2, <1>3, <1>4, <1>5, WriteKeeps
  <2>. QED  BY <2>1
<1>7. n \notin tainted' => Clean(e, p)
  <2>1. n \notin tainted' => n \notin tainted /\ ~Pending(d, p)
    BY <1>1 DEF Unloaded, Pending, d, p
  <2>. QED  BY <2>1, <1>1, <1>2, <1>3, <1>4, CleanPromise
<1>8. tainted \subseteq tainted' /\ tainted' \subseteq Node /\ faults' \in 0 .. MaxFaults
  BY <1>1, <1>2, Bounds DEF StateOK
<1>9. /\ e.tmp = disk[n].tmp /\ p.rcv = mem[n].rcv /\ p.pull = mem[n].pull
      /\ e.cp = disk[n].cp /\ e.parts = Whole(e.cp)
      /\ p.asking => mem[n].asking /\ p.now = mem[n].now
      /\ top > 0 /\ Keeps(disk[n], top - 1) => Keeps(e, top - 1)
      /\ top \in disk[n].log => top \in e.log
  BY <1>2, <1>3, <1>6 DEF d, p
<1>. QED  BY <1>1, <1>2, <1>4, <1>5, <1>7, <1>8, <1>9, QuietStep

LEMMA LearnOwnStep ==
  ASSUME CInv, NEW n \in Node, LearnOwn(n)
  PROVE  CInv'
<1> DEFINE d == disk[n]
           p == mem[n]
           q == [p EXCEPT !.now = @ + 1]
<1>1. /\ ~p.asking /\ p.now < top /\ p.now \in d.log
      /\ mem' = [mem EXCEPT ![n] = q] /\ disk' = disk
      /\ UNCHANGED <<sender, msgs, sessions, top, voted, tainted, hasty, faults>>
  BY DEF LearnOwn, NextInstance
<1>2. /\ StateOK /\ d \in Disks /\ p \in Processes /\ Within(d, p.now) /\ p.now <= top
      /\ d.parts = Whole(d.cp) /\ top \in 0 .. LastInstance /\ p.now \in Nat
      /\ PassOK(d, p)
      /\ n \notin tainted => Clean(d, p)
      /\ disk = [disk EXCEPT ![n] = d]
  BY NodeFacts, Bounds
<1>3. /\ q.now = p.now + 1 /\ q.up = p.up /\ q.min = p.min /\ q.lastSave = p.lastSave
      /\ q.pull = p.pull /\ q.rcv = p.rcv /\ q.asking = p.asking /\ q.todo = p.todo
  BY <1>2 DEF Processes
<1>4. q \in Processes
  <2>1. p.now + 1 \in Instances
    BY <1>1, <1>2, Bounds DEF Instances
  <2>. QED  BY <2>1, <1>2 DEF Processes
<1> HIDE DEF d, p, q
<1>5. Within(d, q.now) /\ PassOK(d, q)
  <2>1. PassOK(d, q)
    BY <1>2, <1>3, <1>4, NodeTypes, PassSame
  <2>. QED  BY <2>1, <1>2, <1>3, NodeTypes DEF Within
<1>6. q.now <= top
  BY <1>1, <1>2, <1>3, Bounds
<1>7. n \notin tainted => Clean(d, q)
  BY <1>1, <1>2, <1>3, <1>4, CleanLearn
<1>8. tainted \subseteq tainted' /\ tainted' \subseteq Node /\ faults' \in 0 .. MaxFaults
  BY <1>1, <1>2, Bounds DEF StateOK
<1>9. /\ d.tmp = disk[n].tmp /\ q.rcv = mem[n].rcv /\ q.pull = mem[n].pull
      /\ d.cp = disk[n].cp /\ d.parts = Whole(d.cp)
      /\ q.asking => mem[n].asking /\ q.now = mem[n].now
      /\ top > 0 /\ Keeps(disk[n], top - 1) => Keeps(d, top - 1)
      /\ top \in disk[n].log => top \in d.log
  BY <1>1, <1>2, <1>3 DEF d, p
<1>. QED  BY <1>1, <1>2, <1>4, <1>5, <1>6, <1>7, <1>8, <1>9, QuietStep

LEMMA LearnFromStep ==
  ASSUME CInv, NEW n \in Node, NEW k \in Node, LearnFrom(n, k)
  PROVE  CInv'
<1> DEFINE d == disk[n]
           p == mem[n]
           e == [d EXCEPT !.log = @ \cup {p.now}, !.promise = {}]
           q == [p EXCEPT !.now = @ + 1]
<1>1. /\ ~p.asking /\ p.now < mem[k].now
      /\ mem' = [mem EXCEPT ![n] = q] /\ disk' = [disk EXCEPT ![n] = e]
      /\ tainted' = (IF Unloaded(n) THEN tainted \cup {n} ELSE tainted)
      /\ UNCHANGED <<sender, msgs, sessions, top, voted, hasty, faults>>
  BY DEF LearnFrom, NextInstance, Tainted
<1>2. /\ StateOK /\ d \in Disks /\ p \in Processes /\ Within(d, p.now) /\ p.now <= top
      /\ d.parts = Whole(d.cp) /\ top \in 0 .. LastInstance /\ p.now \in Nat
      /\ PassOK(d, p)
      /\ n \notin tainted => Clean(d, p)
      /\ mem[k].now \in Nat /\ mem[k].now <= top
  BY NodeFacts, Bounds
<1>3. /\ q.now = p.now + 1 /\ q.up = p.up /\ q.min = p.min /\ q.lastSave = p.lastSave
      /\ q.pull = p.pull /\ q.rcv = p.rcv /\ q.asking = p.asking /\ q.todo = p.todo
  BY <1>2 DEF Processes
<1>4. /\ e.log = d.log \cup {p.now} /\ e.promise = {} /\ e.min = d.min /\ e.cp = d.cp
      /\ e.parts = d.parts /\ e.tmp = d.tmp
  BY <1>2 DEF Disks
<1>5. q \in Processes
  <2>1. p.now + 1 \in Instances
    BY <1>1, <1>2, Bounds DEF Instances
  <2>. QED  BY <2>1, <1>2 DEF Processes
<1>6. e \in Disks
  <2>1. p.now \in Instances
    BY <1>2 DEF Processes
  <2>. QED  BY <2>1, <1>2 DEF Disks
<1> HIDE DEF d, p, e, q
<1>7. /\ Within(e, q.now) /\ Within(e, p.now) /\ p.now \in Records(e)
      /\ PassOK(e, p) /\ PassOK(e, q)
  <2>1. Within(e, p.now) /\ p.now \in Records(e)
    BY <1>2, <1>4 DEF Within, Records
  <2>2. PassOK(e, p) /\ PassOK(e, q)
    BY <1>2, <1>3, <1>4, <1>5, <1>6, NodeTypes, PassSame
  <2>. QED  BY <2>1, <2>2, <1>3, <1>2, <1>6, NodeTypes DEF Within
<1>8. q.now <= top
  BY <1>1, <1>2, <1>3, Bounds
<1>9. top > 0 /\ Keeps(d, top - 1) => Keeps(e, top - 1)
  <2>1. ASSUME top > 0, Keeps(d, top - 1) PROVE Keeps(e, top - 1)
    <3>1. top - 1 \in Nat /\ d.log \subseteq e.log
      BY <1>2, <1>4, <2>1, Bounds
    <3>. QED  BY <2>1, <3>1, <1>2, <1>4, <1>6, <1>7, WriteKeeps
  <2>. QED  BY <2>1
<1>10. n \notin tainted' => Clean(e, q)
  <2>1. n \notin tainted' => n \notin tainted /\ ~Pending(d, p)
    BY <1>1 DEF Unloaded, Pending, d, p
  <2>2. n \notin tainted' => Clean(e, p)
    BY <2>1, <1>2, <1>4, <1>6, CleanVote
  <2>3. p.now \in e.log
    BY <1>4
  <2>. QED  BY <2>2, <2>3, <1>2, <1>3, <1>5, <1>6, <1>7, CleanLearn
<1>11. tainted \subseteq tainted' /\ tainted' \subseteq Node /\ faults' \in 0 .. MaxFaults
  BY <1>1, <1>2, Bounds DEF StateOK
<1>12. /\ e.tmp = disk[n].tmp /\ q.rcv = mem[n].rcv /\ q.pull = mem[n].pull
       /\ e.cp = disk[n].cp /\ e.parts = Whole(e.cp)
       /\ q.asking => mem[n].asking /\ q.now = mem[n].now
       /\ top > 0 /\ Keeps(disk[n], top - 1) => Keeps(e, top - 1)
       /\ top \in disk[n].log => top \in e.log
  BY <1>1, <1>2, <1>3, <1>4, <1>9 DEF d, p
<1>. QED  BY <1>1, <1>5, <1>6, <1>7, <1>8, <1>10, <1>11, <1>12, QuietStep

LEMMA WholeIsBlocks ==
  ASSUME NEW c \in Instances
  PROVE  Whole(c) \in Blocks
BY Bounds DEF Whole, Blocks, FileCount

LEMMA PlayOneStep ==
  ASSUME CInv, NEW n \in Node, PlayOne(n)
  PROVE  CInv'
<1> DEFINE d == disk[n]
           p == mem[n]
           e == [d EXCEPT !.cp = d.cp + 1, !.parts = Whole(d.cp + 1)]
<1>1. /\ sender[n] = NoSender /\ d.cp < p.now /\ d.cp \in d.log
      /\ disk' = [disk EXCEPT ![n] = e] /\ mem' = mem
      /\ UNCHANGED <<sender, msgs, sessions, top, voted, tainted, hasty, faults>>
  BY DEF PlayOne
<1>2. /\ StateOK /\ d \in Disks /\ p \in Processes /\ Within(d, p.now) /\ p.now <= top
      /\ top \in Nat /\ p.now \in Nat /\ p.now <= LastInstance
      /\ PassOK(d, p)
      /\ n \notin tainted => Clean(d, p)
      /\ mem = [mem EXCEPT ![n] = p]
  BY NodeFacts, Bounds
<1>3. /\ e.log = d.log /\ e.promise = d.promise /\ e.min = d.min /\ e.cp = d.cp + 1
      /\ e.parts = Whole(e.cp) /\ e.tmp = d.tmp
  BY <1>2 DEF Disks
<1>4. e \in Disks
  <2>1. d.cp + 1 \in Instances
    BY <1>1, <1>2, Bounds, NodeTypes DEF Instances
  <2>2. Whole(d.cp + 1) \in Blocks
    BY <2>1, WholeIsBlocks
  <2>. QED  BY <2>1, <2>2, <1>2 DEF Disks
<1> HIDE DEF d, p, e
<1>5. Within(e, p.now) /\ d.cp <= e.cp /\ PassOK(e, p)
  <2>1. Records(e) = Records(d) /\ d.cp <= e.cp
    BY <1>2, <1>3, NodeTypes DEF Records
  <2>2. PassOK(e, p)
    BY <2>1, <1>2, <1>4, NodeTypes, PassSame
  <2>. QED  BY <2>1, <2>2, <1>1, <1>2, <1>3, NodeTypes DEF Within
<1>6. top > 0 /\ Keeps(d, top - 1) => Keeps(e, top - 1)
  <2>1. top > 0 => top - 1 \in Nat
    BY <1>2
  <2>. QED  BY <2>1, <1>2, <1>3, <1>4, <1>5, KeepsSame
<1>7. n \notin tainted' => Clean(e, p)
  BY <1>1, <1>2, <1>3, <1>4, CleanPlay
<1>8. tainted \subseteq tainted' /\ tainted' \subseteq Node /\ faults' \in 0 .. MaxFaults
  BY <1>1, <1>2, Bounds DEF StateOK
<1>9. /\ e.tmp = disk[n].tmp /\ p.rcv = mem[n].rcv /\ p.pull = mem[n].pull
      /\ p.asking => mem[n].asking /\ p.now = mem[n].now
      /\ top > 0 /\ Keeps(disk[n], top - 1) => Keeps(e, top - 1)
      /\ top \in disk[n].log => top \in e.log
  BY <1>2, <1>3, <1>6 DEF d, p
<1>. QED  BY <1>1, <1>2, <1>3, <1>4, <1>5, <1>7, <1>8, <1>9, QuietStep

\* What is deleted is below what is still needed.
LEMMA KeepsAboveDeleted ==
  ASSUME NEW d \in Disks, NEW e \in Disks, NEW i \in Nat, NEW j \in Nat, i < j,
         e.log = d.log \ {i}, e.promise = d.promise, e.cp = d.cp, Keeps(d, j)
  PROVE  Keeps(e, j)
<1>1. \A r \in Records(d) : r # i => r \in Records(e)
  BY DEF Records
<1>2. CASE j \in d.log
  BY <1>2 DEF Keeps
<1>3. CASE NowAtStart(d) > j
  <2>1. d.cp > j \/ \E r \in Records(d) : r > j
    BY <1>3, StartAbove
  <2>2. e.cp > j \/ \E r \in Records(e) : r > j
    BY <2>1, <1>1, NodeTypes
  <2>. QED  BY <2>2, StartAbove DEF Keeps
<1>. QED  BY <1>2, <1>3 DEF Keeps

LEMMA CleanerPassStep ==
  ASSUME CInv, NEW n \in Node, CleanerPass(n)
  PROVE  CInv'
<1> DEFINE d == disk[n]
           p == mem[n]
           pass == {i \in p.min .. p.now : MayDelete(n, i)}
           q == [p EXCEPT !.todo = pass]
<1>1. /\ mem' = [mem EXCEPT ![n] = q] /\ disk' = disk
      /\ UNCHANGED <<sender, msgs, sessions, top, voted, tainted, hasty, faults>>
  BY DEF CleanerPass
<1>2. /\ StateOK /\ d \in Disks /\ p \in Processes /\ Within(d, p.now) /\ p.now <= top
      /\ d.parts = Whole(d.cp) /\ p.now <= LastInstance
      /\ n \notin tainted => Clean(d, p)
      /\ disk = [disk EXCEPT ![n] = d]
  BY NodeFacts
<1>3. pass = {i \in p.min .. p.now : i + HoldCount < d.cp /\ i + HoldCount < p.now}
  BY DEF MayDelete
<1>4. /\ q.now = p.now /\ q.up = p.up /\ q.min = p.min /\ q.lastSave = p.lastSave
      /\ q.pull = p.pull /\ q.rcv = p.rcv /\ q.asking = p.asking /\ q.todo = pass
  BY <1>2 DEF Processes
<1>5. q \in Processes
  <2>1. pass \in SUBSET Instances
    BY <1>2, NodeTypes, Bounds DEF Instances
  <2> HIDE DEF pass
  <2>. QED  BY <2>1, <1>2 DEF Processes
<1> HIDE DEF d, p, q, pass
<1>6. PassOK(d, q) /\ (n \notin tainted => Clean(d, q))
  <2>1. PassOK(d, q)
    BY <1>3, <1>4 DEF PassOK
  <2>. QED  BY <2>1, <1>2, <1>3, <1>4, <1>5, CleanPass
<1>7. tainted \subseteq tainted' /\ tainted' \subseteq Node /\ faults' \in 0 .. MaxFaults
  BY <1>1, <1>2, Bounds DEF StateOK
<1>8. /\ d.tmp = disk[n].tmp /\ q.rcv = mem[n].rcv /\ (mem[n].pull # "none" => q.pull # "none")
      /\ d.cp = disk[n].cp /\ d.parts = Whole(d.cp) /\ q.now <= top /\ Within(d, q.now)
      /\ q.asking => mem[n].asking /\ q.now = mem[n].now
      /\ top > 0 /\ Keeps(disk[n], top - 1) => Keeps(d, top - 1)
      /\ top \in disk[n].log => top \in d.log
  BY <1>1, <1>2, <1>4 DEF d, p
<1>. QED  BY <1>1, <1>2, <1>4, <1>5, <1>6, <1>7, <1>8, QuietStep

LEMMA DeleteOneStep ==
  ASSUME CInv, NEW n \in Node, DeleteOne(n)
  PROVE  CInv'
<1>0. PICK i \in mem[n].todo :
         LET min == IF SavesMin(n, i) THEN i + 1 ELSE i
         IN /\ mem[n].up /\ \A j \in mem[n].todo : i <= j
            /\ disk' = [disk EXCEPT ![n].log = @ \ {i},
                                    ![n].min = IF SavesMin(n, i) THEN min ELSE @]
            /\ mem' = [mem EXCEPT ![n].todo = @ \ {i}, ![n].min = min,
                                  ![n].lastSave = IF SavesMin(n, i) THEN i ELSE @,
                                  ![n].pull = PullAfterDelete(n)]
            /\ UNCHANGED <<sender, msgs, sessions, top, voted, tainted, hasty, faults>>
  BY DEF DeleteOne
<1> DEFINE d == disk[n]
           p == mem[n]
           pull == PullAfterDelete(n)
           saves == i >= p.lastSave + SaveInterval
           low == IF saves THEN i + 1 ELSE i
           e == [d EXCEPT !.log = @ \ {i}, !.min = IF saves THEN low ELSE @]
           q == [p EXCEPT !.todo = @ \ {i}, !.min = low,
                          !.lastSave = IF saves THEN i ELSE @, !.pull = pull]
<1>1. /\ \A j \in p.todo : i <= j
      /\ disk' = [disk EXCEPT ![n] = e] /\ mem' = [mem EXCEPT ![n] = q]
      /\ UNCHANGED <<sender, msgs, sessions, top, voted, tainted, hasty, faults>>
  BY <1>0 DEF SavesMin
<1>2. /\ StateOK /\ d \in Disks /\ p \in Processes /\ Within(d, p.now) /\ p.now <= top
      /\ top \in Nat /\ p.now \in Nat /\ p.now <= LastInstance /\ d.parts = Whole(d.cp)
      /\ PassOK(d, p)
      /\ n \notin tainted => Clean(d, p)
      /\ d.cp \in Nat /\ d.min \in Nat /\ p.min \in Nat /\ p.lastSave \in Nat
      /\ d.cp <= p.now
  BY NodeFacts, NodeTypes, Bounds
<1>3. /\ i + HoldCount < d.cp /\ i + HoldCount < p.now
      /\ i \in Nat /\ i \in Instances /\ low \in {i, i + 1}
      /\ HoldCount \in Nat /\ HoldCount >= 1 /\ LastInstance \in Nat
      /\ TooLarge \in Nat /\ TooLarge = LastInstance + 2
  BY <1>0, <1>2, Bounds DEF PassOK, Processes, Instances
<1>4. i + 1 < p.now /\ low \in 0 .. TooLarge
  BY <1>2, <1>3
<1> HIDE DEF low, pull
<1>5. /\ e.log = d.log \ {i} /\ e.promise = d.promise /\ e.cp = d.cp
      /\ e.min = (IF saves THEN low ELSE d.min)
      /\ e.parts = d.parts /\ e.tmp = d.tmp
  BY <1>2 DEF Disks
<1>6. /\ q.now = p.now /\ q.up = p.up /\ q.min = low /\ q.asking = p.asking
      /\ q.lastSave = (IF saves THEN i ELSE p.lastSave)
      /\ q.pull = pull /\ q.rcv = p.rcv /\ q.todo = p.todo \ {i}
  BY <1>2 DEF Processes
<1>7. e \in Disks
  <2>1. (IF saves THEN low ELSE d.min) \in 0 .. TooLarge
    BY <1>2, <1>4 DEF Disks
  <2>. QED  BY <2>1, <1>2 DEF Disks
<1>8. q \in Processes
  <2>1. (IF saves THEN i ELSE p.lastSave) \in Instances
    BY <1>2, <1>3 DEF Processes
  <2>2. pull \in {"none", "further", "overrun", "stale"} /\ p.todo \ {i} \in SUBSET Instances
    BY <1>2 DEF Processes, PullAfterDelete, pull, p
  <2>. QED  BY <2>1, <2>2, <1>2, <1>4 DEF Processes
<1> HIDE DEF d, p, e, q
<1>9. Within(e, q.now) /\ PassOK(e, q)
  <2>1. Records(e) \subseteq Records(d)
    BY <1>5 DEF Records
  <2>2. PassOK(e, q)
    BY <1>2, <1>5, <1>6, <1>7, <1>8, NodeTypes, PassSame
  <2>. QED  BY <2>1, <2>2, <1>2, <1>5, <1>6 DEF Within
<1>10. top > 0 /\ Keeps(d, top - 1) => Keeps(e, top - 1)
  <2>1. top > 0 => top - 1 \in Nat /\ i < top - 1
    BY <1>2, <1>3, <1>4
  <2>. QED  BY <2>1, <1>2, <1>3, <1>5, <1>7, KeepsAboveDeleted
<1>11. n \notin tainted' => Clean(e, q)
  <2>1. n \notin tainted => pull = IF p.pull = "further" THEN "overrun" ELSE p.pull
    BY DEF PullAfterDelete, pull, p
  <2>2. IF i >= p.lastSave + SaveInterval
          THEN q.min = i + 1 /\ e.min = i + 1 /\ q.lastSave = i
          ELSE q.min = i /\ e.min = d.min /\ q.lastSave = p.lastSave
    BY <1>5, <1>6 DEF low
  <2>. QED  BY <2>1, <2>2, <1>0, <1>1, <1>2, <1>5, <1>6, <1>7, <1>8, CleanDelete DEF p
<1>12. tainted \subseteq tainted' /\ tainted' \subseteq Node /\ faults' \in 0 .. MaxFaults
  BY <1>1, <1>2, Bounds DEF StateOK
<1>13. /\ e.tmp = disk[n].tmp /\ q.rcv = mem[n].rcv
       /\ mem[n].pull # "none" => q.pull # "none"
       /\ e.cp = disk[n].cp /\ e.parts = Whole(e.cp) /\ q.now <= top
       /\ q.asking => mem[n].asking /\ q.now = mem[n].now
       /\ top > 0 /\ Keeps(disk[n], top - 1) => Keeps(e, top - 1)
       /\ top \in disk[n].log => top \in e.log
  BY <1>2, <1>3, <1>4, <1>5, <1>6, <1>10 DEF d, p, pull, PullAfterDelete
<1>. QED  BY <1>1, <1>7, <1>8, <1>9, <1>11, <1>12, <1>13, QuietStep

LEMMA NoopStep ==
  ASSUME CInv, NEW n \in Node, AskforLearn_Noop(n)
  PROVE  CInv'
<1> DEFINE d == disk[n]
           p == mem[n]
           q == [p EXCEPT !.asking = FALSE]
<1>1. /\ mem' = [mem EXCEPT ![n] = q] /\ disk' = disk
      /\ UNCHANGED <<sender, msgs, sessions, top, voted, tainted, hasty, faults>>
  BY DEF AskforLearn_Noop
<1>2. /\ StateOK /\ d \in Disks /\ p \in Processes /\ Within(d, p.now) /\ p.now <= top
      /\ d.parts = Whole(d.cp)
      /\ PassOK(d, p)
      /\ n \notin tainted => Clean(d, p)
      /\ disk = [disk EXCEPT ![n] = d]
  BY NodeFacts, Bounds
<1>3. /\ q.now = p.now /\ q.up = p.up /\ q.min = p.min /\ q.lastSave = p.lastSave
      /\ q.pull = p.pull /\ q.rcv = p.rcv /\ q.asking = FALSE /\ q.todo = p.todo
      /\ q \in Processes
  BY <1>2 DEF Processes
<1> HIDE DEF d, p, q
<1>4. (n \notin tainted => Clean(d, q)) /\ PassOK(d, q)
  BY <1>2, <1>3, CleanSame, PassSame, NodeTypes
<1>5. tainted \subseteq tainted' /\ tainted' \subseteq Node /\ faults' \in 0 .. MaxFaults
  BY <1>1, <1>2, Bounds DEF StateOK
<1>6. /\ d.tmp = disk[n].tmp /\ q.rcv = mem[n].rcv /\ q.pull = mem[n].pull
      /\ d.cp = disk[n].cp /\ d.parts = Whole(d.cp) /\ q.now <= top /\ Within(d, q.now)
      /\ q.asking => mem[n].asking /\ q.now = mem[n].now
      /\ top > 0 /\ Keeps(disk[n], top - 1) => Keeps(d, top - 1)
      /\ top \in disk[n].log => top \in d.log
  BY <1>1, <1>2, <1>3 DEF d, p
<1>. QED  BY <1>1, <1>2, <1>3, <1>4, <1>5, <1>6, QuietStep

-----------------------------------------------------------------------------
(* Requests and senders.                                                    *)

LEMMA MessageFacts ==
  ASSUME StateOK
  PROVE  /\ Parts \subseteq FileMessages /\ Asks \subseteq AskMessages
         /\ IsFiniteSet(Asks) /\ Cardinality(Asks) \in Nat /\ IsFiniteSet(msgs)
         /\ \A c \in Parts : c.uuid \in Nat /\ c.uuid # 0 /\ c.cp \in Nat /\ c.cp \in Instances
                             /\ c.seq \in Nat /\ c.file \in Nat /\ c.to \in Node /\ c.from \in Node
<1>1. Parts \subseteq FileMessages /\ Asks \subseteq AskMessages /\ Asks \subseteq msgs
  BY DEF StateOK, Parts, Asks, AskMessages, FileMessages
<1>2. IsFiniteSet(Asks) /\ Cardinality(Asks) \in Nat /\ IsFiniteSet(msgs)
  BY <1>1, FS_Subset, FS_CardinalityType DEF StateOK
<1>3. \A c \in FileMessages : c.uuid \in Nat /\ c.uuid # 0 /\ c.cp \in Nat /\ c.cp \in Instances
                             /\ c.seq \in Nat /\ c.file \in Nat /\ c.to \in Node /\ c.from \in Node
  BY Bounds DEF FileMessages, Instances
<1>. QED  BY <1>1, <1>2, <1>3

LEMMA FewerMessages ==
  ASSUME StateOK, msgs' \subseteq msgs, sessions' = sessions
  PROVE  /\ msgs' \subseteq AskMessages \cup FileMessages /\ IsFiniteSet(msgs')
         /\ Parts' \subseteq Parts /\ Asks' \subseteq Asks
         /\ sessions' + Cardinality(Asks') <= MaxSessions
<1>1. Parts' \subseteq Parts /\ Asks' \subseteq Asks
  BY DEF Parts, Asks
<1>2. IsFiniteSet(Asks') /\ Cardinality(Asks') <= Cardinality(Asks) /\ IsFiniteSet(msgs')
      /\ Cardinality(Asks') \in Nat /\ Cardinality(Asks) \in Nat
  BY <1>1, MessageFacts, FS_Subset, FS_CardinalityType
<1>3. sessions + Cardinality(Asks) <= MaxSessions /\ sessions \in Nat
  BY DEF StateOK
<1>4. sessions' + Cardinality(Asks') <= MaxSessions
  BY <1>2, <1>3, Bounds
<1>. QED  BY <1>1, <1>2, <1>4 DEF StateOK

LEMMA AskStep ==
  ASSUME CInv, NEW n \in Node, NEW k \in Node, AskforCheckpoint(n, k)
  PROVE  CInv'
<1> DEFINE p == mem[n]
           q == [p EXCEPT !.asking = TRUE]
           a == Ask(n, k)
<1>1. /\ p.now < mem[k].now /\ mem' = [mem EXCEPT ![n] = q]
      /\ sessions + Cardinality(Asks) < MaxSessions
      /\ msgs' = msgs \cup {a}
      /\ hasty' = (IF p.now + 1 = top THEN hasty \cup {n} ELSE hasty)
      /\ UNCHANGED <<disk, sender, sessions, top, voted, tainted, faults>>
  BY DEF AskforCheckpoint, Asks
<1>2. /\ StateOK /\ p \in Processes /\ mem[k].now \in Nat /\ mem[k].now <= top /\ p.now \in Nat
      /\ n \notin tainted => Clean(disk[n], p)
      /\ top \in Nat /\ MemoryOK /\ SessionsOK
  BY NodeFacts DEF CInv
<1>3. /\ q.now = p.now /\ q.up = p.up /\ q.min = p.min /\ q.lastSave = p.lastSave
      /\ q.pull = p.pull /\ q.rcv = p.rcv /\ q.asking = TRUE /\ q.todo = p.todo
      /\ q \in Processes
  BY <1>2 DEF Processes
<1>4. a \in AskMessages /\ a.type = "ask" /\ Asks' = Asks \cup {a} /\ Parts' = Parts
  BY <1>1 DEF Ask, AskMessages, Asks, Parts
<1> HIDE DEF p, q, a
<1>5. mem' \in [Node -> Processes] /\ mem'[n] = q /\ \A m \in Node \ {n} : mem'[m] = mem[m]
  BY <1>1, <1>2, <1>3, OneProcess
<1>6. /\ IsFiniteSet(msgs') /\ msgs' \subseteq AskMessages \cup FileMessages
      /\ sessions' + Cardinality(Asks') <= MaxSessions
  <2>1. IsFiniteSet(Asks) /\ Cardinality(Asks) \in Nat /\ IsFiniteSet(msgs)
    BY <1>2, MessageFacts
  <2>2. Cardinality(Asks \cup {a}) \in {Cardinality(Asks), Cardinality(Asks) + 1}
    BY <2>1, FS_AddElement
  <2>3. IsFiniteSet(msgs \cup {a})
    BY <2>1, FS_AddElement
  <2>4. sessions \in Nat /\ MaxSessions \in Nat
    BY <1>2, Bounds DEF StateOK
  <2>. QED  BY <2>1, <2>2, <2>3, <2>4, <1>1, <1>2, <1>4 DEF StateOK
<1>7. hasty \subseteq hasty' /\ hasty' \subseteq Node
  BY <1>1, <1>2 DEF StateOK
<1>8. StateOK'
  BY <1>1, <1>2, <1>5, <1>6, <1>7 DEF StateOK
<1>9. \A m \in Node : PositionOK(m)'
  <2>1. \A m \in Node : mem'[m].now = mem[m].now /\ mem'[m].todo = mem[m].todo
    BY <1>3, <1>5 DEF p
  <2>. QED  BY <2>1, <1>1 DEF CInv, PositionOK, PassOK
<1>10. SessionsOK'
  <2>1. \A m \in Node : mem'[m].rcv = mem[m].rcv /\ mem'[m].pull = mem[m].pull
    BY <1>3, <1>5 DEF p
  <2>2. \A c \in Parts : MessageOK(c)'
    BY <1>1, <1>2 DEF SessionsOK, MessageOK
  <2>. QED  BY <2>1, <2>2, <1>1, <1>2, <1>4 DEF SessionsOK
<1>11. LoadedWhole'
  BY <1>1 DEF CInv, LoadedWhole
<1>12. \A m \in Node : AskerOK(m)'
  <2>1. ASSUME NEW m \in Node \ {n} PROVE AskerOK(m)'
    BY <1>1, <1>5, <1>7 DEF CInv, AskerOK
  <2>2. AskerOK(n)'
    BY <1>1, <1>2, <1>3, <1>5 DEF AskerOK
  <2>. QED  BY <2>1, <2>2
<1>13. MemoryOK'
  BY <1>1, <1>2, <1>7, MemoryMoves
<1>14. \A m \in Node : m \notin tainted' => Clean(disk'[m], mem'[m])
  <2>1. n \notin tainted => Clean(disk[n], q)
    <3>1. disk[n] \in Disks
      BY NodeFacts
    <3>. QED  BY <3>1, <1>2, <1>3, CleanSame
  <2>. QED  BY <2>1, <1>1, <1>5 DEF CInv
<1>. QED  BY <1>8, <1>9, <1>10, <1>11, <1>12, <1>13, <1>14 DEF CInv

\* A session begins with a uuid no message and no receiver has.
LEMMA OnAskStep ==
  ASSUME CInv, NEW x \in Node, OnAskforCheckpoint(x)
  PROVE  CInv'
<1>1. PICK a \in msgs :
         /\ a.type = "ask" /\ sender[x] = NoSender
         /\ sessions' = sessions + 1 /\ msgs' = msgs \ {a}
         /\ sender' = [sender EXCEPT ![x] = [NoSender EXCEPT !.to = a.from, !.uuid = sessions + 1]]
         /\ UNCHANGED <<disk, mem, top, voted, tainted, hasty, faults>>
  BY DEF OnAskforCheckpoint
<1> DEFINE s == [NoSender EXCEPT !.to = a.from, !.uuid = sessions + 1]
<1>2. StateOK /\ SessionsOK /\ sessions \in Nat
  BY DEF CInv, StateOK
<1>3. a \in AskMessages
  BY <1>1, <1>2, MessageFacts DEF Asks
<1>4. s.to = a.from /\ s.uuid = sessions + 1 /\ s.seq = 0 /\ s \in Senders
  <2>1. NoSender \in Senders /\ NoSender.seq = 0
    BY Bounds DEF NoSender, Senders
  <2>2. a.from \in Node \cup {NoNode} /\ sessions + 1 \in Nat
    BY <1>2, <1>3 DEF AskMessages
  <2>. QED  BY <2>1, <2>2 DEF Senders
<1> HIDE DEF s
<1>5. /\ sender' \in [Node -> Senders] /\ sender'[x] = s
      /\ \A y \in Node \ {x} : sender'[y] = sender[y]
  BY <1>1, <1>2, <1>4 DEF StateOK, s
<1>6. Parts' = Parts /\ Asks' = Asks \ {a} /\ a \in Asks
  BY <1>1 DEF Parts, Asks
<1>7. StateOK'
  <2>1. IsFiniteSet(Asks) /\ Cardinality(Asks) \in Nat /\ IsFiniteSet(msgs)
    BY <1>2, MessageFacts
  <2>2. Cardinality(Asks \ {a}) = Cardinality(Asks) - 1 /\ IsFiniteSet(msgs \ {a})
    BY <2>1, <1>6, FS_RemoveElement, FS_Subset
  <2>3. sessions' + Cardinality(Asks') <= MaxSessions
    BY <2>1, <2>2, <1>1, <1>2, <1>6, Bounds DEF StateOK
  <2>. QED  BY <2>2, <2>3, <1>1, <1>2, <1>5 DEF StateOK
<1>8. NoSender.uuid = 0 /\ \A y \in Node : sender[y].uuid \in Nat /\ sender[y].uuid <= sessions
  <2>1. NoSender.uuid = 0
    BY DEF NoSender
  <2>2. \A y \in Node : sender[y].uuid \in Nat
    BY <1>2 DEF StateOK, Senders
  <2>3. \A y \in Node : sender[y].uuid <= sessions
    BY <1>2, <2>1 DEF SessionsOK
  <2>. QED  BY <2>1, <2>2, <2>3
<1>9. \A n \in Node : mem[n].rcv.uuid \in Nat /\ disk[n].cp \in Instances
  BY <1>2 DEF StateOK, Processes, Receivers, Disks
<1>10. /\ \A c \in Parts : c.uuid \in Nat /\ c.uuid # 0
       /\ \A cp \in Instances : FileCount(cp) \in Nat
  BY <1>2, MessageFacts, Bounds DEF FileCount
<1>11. SessionsOK'
  <2>1. \A c \in Parts : MessageOK(c)'
    BY <1>1, <1>2, <1>10 DEF SessionsOK, MessageOK
  <2>2. \A c \in Parts : c.uuid # s.uuid
    BY <1>2, <1>4, <1>10 DEF SessionsOK, MessageOK
  <2>3. ASSUME NEW y \in Node
        PROVE  /\ sender'[y] # NoSender =>
                    /\ sender'[y].uuid \in 1 .. sessions' /\ sender'[y].to \in Node
                    /\ sender'[y].seq <= FileCount(disk[y].cp) + 1
               /\ \A c \in Parts : sender'[y].uuid = c.uuid => c.cp = disk[y].cp
               /\ \A z \in Node : y # z /\ sender'[y].uuid = sender'[z].uuid
                                    => sender'[y] = NoSender
    <3>1. CASE y = x
      <4>1. /\ s.uuid \in 1 .. sessions' /\ s.to \in Node /\ s.seq <= FileCount(disk[y].cp) + 1
        BY <1>1, <1>2, <1>3, <1>4, <1>9, <1>10 DEF AskMessages
      <4>2. \A z \in Node : y # z => s.uuid # sender[z].uuid
        BY <1>2, <1>4, <1>8
      <4>. QED  BY <4>1, <4>2, <2>2, <3>1, <1>5
    <3>2. CASE y # x
      <4>1. sender'[y] = sender[y] /\ sender[y].uuid # s.uuid
        BY <3>2, <1>2, <1>4, <1>5, <1>8
      <4>2. sender[y] # NoSender =>
                    /\ sender[y].uuid \in 1 .. sessions' /\ sender[y].to \in Node
                    /\ sender[y].seq <= FileCount(disk[y].cp) + 1
        BY <1>1, <1>2 DEF SessionsOK
      <4>3. /\ \A c \in Parts : sender[y].uuid = c.uuid => c.cp = disk[y].cp
            /\ \A z \in Node : y # z /\ sender[y].uuid = sender[z].uuid => sender[y] = NoSender
        BY <1>2 DEF SessionsOK
      <4>. QED  BY <4>1, <4>2, <4>3, <1>5
    <3>. QED  BY <3>1, <3>2
  <2>4. ASSUME NEW n \in Node
        PROVE  /\ mem[n].rcv.uuid <= sessions'
               /\ mem[n].rcv.uuid # 0 => mem[n].pull # "none"
               /\ \A c \in Parts : mem[n].rcv.uuid = c.uuid =>
                    disk[n].tmp = FirstBlocks(c.cp, mem[n].rcv.seq)
               /\ \A y \in Node : sender'[y] # NoSender /\ mem[n].rcv.uuid = sender'[y].uuid =>
                    disk[n].tmp = FirstBlocks(disk[y].cp, mem[n].rcv.seq)
    <3>1. mem[n].rcv.uuid <= sessions /\ mem[n].rcv.uuid # s.uuid
      BY <1>2, <1>4, <1>9 DEF SessionsOK
    <3>. QED  BY <3>1, <1>1, <1>2, <1>5, <1>9 DEF SessionsOK
  <2>5. \A c, d \in Parts : c.uuid = d.uuid => c.cp = d.cp
    BY <1>2 DEF SessionsOK
  <2>. QED  BY <2>1, <2>3, <2>4, <2>5, <1>1, <1>6 DEF SessionsOK
<1>. QED  BY <1>1, <1>7, <1>11, NetworkStep

\* A sender sends M and goes on as s.
LEMMA SenderMoves ==
  ASSUME CInv, NEW x \in Node, sender[x] # NoSender,
         NEW M \in SUBSET FileMessages, IsFiniteSet(M),
         \A c \in M : MessageOK(c) /\ c.uuid = sender[x].uuid /\ c.cp = disk[x].cp,
         NEW s \in Senders,
         \/ s = NoSender
         \/ /\ s.uuid = sender[x].uuid /\ s.to = sender[x].to
            /\ s.seq <= FileCount(disk[x].cp) + 1,
         msgs' = msgs \cup M, sender' = [sender EXCEPT ![x] = s],
         UNCHANGED <<disk, mem, sessions, top, voted, tainted, hasty, faults>>
  PROVE  CInv'
<1>1. StateOK /\ SessionsOK /\ sessions \in Nat
  BY DEF CInv, StateOK
<1>2. /\ sender' \in [Node -> Senders] /\ sender'[x] = s
      /\ \A y \in Node \ {x} : sender'[y] = sender[y]
  BY <1>1 DEF StateOK
<1>3. Parts' = Parts \cup M /\ Asks' = Asks
  BY DEF Parts, Asks, FileMessages
<1>4. StateOK'
  <2>1. IsFiniteSet(msgs \cup M)
    BY <1>1, FS_Union DEF StateOK
  <2>. QED  BY <2>1, <1>1, <1>2, <1>3 DEF StateOK
<1>5. NoSender.uuid = 0 /\ \A c \in Parts \cup M : c.uuid \in Nat /\ c.uuid # 0
  BY <1>1, MessageFacts DEF NoSender, FileMessages
<1>6. \A y \in Node : sender[y].uuid \in Nat
  BY <1>1 DEF StateOK, Senders
<1>7. /\ \A y \in Node : /\ sender[y] # NoSender =>
                              /\ sender[y].uuid \in 1 .. sessions /\ sender[y].to \in Node
                              /\ sender[y].seq <= FileCount(disk[y].cp) + 1
                         /\ \A c \in Parts : sender[y].uuid = c.uuid => c.cp = disk[y].cp
                         /\ \A z \in Node : y # z /\ sender[y].uuid = sender[z].uuid
                                            => sender[y] = NoSender
  BY <1>1 DEF SessionsOK
<1>8. ASSUME NEW y \in Node
      PROVE  /\ sender'[y] # NoSender =>
                  /\ sender'[y].uuid \in 1 .. sessions /\ sender'[y].to \in Node
                  /\ sender'[y].seq <= FileCount(disk[y].cp) + 1
             /\ \A c \in Parts \cup M : sender'[y].uuid = c.uuid => c.cp = disk[y].cp
             /\ \A z \in Node : y # z /\ sender'[y].uuid = sender'[z].uuid
                                => sender'[y] = NoSender
  <2>1. CASE y = x
    <3>1. /\ s # NoSender =>
               /\ s.uuid \in 1 .. sessions /\ s.to \in Node
               /\ s.seq <= FileCount(disk[x].cp) + 1
      BY <1>7
    <3>2. \A c \in Parts \cup M : s.uuid = c.uuid => c.cp = disk[x].cp
      BY <1>5, <1>7
    <3>3. \A z \in Node : x # z /\ s.uuid = sender[z].uuid => s = NoSender
      BY <1>7
    <3>. QED  BY <2>1, <3>1, <3>2, <3>3, <1>2
  <2>2. CASE y # x
    <3>1. sender'[y] = sender[y]
      BY <2>2, <1>2
    <3>2. \A c \in M : sender[y].uuid # c.uuid
      BY <2>2, <1>7
    <3>3. \A z \in Node : y # z /\ sender[y].uuid = sender'[z].uuid => sender[y] = NoSender
      <4>1. s.uuid = sender[y].uuid => sender[y] = NoSender
        BY <2>2, <1>5, <1>6, <1>7
      <4>. QED  BY <4>1, <1>2, <1>7
    <3>. QED  BY <3>1, <3>2, <3>3, <1>7
  <2>. QED  BY <2>1, <2>2
<1>9. ASSUME NEW n \in Node
      PROVE  /\ mem[n].rcv.uuid <= sessions
             /\ mem[n].rcv.uuid # 0 => mem[n].pull # "none"
             /\ \A c \in Parts \cup M : mem[n].rcv.uuid = c.uuid =>
                  disk[n].tmp = FirstBlocks(c.cp, mem[n].rcv.seq)
             /\ \A y \in Node : sender'[y] # NoSender /\ mem[n].rcv.uuid = sender'[y].uuid =>
                  disk[n].tmp = FirstBlocks(disk[y].cp, mem[n].rcv.seq)
  <2>1. /\ mem[n].rcv.uuid <= sessions
        /\ mem[n].rcv.uuid # 0 => mem[n].pull # "none"
        /\ \A c \in Parts : mem[n].rcv.uuid = c.uuid =>
             disk[n].tmp = FirstBlocks(c.cp, mem[n].rcv.seq)
        /\ \A y \in Node : sender[y] # NoSender /\ mem[n].rcv.uuid = sender[y].uuid =>
             disk[n].tmp = FirstBlocks(disk[y].cp, mem[n].rcv.seq)
    BY <1>1 DEF SessionsOK
  <2>2. \A c \in M : mem[n].rcv.uuid = c.uuid => disk[n].tmp = FirstBlocks(c.cp, mem[n].rcv.seq)
    BY <2>1
  <2>3. ASSUME NEW y \in Node, sender'[y] # NoSender, mem[n].rcv.uuid = sender'[y].uuid
        PROVE  disk[n].tmp = FirstBlocks(disk[y].cp, mem[n].rcv.seq)
    BY <2>1, <2>3, <1>2
  <2>. QED  BY <2>1, <2>2, <2>3
<1>10. SessionsOK'
  <2>1. \A c \in Parts \cup M : MessageOK(c)'
    BY <1>1 DEF SessionsOK, MessageOK
  <2>2. \A c, d \in Parts \cup M : c.uuid = d.uuid => c.cp = d.cp
    <3>1. \A c, d \in Parts : c.uuid = d.uuid => c.cp = d.cp
      BY <1>1 DEF SessionsOK
    <3>. QED  BY <3>1, <1>7
  <2>. QED  BY <2>1, <2>2, <1>3, <1>8, <1>9 DEF SessionsOK
<1>. QED  BY <1>4, <1>10, NetworkStep

LEMMA SendStep ==
  ASSUME CInv, NEW x \in Node, sender[x] # NoSender, NEW flag, NEW file, NEW s \in Senders,
         flag \in {"begin", "ing", "end"}, file \in 0 .. Files,
         flag = "begin" => sender[x].seq = 0,
         flag = "ing" => sender[x].seq = file /\ file \in 1 .. FileCount(disk[x].cp),
         flag = "end" => sender[x].seq = FileCount(disk[x].cp) + 1,
         \/ s = NoSender
         \/ /\ s.uuid = sender[x].uuid /\ s.to = sender[x].to
            /\ s.seq <= FileCount(disk[x].cp) + 1,
         Sends(x, flag, file, s)
  PROVE  CInv'
<1> DEFINE c == Sent(x, flag, file)
<1>1. /\ sender[x].uuid \in Nat \ {0} /\ sender[x].uuid <= sessions /\ sender[x].to \in Node
      /\ sender[x].seq \in 0 .. Files + 1
  <2>1. sender[x].uuid \in 1 .. sessions /\ sender[x].to \in Node /\ sessions \in Nat
    BY DEF CInv, SessionsOK, StateOK
  <2>2. sender[x].seq \in 0 .. Files + 1
    BY NodeFacts DEF Senders
  <2>. QED  BY <2>1, <2>2
<1>2. disk[x].cp \in Instances /\ disk[x].cp <= top
  <2>1. disk[x].cp \in Instances
    BY NodeFacts DEF Disks
  <2>2. disk[x].cp <= mem[x].now /\ mem[x].now <= top /\ mem[x].now \in Nat /\ top \in Nat
    BY NodeFacts
  <2>. QED  BY <2>1, <2>2, Bounds DEF Instances
<1>3. /\ c.type = "file" /\ c.flag = flag /\ c.uuid = sender[x].uuid /\ c.seq = sender[x].seq
      /\ c.cp = disk[x].cp /\ c.file = file
      /\ c \in FileMessages
  BY <1>1, <1>2 DEF Sent, FileMessages
<1>4. msgs' = msgs \cup {c} /\ sender' = [sender EXCEPT ![x] = s]
      /\ UNCHANGED <<disk, mem, sessions, top, voted, tainted, hasty, faults>>
  BY DEF Sends
<1> HIDE DEF c
<1>5. MessageOK(c)
  BY <1>1, <1>2, <1>3 DEF MessageOK
<1>6. IsFiniteSet({c})
  BY FS_Singleton
<1>. QED  BY <1>3, <1>4, <1>5, <1>6, SenderMoves

LEMMA SenderSteps ==
  ASSUME CInv, NEW x \in Node, SendBegin(x) \/ SendFile(x) \/ SendEnd(x) \/ GiveUp(x)
  PROVE  CInv'
<1> DEFINE s == sender[x]
<1>1. s \in Senders /\ s # NoSender /\ NoSender \in Senders
  BY NodeFacts, Bounds DEF SendBegin, SendFile, SendEnd, GiveUp, NoSender, Senders
<1>2. FileCount(disk[x].cp) \in 0 .. Files
  BY Bounds DEF FileCount
<1>3. CASE SendBegin(x)
  <2> DEFINE t == [s EXCEPT !.seq = 1]
  <2>1. t \in Senders /\ t.uuid = s.uuid /\ t.to = s.to /\ t.seq = 1
    BY <1>1, Bounds DEF Senders
  <2>2. s.seq = 0 /\ Sends(x, "begin", 0, t)
    BY <1>3 DEF SendBegin
  <2> HIDE DEF t
  <2>3. t.seq <= FileCount(disk[x].cp) + 1 /\ 0 \in 0 .. Files
    BY <2>1, <1>2, Bounds
  <2>. QED  BY <1>1, <2>1, <2>2, <2>3, SendStep
<1>4. CASE SendFile(x)
  <2> DEFINE t == [s EXCEPT !.seq = @ + 1]
  <2>1. s.seq \in 1 .. FileCount(disk[x].cp) /\ Sends(x, "ing", s.seq, t)
    BY <1>4 DEF SendFile
  <2>2. s.seq \in 0 .. Files /\ s.seq + 1 \in 0 .. Files + 1
        /\ s.seq + 1 <= FileCount(disk[x].cp) + 1
    BY <2>1, <1>2, Bounds
  <2>3. t \in Senders /\ t.uuid = s.uuid /\ t.to = s.to /\ t.seq = s.seq + 1
    BY <1>1, <2>2 DEF Senders
  <2> HIDE DEF t
  <2>. QED  BY <1>1, <2>1, <2>2, <2>3, SendStep
<1>5. CASE SendEnd(x)
  <2>1. s.seq = FileCount(disk[x].cp) + 1 /\ Sends(x, "end", 0, NoSender) /\ 0 \in 0 .. Files
    BY <1>5, Bounds DEF SendEnd
  <2>. QED  BY <1>1, <2>1, SendStep
<1>6. CASE GiveUp(x)
  <2>1. /\ msgs' = msgs \cup {} /\ sender' = [sender EXCEPT ![x] = NoSender]
        /\ UNCHANGED <<disk, mem, sessions, top, voted, tainted, hasty, faults>>
    BY <1>6 DEF GiveUp
  <2>2. {} \in SUBSET FileMessages /\ IsFiniteSet({})
    BY FS_EmptySet
  <2>. QED  BY <1>1, <2>1, <2>2, SenderMoves
<1>. QED  BY <1>3, <1>4, <1>5, <1>6

LEMMA LoseStep ==
  ASSUME CInv, NEW c \in msgs, Lose(c)
  PROVE  CInv'
<1>1. /\ msgs' \subseteq msgs
      /\ UNCHANGED <<disk, mem, sender, sessions, top, voted, tainted, hasty, faults>>
  BY DEF Lose
<1>2. StateOK /\ SessionsOK
  BY DEF CInv
<1>3. /\ msgs' \subseteq AskMessages \cup FileMessages /\ IsFiniteSet(msgs')
      /\ Parts' \subseteq Parts /\ sessions' + Cardinality(Asks') <= MaxSessions
  BY <1>1, <1>2, FewerMessages
<1>4. StateOK'
  BY <1>1, <1>2, <1>3 DEF StateOK
<1>5. SessionsOK'
  BY <1>1, <1>2, <1>3 DEF SessionsOK, MessageOK
<1>. QED  BY <1>1, <1>4, <1>5, NetworkStep

-----------------------------------------------------------------------------
(* Receivers and starts.                                                    *)

\* Node n goes on with the disk e as the process q; its sender may end.
LEMMA ReceiverMoves ==
  ASSUME CInv, NEW n \in Node, NEW e \in Disks, NEW q \in Processes,
         disk' = [disk EXCEPT ![n] = e], mem' = [mem EXCEPT ![n] = q],
         msgs' \subseteq msgs, UNCHANGED <<sessions, top, voted, hasty>>,
         sender' = sender \/ sender' = [sender EXCEPT ![n] = NoSender],
         tainted' \subseteq Node, tainted \ {n} \subseteq tainted', faults' \in 0 .. MaxFaults,
         Within(e, q.now), q.now <= top, PassOK(e, q), e.parts = Whole(e.cp),
         e.cp = disk[n].cp \/ sender'[n] = NoSender,
         q.asking => mem[n].asking /\ q.now = mem[n].now,
         q.rcv.uuid <= sessions, q.rcv.uuid # 0 => q.pull # "none",
         \A c \in Parts : q.rcv.uuid = c.uuid => e.tmp = FirstBlocks(c.cp, q.rcv.seq),
         \A x \in Node : sender[x] # NoSender /\ q.rcv.uuid = sender[x].uuid =>
            e.tmp = FirstBlocks(disk[x].cp, q.rcv.seq),
         n \notin hasty /\ top > 0 /\ Keeps(disk[n], top - 1) => Keeps(e, top - 1),
         top \in disk[n].log => top \in e.log,
         n \notin tainted' => Clean(e, q)
  PROVE  CInv'
<1>1. StateOK /\ SessionsOK /\ MemoryOK
  BY DEF CInv
<1>2. /\ disk' \in [Node -> Disks] /\ disk'[n] = e
      /\ \A m \in Node \ {n} : disk'[m] = disk[m]
  BY <1>1, OneDisk
<1>3. /\ mem' \in [Node -> Processes] /\ mem'[n] = q
      /\ \A m \in Node \ {n} : mem'[m] = mem[m]
  BY <1>1, OneProcess
<1>4. /\ sender' \in [Node -> Senders]
      /\ \A x \in Node : sender'[x] = sender[x] \/ sender'[x] = NoSender
      /\ \A x \in Node \ {n} : sender'[x] = sender[x]
  <2>1. NoSender \in Senders
    BY Bounds DEF NoSender, Senders
  <2>. QED  BY <2>1, <1>1 DEF StateOK
<1>5. /\ msgs' \subseteq AskMessages \cup FileMessages /\ IsFiniteSet(msgs')
      /\ Parts' \subseteq Parts /\ sessions' + Cardinality(Asks') <= MaxSessions
  BY <1>1, FewerMessages
<1>6. StateOK'
  BY <1>1, <1>2, <1>3, <1>4, <1>5 DEF StateOK
<1>7. \A m \in Node : PositionOK(m)'
  BY <1>2, <1>3 DEF CInv, PositionOK
<1>8. \A x \in Node : sender'[x] # NoSender => sender'[x] = sender[x] /\ disk'[x].cp = disk[x].cp
  BY <1>2, <1>4
<1>9. NoSender.uuid = 0 /\ \A c \in Parts : c.uuid # 0
  BY <1>1, MessageFacts DEF NoSender
<1>10. ASSUME NEW x \in Node
       PROVE  /\ sender'[x] # NoSender =>
                   /\ sender'[x].uuid \in 1 .. sessions /\ sender'[x].to \in Node
                   /\ sender'[x].seq <= FileCount(disk'[x].cp) + 1
              /\ \A c \in Parts : sender'[x].uuid = c.uuid => c.cp = disk'[x].cp
              /\ \A y \in Node : x # y /\ sender'[x].uuid = sender'[y].uuid
                                 => sender'[x] = NoSender
  <2>1. CASE sender'[x] = NoSender
    BY <2>1, <1>9
  <2>2. CASE sender'[x] # NoSender
    <3>1. /\ sender[x].uuid \in 1 .. sessions /\ sender[x].to \in Node
          /\ sender[x].seq <= FileCount(disk[x].cp) + 1
          /\ \A c \in Parts : sender[x].uuid = c.uuid => c.cp = disk[x].cp
      BY <2>2, <1>1, <1>8 DEF SessionsOK
    <3>2. \A y \in Node : x # y => sender[x].uuid # sender[y].uuid
      BY <2>2, <1>1, <1>8 DEF SessionsOK
    <3>3. \A y \in Node : x # y => sender[x].uuid # sender'[y].uuid
      BY <3>1, <3>2, <1>4, <1>9
    <3>. QED  BY <3>1, <3>3, <1>8, <2>2
  <2>. QED  BY <2>1, <2>2
<1>11. ASSUME NEW m \in Node
       PROVE  /\ mem'[m].rcv.uuid <= sessions
              /\ mem'[m].rcv.uuid # 0 => mem'[m].pull # "none"
              /\ \A c \in Parts : mem'[m].rcv.uuid = c.uuid =>
                   disk'[m].tmp = FirstBlocks(c.cp, mem'[m].rcv.seq)
              /\ \A x \in Node : sender'[x] # NoSender /\ mem'[m].rcv.uuid = sender'[x].uuid =>
                   disk'[m].tmp = FirstBlocks(disk'[x].cp, mem'[m].rcv.seq)
  <2>1. CASE m = n
    BY <2>1, <1>2, <1>3, <1>8
  <2>2. CASE m # n
    <3>1. mem'[m] = mem[m] /\ disk'[m] = disk[m]
      BY <2>2, <1>2, <1>3
    <3>. QED  BY <3>1, <1>1, <1>8 DEF SessionsOK
  <2>. QED  BY <2>1, <2>2
<1>12. SessionsOK'
  <2>1. \A c \in Parts' : MessageOK(c)'
    BY <1>1, <1>5 DEF SessionsOK, MessageOK
  <2>2. \A c, d \in Parts' : c.uuid = d.uuid => c.cp = d.cp
    BY <1>1, <1>5 DEF SessionsOK
  <2>. QED  BY <2>1, <2>2, <1>5, <1>10, <1>11 DEF SessionsOK
<1>13. LoadedWhole'
  BY <1>2 DEF CInv, LoadedWhole
<1>14. \A m \in Node : AskerOK(m)'
  <2>1. AskerOK(n)'
    BY <1>3 DEF CInv, AskerOK
  <2>2. ASSUME NEW m \in Node \ {n} PROVE AskerOK(m)'
    BY <1>3 DEF CInv, AskerOK
  <2>. QED  BY <2>1, <2>2
<1>15. MemoryOK'
  BY <1>1, <1>2, MemoryMoves
<1>16. \A m \in Node : m \notin tainted' => Clean(disk'[m], mem'[m])
  BY <1>2, <1>3 DEF CInv
<1>. QED  BY <1>6, <1>7, <1>12, <1>13, <1>14, <1>15, <1>16 DEF CInv

\* A node that asks for a checkpoint holds nothing a majority needs.
LEMMA AskerForgets ==
  ASSUME CInv, NEW n \in Node, mem[n].asking
  PROVE  /\ top \notin disk[n].log
         /\ n \notin hasty => top > 0 /\ ~Keeps(disk[n], top - 1)
<1>1. /\ mem[n].now < top /\ (mem[n].now + 1 < top \/ n \in hasty)
      /\ Within(disk[n], mem[n].now) /\ mem[n].now \in Nat /\ top \in Nat
      /\ disk[n] \in Disks
  BY NodeFacts DEF AskerOK
<1>2. disk[n].log \subseteq 0 .. mem[n].now /\ NowAtStart(disk[n]) <= mem[n].now
      /\ NowAtStart(disk[n]) \in Nat
  <2>1. NowAtStart(disk[n]) \in Nat
    BY <1>1, StartPosition, Bounds
  <2>2. disk[n].log \subseteq 0 .. mem[n].now
    BY <1>1 DEF Within, Records
  <2>. QED  BY <2>1, <2>2, <1>1, StartWithin
<1>3. top \notin disk[n].log
  BY <1>1, <1>2 DEF AskerOK
<1>4. ASSUME n \notin hasty PROVE top > 0 /\ ~Keeps(disk[n], top - 1)
  BY <1>1, <1>2, <1>4 DEF Keeps
<1>. QED  BY <1>3, <1>4

\* A message out of sequence ends the receiver's session.
LEMMA FailedStep ==
  ASSUME CInv, NEW c \in Parts, Failed(c)
  PROVE  CInv'
<1> DEFINE n == c.to
           d == disk[n]
           p == mem[n]
           q == [p EXCEPT !.rcv = NoReceiver]
<1>1. StateOK /\ SessionsOK /\ sessions \in Nat /\ n \in Node
      /\ \A x \in Parts : x.uuid # 0
  BY MessageFacts DEF CInv, StateOK
<1>2. d \in Disks /\ p \in Processes /\ Within(d, p.now) /\ p.now <= top
      /\ d.parts = Whole(d.cp) /\ (n \notin tainted => Clean(d, p)) /\ PassOK(d, p)
      /\ disk = [disk EXCEPT ![n] = disk[n]]
  BY <1>1, NodeFacts
<1>3. mem' = [mem EXCEPT ![n] = q] /\ msgs' \subseteq msgs
      /\ UNCHANGED <<disk, sender, sessions, top, voted, tainted, hasty, faults>>
  BY DEF Failed
<1>4. NoReceiver \in Receivers /\ NoReceiver.uuid = 0
  BY Bounds DEF NoReceiver, Receivers
<1>5. /\ q \in Processes /\ q.rcv = NoReceiver /\ q.now = p.now /\ q.up = p.up /\ q.min = p.min
      /\ q.lastSave = p.lastSave /\ q.pull = p.pull /\ q.asking = p.asking /\ q.todo = p.todo
  BY <1>2, <1>4 DEF Processes
<1>6. tainted \subseteq Node /\ faults \in 0 .. MaxFaults
  BY <1>1 DEF StateOK
<1>7. \A x \in Node : sender[x] # NoSender => sender[x].uuid # 0
  BY <1>1 DEF SessionsOK
<1>8. (n \notin tainted => Clean(d, q)) /\ PassOK(d, q)
  <2> HIDE DEF d, p, q
  <2>. QED  BY <1>2, <1>5, CleanSame, PassSame, NodeTypes
<1>9. disk' = [disk EXCEPT ![n] = d]
  BY <1>2, <1>3
<1> HIDE DEF d, p, q
<1>10. d.cp = disk[n].cp /\ (q.asking => mem[n].asking /\ q.now = mem[n].now)
       /\ (top > 0 /\ Keeps(disk[n], top - 1) => Keeps(d, top - 1))
       /\ (top \in disk[n].log => top \in d.log)
  BY <1>5 DEF d, p
<1>11. /\ q.rcv.uuid <= sessions /\ q.rcv.uuid = 0 /\ Within(d, q.now) /\ q.now <= top
       /\ tainted' \subseteq Node /\ tainted \ {n} \subseteq tainted' /\ faults' \in 0 .. MaxFaults
  BY <1>1, <1>2, <1>3, <1>4, <1>5, <1>6
<1>12. (n \notin tainted' => Clean(d, q)) /\ PassOK(d, q)
  BY <1>3, <1>8
<1>13. /\ mem' = [mem EXCEPT ![n] = q] /\ msgs' \subseteq msgs /\ sender' = sender
       /\ UNCHANGED <<sessions, top, voted, hasty>>
  BY <1>3
<1>14. /\ \A x \in Parts : q.rcv.uuid # x.uuid
       /\ \A x \in Node : sender[x] # NoSender => q.rcv.uuid # sender[x].uuid
  BY <1>1, <1>7, <1>11
<1>15. n \in Node /\ d \in Disks /\ q \in Processes /\ d.parts = Whole(d.cp)
  BY <1>1, <1>2, <1>5
<1> HIDE DEF n
<1>. QED  BY <1>9, <1>10, <1>11, <1>12, <1>13, <1>14, <1>15, ReceiverMoves

\* What ClearAllLog leaves of a disk.
ClearedOK(d) ==
    LET e == Cleared(d)
    IN /\ e \in Disks /\ e.log = {} /\ e.promise = {} /\ e.tmp = {} /\ e.min = 0
       /\ e.cp = d.cp /\ e.parts = d.parts

LEMMA ClearedDisk ==
  ASSUME NEW d \in Disks
  PROVE  ClearedOK(d)
<1>1. {} \in Blocks /\ {} \in SUBSET Instances /\ 0 \in 0 .. TooLarge
  BY Bounds DEF Blocks
<1>. QED  BY <1>1 DEF ClearedOK, Cleared, Disks

LEMMA BeginStep ==
  ASSUME CInv, NEW c \in Parts, OnSendCheckpoint_Begin(c)
  PROVE  CInv'
<1> DEFINE n == c.to
           d == disk[n]
           p == mem[n]
           r == [from |-> c.from, uuid |-> c.uuid, seq |-> 0]
           i == CheckpointInstanceID(c.cp)
           e == [Cleared(d) EXCEPT !.min = i]
           q == [p EXCEPT !.rcv = r, !.min = i, !.pull = Pull(c)]
<1>1. /\ StateOK /\ SessionsOK /\ n \in Node /\ c.from \in Node
      /\ c.uuid \in Nat /\ c.uuid # 0 /\ c.cp \in Instances /\ c.uuid <= sessions
  BY MessageFacts DEF CInv, SessionsOK, MessageOK
<1>2. d \in Disks /\ p \in Processes /\ Within(d, p.now) /\ p.now <= top
      /\ d.parts = Whole(d.cp) /\ d.cp <= p.now /\ PassOK(d, p)
  BY <1>1, NodeFacts
<1>3. /\ disk' = [disk EXCEPT ![n] = e] /\ mem' = [mem EXCEPT ![n] = q]
      /\ p.up /\ p.asking /\ tainted' = tainted \ {n} /\ msgs' \subseteq msgs
      /\ UNCHANGED <<sender, sessions, top, voted, hasty, faults>>
  BY DEF OnSendCheckpoint_Begin, Receives
<1>4. i \in 0 .. TooLarge /\ r \in Receivers /\ Pull(c) \in {"further", "stale"}
      /\ Pull(c) = (IF c.cp # 0 /\ c.cp < p.now THEN "stale" ELSE "further")
      /\ r.uuid = c.uuid /\ r.seq = 0
  BY <1>1, Bounds DEF CheckpointInstanceID, Receivers, Pull, Instances
<1> HIDE DEF i, r
<1>5. /\ e \in Disks /\ e.log = {} /\ e.promise = {} /\ e.tmp = {} /\ e.min = i
      /\ e.cp = d.cp /\ e.parts = d.parts
  <2>1. ClearedOK(d)
    BY <1>2, ClearedDisk
  <2> HIDE DEF d
  <2>. QED  BY <2>1, <1>4 DEF ClearedOK, Disks
<1>6. /\ q \in Processes /\ q.rcv = r /\ q.now = p.now /\ q.up = p.up /\ q.min = i
      /\ q.lastSave = p.lastSave /\ q.pull = Pull(c) /\ q.asking = p.asking
      /\ q.todo = p.todo
  BY <1>2, <1>4 DEF Processes
<1> HIDE DEF d, p, q, e
<1>7. Clean(e, q)
  <2>1. e.min = CheckpointInstanceID(c.cp) /\ q.min = CheckpointInstanceID(c.cp)
    BY <1>5, <1>6 DEF i
  <2>. QED  BY <2>1, <1>1, <1>2, <1>3, <1>4, <1>5, <1>6, CleanBegin
<1>8. Within(e, q.now) /\ PassOK(e, q)
  <2>1. PassOK(e, q)
    BY <1>2, <1>5, <1>6, NodeTypes, PassSame
  <2>. QED  BY <2>1, <1>2, <1>5, <1>6 DEF Within, Records
<1>9. \A k : e.tmp = FirstBlocks(k, r.seq)
  BY <1>4, <1>5 DEF FirstBlocks
<1>10. /\ top \notin disk[n].log
       /\ ~(n \notin hasty /\ top > 0 /\ Keeps(disk[n], top - 1))
  BY <1>1, <1>3, AskerForgets DEF p
<1>11. tainted' \subseteq Node /\ tainted \ {n} \subseteq tainted' /\ faults' \in 0 .. MaxFaults
  BY <1>1, <1>3 DEF StateOK
<1>12. e.cp = disk[n].cp /\ q.now = mem[n].now /\ (q.asking => mem[n].asking)
       /\ e.parts = Whole(e.cp) /\ q.now <= top
       /\ q.rcv.uuid <= sessions /\ q.pull # "none"
  BY <1>1, <1>2, <1>4, <1>5, <1>6 DEF d, p
<1> HIDE DEF n
<1>. QED  BY <1>1, <1>3, <1>5, <1>6, <1>7, <1>8, <1>9, <1>10, <1>11, <1>12, ReceiverMoves

\* The next block is added to those the receiver has.
LEMMA IngStep ==
  ASSUME CInv, NEW c \in Parts, OnSendCheckpoint_Ing(c)
  PROVE  CInv'
<1>1. CASE Failed(c)
  BY <1>1, FailedStep
<1>2. CASE ~Failed(c)
  <2> DEFINE n == c.to
             d == disk[n]
             p == mem[n]
             e == [d EXCEPT !.tmp = @ \cup {<<c.cp, c.file>>}]
             q == [p EXCEPT !.rcv.seq = @ + 1]
  <2>1. /\ StateOK /\ SessionsOK /\ n \in Node
        /\ c.uuid \in Nat /\ c.uuid # 0 /\ c.cp \in Instances /\ c.cp \in Nat
        /\ c.uuid <= sessions
    BY MessageFacts DEF CInv, SessionsOK, MessageOK
  <2>2. /\ d \in Disks /\ p \in Processes /\ Within(d, p.now) /\ p.now <= top
        /\ d.parts = Whole(d.cp) /\ (n \notin tainted => Clean(d, p)) /\ top \in Nat
        /\ PassOK(d, p)
    BY <2>1, NodeFacts
  <2>3. /\ disk' = [disk EXCEPT ![n] = e] /\ mem' = [mem EXCEPT ![n] = q]
        /\ c.uuid = p.rcv.uuid /\ c.seq = p.rcv.seq + 1 /\ c.flag = "ing"
        /\ msgs' \subseteq msgs /\ sender' = sender
        /\ UNCHANGED <<sessions, top, voted, hasty>> /\ tainted' = tainted /\ faults' = faults
    BY <1>2, <2>1 DEF OnSendCheckpoint_Ing, Receives, InSequence, SameSession, StateOK
  <2>4. /\ c.seq = c.file /\ c.seq \in 1 .. FileCount(c.cp) /\ FileCount(c.cp) \in 0 .. Files
    BY <2>1, <2>3, Bounds DEF SessionsOK, MessageOK, FileCount
  <2>5. p.rcv \in Receivers /\ p.rcv.seq \in Nat /\ p.rcv.seq + 1 \in 0 .. Files
    BY <2>2, <2>3, <2>4, Bounds DEF Processes, Receivers
  <2>6. /\ q \in Processes /\ q.now = p.now /\ q.up = p.up /\ q.min = p.min
        /\ q.lastSave = p.lastSave /\ q.pull = p.pull /\ q.asking = p.asking
        /\ q.rcv.uuid = p.rcv.uuid /\ q.rcv.seq = p.rcv.seq + 1 /\ q.todo = p.todo
    BY <2>2, <2>5 DEF Processes, Receivers
  <2>7. {<<c.cp, c.file>>} \in Blocks
    <3>1. c.file \in 1 .. Files
      BY <2>4, Bounds
    <3>. QED  BY <2>1, <3>1 DEF Blocks
  <2>8. /\ e \in Disks /\ e.log = d.log /\ e.promise = d.promise /\ e.min = d.min
        /\ e.cp = d.cp /\ e.parts = d.parts /\ e.tmp = d.tmp \cup {<<c.cp, c.file>>}
    BY <2>2, <2>7 DEF Disks, Blocks
  <2>9. d.tmp = FirstBlocks(c.cp, p.rcv.seq)
    BY <2>1, <2>3 DEF SessionsOK
  <2> HIDE DEF d, p, q, e
  <2>10. e.tmp = FirstBlocks(c.cp, q.rcv.seq)
    <3>1. 1 .. (p.rcv.seq + 1) = (1 .. p.rcv.seq) \cup {p.rcv.seq + 1}
      BY <2>5
    <3>2. c.file = p.rcv.seq + 1
      BY <2>3, <2>4
    <3>. QED  BY <3>1, <3>2, <2>6, <2>8, <2>9 DEF FirstBlocks
  <2>11. /\ \A x \in Parts : q.rcv.uuid = x.uuid => e.tmp = FirstBlocks(x.cp, q.rcv.seq)
         /\ \A x \in Node : sender[x] # NoSender /\ q.rcv.uuid = sender[x].uuid =>
              e.tmp = FirstBlocks(disk[x].cp, q.rcv.seq)
    BY <2>1, <2>3, <2>6, <2>10 DEF SessionsOK
  <2>12. Within(e, q.now) /\ Records(e) = Records(d) /\ PassOK(e, q)
    <3>1. PassOK(e, q)
      BY <2>2, <2>6, <2>8, NodeTypes, PassSame
    <3>. QED  BY <3>1, <2>2, <2>6, <2>8 DEF Within, Records
  <2>13. n \notin tainted => Clean(e, q)
    BY <2>2, <2>6, <2>8, CleanSame
  <2>14. top > 0 /\ Keeps(d, top - 1) => Keeps(e, top - 1)
    <3>1. top > 0 => top - 1 \in Nat
      BY <2>2
    <3>2. d.cp <= e.cp
      BY <2>2, <2>6, <2>8, NodeTypes
    <3>. QED  BY <3>1, <3>2, <2>2, <2>8, KeepsSame
  <2>15. /\ e.cp = disk[n].cp /\ (q.asking => mem[n].asking /\ q.now = mem[n].now)
         /\ (top > 0 /\ Keeps(disk[n], top - 1) => Keeps(e, top - 1))
         /\ (top \in disk[n].log => top \in e.log)
    BY <2>6, <2>8, <2>14 DEF d, p
  <2>16. /\ q.rcv.uuid <= sessions /\ (q.rcv.uuid # 0 => q.pull # "none")
         /\ q.now <= top /\ e.parts = Whole(e.cp)
    <3>1. p.rcv.uuid # 0 => p.pull # "none"
      BY <2>1 DEF SessionsOK, p
    <3>. QED  BY <3>1, <2>1, <2>2, <2>3, <2>6, <2>8
  <2>17. /\ tainted' \subseteq Node /\ tainted \ {n} \subseteq tainted'
         /\ faults' \in 0 .. MaxFaults
         /\ (n \notin tainted' => Clean(e, q))
    BY <2>1, <2>3, <2>13 DEF StateOK
  <2>18. /\ disk' = [disk EXCEPT ![n] = e] /\ mem' = [mem EXCEPT ![n] = q]
         /\ msgs' \subseteq msgs /\ sender' = sender
         /\ UNCHANGED <<sessions, top, voted, hasty>>
    BY <2>3
  <2>19. n \in Node /\ e \in Disks /\ q \in Processes /\ Within(e, q.now) /\ PassOK(e, q)
    BY <2>1, <2>6, <2>8, <2>12
  <2> HIDE DEF n
  <2>. QED  BY <2>11, <2>15, <2>16, <2>17, <2>18, <2>19, ReceiverMoves
<1>. QED  BY <1>1, <1>2

\* Node n starts on the disk d.
LEMMA StartMoves ==
  ASSUME CInv, NEW n \in Node, NEW d \in Disks, StartOn(n, d),
         UNCHANGED <<sessions, top, voted, hasty>>,
         tainted' \subseteq Node, tainted \ {n} \subseteq tainted', faults' \in 0 .. MaxFaults,
         Within(d, top), d.parts = Whole(d.cp),
         n \notin hasty /\ top > 0 /\ Keeps(disk[n], top - 1) => Keeps(d, top - 1),
         top \in disk[n].log => top \in d.log,
         n \notin tainted' => Clean([d EXCEPT !.min = MinAtStart(d)], Started(d))
  PROVE  CInv'
<1> DEFINE e == [d EXCEPT !.min = MinAtStart(d)]
           q == Started(d)
<1>1. e \in Disks /\ q \in Processes
  BY StartTypes
<1>2. /\ e.log = d.log /\ e.cp = d.cp /\ e.parts = d.parts /\ NowAtStart(e) = NowAtStart(d)
      /\ Records(e) = Records(d)
      /\ q.now = NowAtStart(d) /\ q.asking = FALSE /\ q.rcv = NoReceiver /\ q.todo = {}
  BY StartFields
<1>3. /\ disk' = [disk EXCEPT ![n] = e] /\ mem' = [mem EXCEPT ![n] = q]
      /\ sender' = [sender EXCEPT ![n] = NoSender] /\ msgs' \subseteq msgs
      /\ n \notin tainted' => Clean(e, q)
  BY DEF StartOn
<1> HIDE DEF e, q
<1>4. StateOK /\ SessionsOK /\ sessions \in Nat /\ top \in Nat
      /\ \A c \in Parts : c.uuid # 0
  BY MessageFacts, Bounds DEF CInv, StateOK, Instances
<1>5. sender'[n] = NoSender
  BY <1>3, <1>4 DEF StateOK
<1>6. q.rcv.uuid = 0 /\ q.rcv.uuid <= sessions
  BY <1>2, <1>4 DEF NoReceiver
<1>7. /\ \A c \in Parts : q.rcv.uuid # c.uuid
      /\ \A x \in Node : sender[x] # NoSender => q.rcv.uuid # sender[x].uuid
  BY <1>4, <1>6 DEF SessionsOK
<1>8. Within(e, q.now) /\ q.now <= top
  <2>1. Within(d, NowAtStart(d)) /\ NowAtStart(d) <= top
    BY <1>4, StartIsWithin, StartWithin
  <2>. QED  BY <2>1, <1>2 DEF Within
<1>9. n \notin hasty /\ top > 0 /\ Keeps(disk[n], top - 1) => Keeps(e, top - 1)
  BY <1>2 DEF Keeps
<1>10. (top \in disk[n].log => top \in e.log) /\ e.parts = Whole(e.cp) /\ PassOK(e, q)
  BY <1>2 DEF PassOK
<1>. QED  BY <1>1, <1>2, <1>3, <1>5, <1>6, <1>7, <1>8, <1>9, <1>10, ReceiverMoves

LEMMA CrashStep ==
  ASSUME CInv, NEW n \in Node, Crash(n)
  PROVE  CInv'
<1> DEFINE d == disk[n]
<1>1. /\ d \in Disks /\ Within(d, mem[n].now) /\ mem[n] \in Processes /\ mem[n].now \in Nat
      /\ mem[n].now <= top /\ d.parts = Whole(d.cp) /\ top \in Nat
      /\ n \notin tainted => Clean(d, mem[n])
  BY NodeFacts
<1>2. StateOK
  BY DEF CInv
<1>3. /\ StartOn(n, d) /\ UNCHANGED <<sessions, top, voted, hasty>> /\ tainted' = tainted
      /\ faults < MaxFaults /\ faults' = faults + 1
  BY DEF Crash
<1>4. tainted' \subseteq Node /\ tainted \ {n} \subseteq tainted' /\ faults' \in 0 .. MaxFaults
  BY <1>2, <1>3, Bounds DEF StateOK
<1>5. Within(d, top)
  <2>1. d.cp \in Nat /\ Records(d) \in SUBSET Nat
    BY <1>1, NodeTypes
  <2>. QED  BY <2>1, <1>1 DEF Within
<1>6. n \notin tainted => Clean([d EXCEPT !.min = MinAtStart(d)], Started(d))
  BY <1>1, CleanRestart
<1>7. (top \in disk[n].log => top \in d.log) /\ (Keeps(disk[n], top - 1) => Keeps(d, top - 1))
      /\ (n \notin tainted' => Clean([d EXCEPT !.min = MinAtStart(d)], Started(d)))
      /\ StartOn(n, d) /\ UNCHANGED <<sessions, top, voted, hasty>>
  BY <1>3, <1>6
<1> HIDE DEF d
<1>. QED  BY <1>1, <1>4, <1>5, <1>7, StartMoves

\* A crash between the clearing of the log and the writing of the minimum.
LEMMA CrashInBeginStep ==
  ASSUME CInv, NEW c \in Parts, CrashInBegin(c)
  PROVE  CInv'
<1> DEFINE n == c.to
           d == Cleared(disk[n])
<1>1. StateOK /\ n \in Node
  BY MessageFacts DEF CInv
<1>2. /\ disk[n] \in Disks /\ Within(disk[n], mem[n].now) /\ mem[n].now \in Nat
      /\ mem[n].now <= top /\ disk[n].parts = Whole(disk[n].cp) /\ top \in Nat
      /\ disk[n].cp <= mem[n].now /\ disk[n].cp \in Nat
  BY <1>1, NodeFacts, NodeTypes
<1>3. d \in Disks /\ d.log = {} /\ d.promise = {} /\ d.cp = disk[n].cp /\ d.parts = disk[n].parts
  BY <1>2, ClearedDisk DEF ClearedOK
<1>4. /\ mem[n].asking /\ StartOn(n, d) /\ UNCHANGED <<sessions, top, voted, hasty>>
      /\ tainted' = tainted \ {n} /\ faults < MaxFaults /\ faults' = faults + 1
  BY DEF CrashInBegin, Receives
<1>5. tainted' \subseteq Node /\ tainted \ {n} \subseteq tainted' /\ faults' \in 0 .. MaxFaults
  BY <1>1, <1>4, Bounds DEF StateOK
<1> HIDE DEF d
<1>6. Records(d) = {} /\ Within(d, top)
  BY <1>2, <1>3 DEF Records, Within
<1>7. Clean([d EXCEPT !.min = MinAtStart(d)], Started(d))
  BY <1>3, <1>6, EmptyLogStarts
<1>8. top \notin disk[n].log /\ ~(n \notin hasty /\ top > 0 /\ Keeps(disk[n], top - 1))
  BY <1>1, <1>4, AskerForgets
<1>9. d.parts = Whole(d.cp) /\ StartOn(n, d) /\ UNCHANGED <<sessions, top, voted, hasty>>
  BY <1>2, <1>3, <1>4
<1> HIDE DEF n
<1>. QED  BY <1>1, <1>3, <1>5, <1>6, <1>7, <1>8, <1>9, StartMoves

\* The blocks received are the whole checkpoint, and the node starts on it.
LEMMA EndStep ==
  ASSUME CInv, NEW c \in Parts, OnSendCheckpoint_End(c)
  PROVE  CInv'
<1>1. CASE ~Finished(c)
  BY <1>1, FailedStep DEF OnSendCheckpoint_End
<1>2. CASE Finished(c)
  <2> DEFINE n == c.to
             b == disk[n]
             p == mem[n]
             d == Loaded(b, c)
  <2>1. /\ StateOK /\ SessionsOK /\ n \in Node /\ sessions \in Nat
        /\ c.uuid \in Nat /\ c.uuid # 0 /\ c.cp \in Instances /\ c.cp \in Nat /\ c.cp <= top
    BY MessageFacts DEF CInv, SessionsOK, MessageOK, StateOK
  <2>2. /\ b \in Disks /\ p \in Processes /\ Within(b, p.now) /\ p.now <= top
        /\ b.parts = Whole(b.cp) /\ (n \notin tainted => Clean(b, p))
        /\ top \in Nat /\ p.now \in Nat
    BY <2>1, NodeFacts
  <2>3. /\ StartOn(n, d) /\ p.asking
        /\ UNCHANGED <<sessions, top, voted, hasty>> /\ tainted' = tainted /\ faults' = faults
        /\ c.uuid = p.rcv.uuid /\ c.seq = p.rcv.seq + 1 /\ c.flag = "end"
    BY <1>2 DEF OnSendCheckpoint_End, Receives, Finished, InSequence, SameSession
  <2>4. c.seq = FileCount(c.cp) + 1 /\ FileCount(c.cp) \in Nat /\ p.rcv.seq \in Nat
    BY <2>1, <2>2, <2>3, Bounds DEF SessionsOK, MessageOK, FileCount, Processes, Receivers
  <2>5. b.tmp = Whole(c.cp)
    <3>1. b.tmp = FirstBlocks(c.cp, p.rcv.seq)
      BY <2>1, <2>3 DEF SessionsOK
    <3>2. p.rcv.seq = FileCount(c.cp)
      BY <2>3, <2>4
    <3>. QED  BY <3>1, <3>2 DEF FirstBlocks, Whole
  <2>6. p.pull # "none"
    BY <2>1, <2>3 DEF SessionsOK
  <2>7. /\ d \in Disks /\ d.log = b.log /\ d.promise = b.promise
        /\ d.cp \in {b.cp, c.cp} /\ d.parts = Whole(d.cp)
    <3>1. CASE b.tmp = {}
      BY <3>1, <2>2 DEF Loaded
    <3>2. CASE b.tmp # {}
      <4>1. d = [b EXCEPT !.cp = c.cp, !.parts = b.tmp]
        BY <3>2 DEF Loaded
      <4>2. b.tmp \in Blocks
        BY <2>2 DEF Disks
      <4> HIDE DEF d, b
      <4>3. d.cp = c.cp /\ d.parts = b.tmp /\ d.log = b.log /\ d.promise = b.promise /\ d \in Disks
        BY <4>1, <4>2, <2>1, <2>2 DEF Disks
      <4>. QED  BY <4>3, <2>5
    <3>. QED  BY <3>1, <3>2
  <2> HIDE DEF d
  <2>8. Records(d) = Records(b) /\ Within(d, top)
    <3>1. Records(d) = Records(b)
      BY <2>7 DEF Records
    <3>2. b.cp \in Nat /\ Records(b) \in SUBSET Nat
      BY <2>2, NodeTypes
    <3>. QED  BY <3>1, <3>2, <2>1, <2>2, <2>7 DEF Within
  <2>9. n \notin tainted => Clean([d EXCEPT !.min = MinAtStart(d)], Started(d))
    <3>1. n \notin tainted => Records(b) = {}
      BY <2>2, <2>6 DEF Clean, Pending
    <3>. QED  BY <3>1, <2>7, <2>8, EmptyLogStarts
  <2>10. top \notin disk[n].log /\ ~(n \notin hasty /\ top > 0 /\ Keeps(disk[n], top - 1))
    BY <2>1, <2>3, AskerForgets
  <2>11. /\ tainted' \subseteq Node /\ tainted \ {n} \subseteq tainted'
         /\ faults' \in 0 .. MaxFaults
         /\ n \notin tainted' => Clean([d EXCEPT !.min = MinAtStart(d)], Started(d))
         /\ StartOn(n, d) /\ UNCHANGED <<sessions, top, voted, hasty>>
    BY <2>1, <2>3, <2>9 DEF StateOK
  <2>12. n \in Node /\ d \in Disks /\ d.parts = Whole(d.cp)
    BY <2>1, <2>7
  <2> HIDE DEF n, b, p
  <2>. QED  BY <2>8, <2>10, <2>11, <2>12, StartMoves
<1>. QED  BY <1>1, <1>2

-----------------------------------------------------------------------------
(* The invariant.                                                           *)

LEMMA CInit == Init => CInv
<1> SUFFICES ASSUME Init PROVE CInv
  OBVIOUS
<1> DEFINE d == NewDisk
           p == Started(NewDisk)
<1>1. /\ d \in Disks /\ d.log = {} /\ d.promise = {} /\ d.min = 0 /\ d.cp = 0
      /\ d.parts = {} /\ d.tmp = {} /\ Records(d) = {}
  <2>1. {} \in Blocks /\ {} \in SUBSET Instances /\ 0 \in 0 .. TooLarge /\ 0 \in Instances
    BY Bounds DEF Blocks, Instances
  <2>. QED  BY <2>1 DEF NewDisk, Disks, Records
<1>2. MinAtStart(d) = 0 /\ NowAtStart(d) = 0
  <2>1. MaxInstanceID(d) = 0 /\ FixMinChosen(d) = 0
    BY <1>1, HighestRecord, StartMinimum
  <2>2. MinAtStart(d) = 0
    BY <1>1, <2>1 DEF MinAtStart, AheadOfLog
  <2>. QED  BY <1>1, <2>1, <2>2, StartPosition
<1>3. /\ p \in Processes /\ p.now = 0 /\ p.asking = FALSE /\ p.rcv = NoReceiver
      /\ p.pull = "none" /\ p.todo = {}
  BY <1>1, <1>2, StartTypes, StartFields
<1>4. Clean(d, p)
  <2>1. Clean([d EXCEPT !.min = MinAtStart(d)], p)
    BY <1>1, EmptyLogStarts
  <2>2. [d EXCEPT !.min = MinAtStart(d)] = d
    <3>1. [d EXCEPT !.min = 0] = d
      BY DEF NewDisk
    <3>. QED  BY <3>1, <1>2
  <2>. QED  BY <2>1, <2>2
<1>5. /\ disk = [n \in Node |-> d] /\ mem = [n \in Node |-> p]
      /\ sender = [n \in Node |-> NoSender] /\ msgs = {} /\ sessions = 0 /\ top = 0
      /\ voted = {} /\ tainted = {} /\ hasty = {} /\ faults = 0
  BY DEF Init
<1> HIDE DEF d, p
<1>6. /\ NoSender \in Senders /\ NoSender.uuid = 0 /\ NoReceiver.uuid = 0
      /\ IsFiniteSet({}) /\ Cardinality({}) = 0 /\ Asks = {} /\ Parts = {}
  BY <1>5, FS_EmptySet, Bounds DEF NoSender, Senders, NoReceiver, Asks, Parts
<1>7. StateOK
  BY <1>1, <1>3, <1>5, <1>6, Bounds DEF StateOK, Instances
<1>8. \A n \in Node : PositionOK(n)
  <2>1. Within(d, p.now) /\ p.now <= top /\ PassOK(d, p)
    BY <1>1, <1>3, <1>5 DEF Within, PassOK
  <2>. QED  BY <2>1, <1>5 DEF PositionOK
<1>9. SessionsOK
  BY <1>3, <1>5, <1>6 DEF SessionsOK
<1>10. LoadedWhole
  <2>1. Whole(0) = {}
    BY DEF Whole, FileCount
  <2>. QED  BY <2>1, <1>1, <1>5 DEF LoadedWhole
<1>11. MemoryOK /\ \A n \in Node : AskerOK(n)
  BY <1>3, <1>5 DEF MemoryOK, AskerOK
<1>12. \A n \in Node : Clean(disk[n], mem[n])
  BY <1>4, <1>5
<1>. QED  BY <1>7, <1>8, <1>9, <1>10, <1>11, <1>12 DEF CInv

LEMMA CStuttering ==
  ASSUME CInv, UNCHANGED vars
  PROVE  CInv'
<1>1. UNCHANGED <<disk, mem, sender, msgs, sessions, top, voted, tainted, hasty, faults>>
  BY DEF vars
<1>2. StateOK' /\ SessionsOK'
  BY <1>1 DEF CInv, StateOK, SessionsOK, MessageOK, Parts, Asks
<1>. QED  BY <1>1, <1>2, NetworkStep

LEMMA CStep ==
  ASSUME CInv, [Next]_vars
  PROVE  CInv'
<1>1. CASE UNCHANGED vars
  BY <1>1, CStuttering
<1>2. ASSUME NEW n \in Node, NodeStep(n) PROVE CInv'
  BY <1>2, VoteStep, PromiseStep, LearnOwnStep, PlayOneStep, CleanerPassStep, DeleteOneStep,
     NoopStep, CrashStep DEF NodeStep
<1>3. ASSUME NEW x \in Node, SenderStep(x) PROVE CInv'
  BY <1>3, OnAskStep, SenderSteps DEF SenderStep
<1>4. ASSUME NEW n \in Node, NEW m \in Node, PairStep(n, m) PROVE CInv'
  BY <1>4, LearnFromStep, AskStep DEF PairStep
<1>5. ASSUME NEW c \in msgs, ReceiverStep(c) PROVE CInv'
  <2>1. CASE Lose(c)
    BY <2>1, LoseStep
  <2>2. CASE ~Lose(c)
    <3>1. c.type = "file"
      BY <1>5, <2>2 DEF ReceiverStep, OnSendCheckpoint_Begin, OnSendCheckpoint_Ing,
         OnSendCheckpoint_End, CrashInBegin, Receives
    <3>2. c \in Parts
      BY <3>1 DEF Parts
    <3>. QED  BY <3>2, <1>5, <2>2, BeginStep, IngStep, EndStep, CrashInBeginStep DEF ReceiverStep
  <2>. QED  BY <2>1, <2>2
<1>. QED  BY <1>1, <1>2, <1>3, <1>4, <1>5 DEF Next

\* The inductive invariant of Spec: where a node is, what a session is, what is
\* remembered and that who wrote nothing in a pull has a disk it can start on.
THEOREM CheckpointInvariant == Spec => []CInv
<1>1. Init => CInv
  BY CInit
<1>2. CInv /\ [Next]_vars => CInv'
  BY CStep
<1>. QED  BY <1>1, <1>2, PTL DEF Spec

-----------------------------------------------------------------------------
(* What the runs check.                                                     *)

\* Every field has its type, and the number of sessions stays in its bound,
\* whatever the nodes send and lose.
THEOREM CheckpointTypes == Spec => []TypeOK
<1>1. CInv => TypeOK
  <2> SUFFICES ASSUME CInv PROVE TypeOK
    OBVIOUS
  <2>1. StateOK /\ SessionsOK
    BY DEF CInv
  <2>2. sessions \in 0 .. MaxSessions
    <3>1. Cardinality(Asks) \in Nat
      BY <2>1, MessageFacts
    <3>. QED  BY <3>1, <2>1, Bounds DEF StateOK
  <2>3. ASSUME NEW n \in Node
        PROVE  /\ disk[n].log \subseteq Instances /\ disk[n].promise \subseteq Instances
               /\ disk[n].cp \in Instances /\ disk[n].min \in 0 .. TooLarge
               /\ disk[n].tmp \cup disk[n].parts \subseteq Instances \X (1 .. Files)
    <3>1. disk[n] \in Disks
      BY <2>1 DEF StateOK
    <3>. QED  BY <3>1 DEF Disks, Blocks
  <2>4. ASSUME NEW n \in Node
        PROVE  /\ mem[n].up \in BOOLEAN /\ mem[n].asking \in BOOLEAN
               /\ mem[n].now \in Instances /\ mem[n].min \in 0 .. TooLarge
               /\ mem[n].lastSave \in Instances /\ mem[n].todo \subseteq Instances
               /\ mem[n].rcv.from \in Node \cup {NoNode}
               /\ mem[n].rcv.uuid \in 0 .. MaxSessions /\ mem[n].rcv.seq \in 0 .. Files
               /\ mem[n].pull \in {"none", "further", "overrun", "stale"}
    <3>1. mem[n] \in Processes /\ mem[n].rcv \in Receivers
      BY <2>1 DEF StateOK, Processes
    <3>2. mem[n].rcv.uuid \in 0 .. MaxSessions
      <4>1. mem[n].rcv.uuid \in Nat /\ mem[n].rcv.uuid <= sessions
        BY <3>1, <2>1 DEF SessionsOK, Receivers
      <4>. QED  BY <4>1, <2>2, Bounds
    <3>. QED  BY <3>1, <3>2 DEF Processes, Receivers
  <2>5. ASSUME NEW n \in Node
        PROVE  /\ sender[n].to \in Node \cup {NoNode}
               /\ sender[n].uuid \in 0 .. MaxSessions /\ sender[n].seq \in 0 .. Files + 1
    <3>1. sender[n] \in Senders
      BY <2>1 DEF StateOK
    <3>2. sender[n].uuid \in 0 .. MaxSessions
      <4>1. sender[n].uuid = 0 \/ sender[n].uuid \in 1 .. sessions
        BY <2>1 DEF SessionsOK, NoSender
      <4>. QED  BY <4>1, <2>2, Bounds
    <3>. QED  BY <3>1, <3>2 DEF Senders
  <2>6. \A c \in msgs : c.from \in Node /\ c.to \in Node /\ c.type \in {"ask", "file"}
    BY <2>1 DEF StateOK, AskMessages, FileMessages
  <2>7. top \in Instances /\ {voted, tainted, hasty} \subseteq SUBSET Node
        /\ faults \in 0 .. MaxFaults
    BY <2>1 DEF StateOK
  <2>. QED  BY <2>2, <2>3, <2>4, <2>5, <2>6, <2>7 DEF TypeOK
<1>. QED  BY <1>1, CheckpointInvariant, PTL

\* Whatever is deleted, cleared and pulled, of the nodes less than a majority
\* have forgotten a chosen instance, except those that asked for a checkpoint
\* lacking only the last one (Cleaner::run, CheckpointReceiver::NewReceiver).
THEOREM ChosenIsRemembered == Spec => []QuorumRemembers
<1>1. CInv => QuorumRemembers
  <2> SUFFICES ASSUME CInv PROVE QuorumRemembers
    OBVIOUS
  <2>1. StateOK /\ MemoryOK /\ top \in Nat
    BY DEF CInv, StateOK, Instances
  <2>2. ASSUME NEW i \in 0 .. (top - 1)
        PROVE  Cardinality(Forgetters(i) \ hasty) < Majority
    <3> DEFINE F == Forgetters(i) \ hasty
               G == Forgetters(top - 1) \ hasty
    <3>1. F \subseteq G
      <4>1. ASSUME NEW n \in Node, Remembers(n, top - 1) PROVE Remembers(n, i)
        <5>1. disk[n] \in Disks /\ NowAtStart(disk[n]) \in Nat /\ i \in Nat /\ i <= top - 1
          BY <2>1, StartPosition, Bounds DEF StateOK
        <5>2. CASE NowAtStart(disk[n]) > top - 1
          BY <5>1, <5>2, <2>1 DEF Remembers
        <5>3. CASE top - 1 \in disk[n].log /\ i < top - 1
          <6>1. top - 1 \in Records(disk[n])
            BY <5>3 DEF Records
          <6>2. NowAtStart(disk[n]) > i
            BY <6>1, <5>1, <5>3, StartAbove
          <6>. QED  BY <6>2 DEF Remembers
        <5>4. CASE i = top - 1
          BY <4>1, <5>4
        <5>. QED  BY <4>1, <5>1, <5>2, <5>3, <5>4, <2>1 DEF Remembers
      <4>. QED  BY <4>1 DEF Forgetters
    <3>2. G \subseteq Node /\ Cardinality(G) < Majority
      BY <2>1 DEF MemoryOK, Forgetters
    <3> HIDE DEF F, G
    <3>3. /\ Cardinality(F) <= Cardinality(G) /\ Cardinality(F) \in Nat
          /\ Cardinality(G) \in Nat /\ Cardinality(Node) \in Nat
      BY <3>1, <3>2, Bounds, FS_Subset, FS_CardinalityType
    <3>4. Majority \in Nat
      BY <3>3 DEF Majority
    <3>5. Cardinality(F) < Majority
      BY <3>2, <3>3, <3>4
    <3>. QED  BY <3>5 DEF F
  <2>. QED  BY <2>1, <2>2 DEF QuorumRemembers, MemoryOK
<1>. QED  BY <1>1, CheckpointInvariant, PTL

\* At whichever message or crash a pull of a checkpoint breaks off, the node can
\* start on what it leaves, if it has written nothing since its log was cleared
\* (Instance::PlayLog, ProtectionLogic_IsCheckpointInstanceIDCorrect).
THEOREM RestartIsPossible == Spec => []CanRestart
<1>1. CInv => CanRestart
  <2> SUFFICES ASSUME CInv, NEW n \in Node, n \notin tainted PROVE ~StartFails(disk[n])
    BY DEF CanRestart
  <2>1. disk[n] \in Disks /\ mem[n] \in Processes /\ Within(disk[n], mem[n].now)
        /\ Clean(disk[n], mem[n])
    BY NodeFacts
  <2>. QED  BY <2>1, CleanStarts
<1>. QED  BY <1>1, CheckpointInvariant, PTL

\* What the state machine loaded is one whole checkpoint of the instance it
\* names, whatever senders give up and whoever sends next
\* (CheckpointReceiver::ReceiveCheckpoint, OnSendCheckpoint_End).
THEOREM WholeCheckpointIsLoaded == Spec => []LoadedWhole
<1>1. CInv => LoadedWhole
  BY DEF CInv
<1>. QED  BY <1>1, CheckpointInvariant, PTL

\* A node that answers a learner has the records above its minimum, unless it
\* wrote to its log in a pull, pulls a checkpoint below its own instance, or its
\* cleaner went on in the pull with an older pass (Learner::OnAskforLearn).
THEOREM NoHoleAboveMin == Spec => []LogAboveMin
<1>1. CInv => LogAboveMin
  BY DEF CInv, Clean, LogAboveMin
<1>. QED  BY <1>1, CheckpointInvariant, PTL
=============================================================================
