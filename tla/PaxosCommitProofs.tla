--------------------------- MODULE PaxosCommitProofs ----------------------------
(***************************************************************************)
(* Proof, for any threads, batch size, retries and lengths of the log, of  *)
(* what the threads that propose rely on: OK is told of one's own value,   *)
(* no proposal is executed twice, and no means no.                         *)
(***************************************************************************)
EXTENDS PaxosCommitSafety, SequenceTheorems, FiniteSetTheorems, TLAPS

Ids == {<<>>} \cup (Proposers \X Seq(Threads) \X Int)

Shape ==
  /\ thread \in [Threads -> {"new", "adding", "waits", "done"}]
  /\ queue \in Seq(Threads) /\ IsInjective(queue)
  /\ run \in [Proposers -> [work : Seq(Threads), tries : Int,
                            at : {"idle", "enter", "wait", "commit"}]]
  /\ ctx \in [value : Seq(Threads), instance : Int, ended : BOOLEAN, ret : Rets, id : Ids]
  /\ chosen \in Seq(Seq(Proposers)) /\ pvalue \in Seq(Threads)

Executed(t) == \E i \in DOMAIN chosen : t \in Range(chosen[i])

\* Nobody proposes t's value to paxos, and it was not chosen.
Free(t) == t \notin Range(pvalue) /\ ~ Executed(t)

NewOK ==
  \A t \in Threads : thread[t] \in {"new", "adding"} => Free(t) /\ run[t].at = "idle"

QueueOK == \A t \in Range(queue) : thread[t] = "waits" /\ Free(t)

\* A proposal is in the queue or with one proposer, and is free until that
\* proposer has the wait lock.
WorkOK(p) ==
  \A t \in Range(run[p].work) :
    /\ thread[t] = "waits" /\ t \notin Range(queue)
    /\ \A q \in Proposers \ {p} : t \notin Range(run[q].work)
    /\ run[p].at \in {"enter", "wait"} => Free(t)

AllFree(value) == \A t \in Range(value) : Free(t)

\* The commit of p, before the I/O loop has seen it, in its instance, and at
\* its end.
CommitOK(p) ==
  /\ holder = {p}
  /\ ~ ctx.ended =>
       /\ ctx.value = run[p].work
       /\ ctx.instance = -1 => AllFree(run[p].work)
       /\ ctx.instance # -1 =>
            /\ ctx.instance = Instance
            /\ \A t \in Range(run[p].work) : ~ Executed(t)
            /\ pvalue = run[p].work \/ AllFree(run[p].work)
  /\ ctx.ended =>
       /\ ctx.ret \in {"OK", "Conflict", "Timeout", "TooLarge", "ExecuteFail"}
       /\ ctx.ret = "OK" => /\ ctx.instance \in 0 .. Instance - 1
                            /\ chosen[ctx.instance + 1] = run[p].work
       /\ ctx.ret \in {"Conflict", "TooLarge"} => AllFree(run[p].work)

ProposersOK ==
  \A p \in Proposers :
    /\ WorkOK(p)
    /\ run[p].at = "idle" => run[p].work = Nothing
    /\ run[p].at = "commit" => CommitOK(p)

ContextOK == ctx.value # Nothing => ~ ctx.ended /\ \E p \in Proposers : run[p].at = "commit"

ValuesOK ==
  /\ \A t \in Range(pvalue) : ~ Executed(t)
  /\ pending \in {Nothing, Foreign, pvalue}

AnswerOK ==
  \A t \in Threads :
    answer[t].ret \in {"Conflict", "Reject", "TooLarge", "SystemError"} =>
      thread[t] = "done" /\ Free(t)

OwnOK ==
  \A t \in Threads : answer[t].ret = "OK" =>
    /\ answer[t].instance \in 0 .. Instance - 1
    /\ LET value == chosen[answer[t].instance + 1]
       IN  value = <<t>> \/ (Len(value) > 1 /\ value[answer[t].index] = t)

CInv ==
  /\ Shape /\ NewOK /\ QueueOK /\ ProposersOK /\ ContextOK
  /\ ValuesOK /\ AnswerOK /\ OwnOK /\ NeverTwice

------------------------------------------------------------------------------
(***************************************************************************)
(* Sequences.                                                              *)
(***************************************************************************)
LEMMA RangeIn == ASSUME NEW T, NEW s \in Seq(T) PROVE Range(s) \subseteq T
BY DEF Range

LEMMA RangeOne == ASSUME NEW t PROVE Range(<<t>>) = {t}
BY DEF Range

LEMMA RangeEmpty == Range(<<>>) = {}
BY DEF Range

\* What is plucked from a queue and what stays has different threads.
LEMMA PluckedAndLeft ==
  ASSUME NEW q \in Seq(Threads), IsInjective(q)
  PROVE  /\ Plucked(q) \in Seq(Threads) /\ LeftOver(q) \in Seq(Threads)
         /\ IsInjective(LeftOver(q))
         /\ Range(Plucked(q)) \subseteq Range(q) /\ Range(LeftOver(q)) \subseteq Range(q)
         /\ Range(Plucked(q)) \cap Range(LeftOver(q)) = {}
<1> DEFINE k == IF Len(q) < BatchCount THEN Len(q) ELSE BatchCount
<1>1. k \in Nat /\ k <= Len(q) /\ BatchCount \in Nat \ {0} /\ Len(q) \in Nat /\ k <= BatchCount
  BY CommitAssumption
<1>2. \A i \in 1 .. Len(q) : q[i] \in Threads
  OBVIOUS
<1>3. /\ Plucked(q) \in Seq(Threads)
      /\ Len(Plucked(q)) = k
      /\ \A i \in 1 .. k : Plucked(q)[i] = q[i]
  <2>1. Plucked(q) = SubSeq(q, 1, k)
    BY DEF Plucked
  <2> HIDE DEF k
  <2>. QED  BY <1>1, <1>2, <2>1, SubSeqProperties
<1>4. /\ LeftOver(q) \in Seq(Threads)
      /\ Len(LeftOver(q)) = (IF BatchCount + 1 <= Len(q) THEN Len(q) - BatchCount ELSE 0)
      /\ \A i \in 1 .. Len(LeftOver(q)) : LeftOver(q)[i] = q[BatchCount + i]
  <2>1. \A i \in BatchCount + 1 .. Len(q) : q[i] \in Threads
    BY <1>1, <1>2
  <2> DEFINE r == SubSeq(q, BatchCount + 1, Len(q))
  <2>2. /\ r \in Seq(Threads)
        /\ Len(r) = (IF BatchCount + 1 <= Len(q) THEN Len(q) - (BatchCount + 1) + 1 ELSE 0)
        /\ \A i \in 1 .. Len(q) - (BatchCount + 1) + 1 : r[i] = q[BatchCount + 1 + i - 1]
    BY <1>1, <2>1, SubSeqProperties
  <2>3. LeftOver(q) = r
    BY DEF LeftOver
  <2> HIDE DEF r
  <2>. QED  BY <1>1, <2>2, <2>3
<1> HIDE DEF k
<1> DEFINE left == LeftOver(q)  front == Plucked(q)
<1>5. \A i, j \in 1 .. Len(q) : q[i] = q[j] => i = j
  BY DEF IsInjective
<1>6. /\ DOMAIN left = 1 .. Len(left) /\ DOMAIN front = 1 .. k /\ DOMAIN q = 1 .. Len(q)
      /\ \A i \in 1 .. Len(left) : BatchCount + i \in k + 1 .. Len(q) /\ left[i] = q[BatchCount + i]
      /\ \A i \in 1 .. k : i \in 1 .. Len(q) /\ front[i] = q[i]
  <2>1. Len(left) \in Nat /\ DOMAIN left = 1 .. Len(left) /\ DOMAIN front = 1 .. k
    BY <1>3, <1>4
  <2>2. \A i \in 1 .. Len(left) : BatchCount + i \in k + 1 .. Len(q)
    BY <1>1, <1>4, <2>1
  <2>. QED  BY <1>1, <1>3, <1>4, <2>1, <2>2
<1>7. /\ IsInjective(left)
      /\ Range(front) \subseteq Range(q) /\ Range(left) \subseteq Range(q)
      /\ Range(front) \cap Range(left) = {}
  <2> HIDE DEF left, front
  <2>1. IsInjective(left)
    <3>1. ASSUME NEW i \in 1 .. Len(left), NEW j \in 1 .. Len(left), left[i] = left[j] PROVE i = j
      <4>1. BatchCount + i \in 1 .. Len(q) /\ BatchCount + j \in 1 .. Len(q)
        BY <1>1, <1>6
      <4>2. BatchCount + i = BatchCount + j
        BY <1>5, <1>6, <3>1, <4>1
      <4>. QED  BY <1>1, <4>2
    <3>. QED  BY <1>6, <3>1 DEF IsInjective
  <2>2. \A t \in Range(front) : \E i \in 1 .. k : i \in 1 .. Len(q) /\ t = q[i]
    BY <1>6 DEF Range
  <2>3. \A t \in Range(left) : \E i \in k + 1 .. Len(q) : i \in 1 .. Len(q) /\ t = q[i]
    <3>1. \A i \in k + 1 .. Len(q) : i \in 1 .. Len(q)
      BY <1>1
    <3>. QED  BY <1>6, <3>1 DEF Range
  <2>4. \A i \in 1 .. Len(q) : q[i] \in Range(q)
    BY <1>6 DEF Range
  <2>5. \A i \in 1 .. k, j \in k + 1 .. Len(q) : i # j
    BY <1>1
  <2>. QED  BY <1>5, <2>1, <2>2, <2>3, <2>4, <2>5
<1>. QED  BY <1>3, <1>4, <1>7

LEMMA AppendDistinct ==
  ASSUME NEW T, NEW q \in Seq(T), IsInjective(q), NEW t \in T, t \notin Range(q)
  PROVE  /\ Append(q, t) \in Seq(T) /\ IsInjective(Append(q, t))
         /\ Range(Append(q, t)) = Range(q) \cup {t}
<1> SUFFICES ASSUME NEW a, a = Append(q, t)
             PROVE  a \in Seq(T) /\ IsInjective(a) /\ Range(a) = Range(q) \cup {t}
  OBVIOUS
<1>1. /\ a \in Seq(T) /\ Len(a) = Len(q) + 1 /\ Len(q) \in Nat
      /\ \A i \in 1 .. Len(q) : a[i] = q[i]
      /\ a[Len(q) + 1] = t
  BY AppendProperties
<1>2. IsInjective(a)
  BY <1>1 DEF IsInjective, Range
<1>3. Range(a) = Range(q) \cup {t}
  <2>1. DOMAIN a = 1 .. Len(q) + 1 /\ DOMAIN q = 1 .. Len(q)
    BY <1>1
  <2>2. \A i \in 1 .. Len(q) + 1 : i \in 1 .. Len(q) \/ i = Len(q) + 1
    BY <1>1
  <2>3. \A i \in 1 .. Len(q) : i \in 1 .. Len(q) + 1
    BY <1>1
  <2>4. Len(q) + 1 \in 1 .. Len(q) + 1
    BY <1>1
  <2>. QED  BY <1>1, <2>1, <2>2, <2>3, <2>4 DEF Range
<1>. QED  BY <1>1, <1>2, <1>3

\* A thread finds its proposal at its place in a value.
LEMMA PlaceIs ==
  ASSUME NEW value \in Seq(Threads), NEW t \in Range(value)
  PROVE  value = <<t>> \/ (Len(value) > 1 /\ value[Place(value, t)] = t)
<1>1. PICK i \in DOMAIN value : value[i] = t
  BY DEF Range
<1>2. Len(value) \in Nat /\ DOMAIN value = 1 .. Len(value)
  OBVIOUS
<1>3. CASE Len(value) = 1
  BY <1>1, <1>2, <1>3
<1>4. CASE Len(value) # 1
  <2>1. Len(value) > 1
    BY <1>1, <1>2, <1>4
  <2>2. Place(value, t) = CHOOSE j \in DOMAIN value : value[j] = t
    BY <1>4 DEF Place
  <2>. QED  BY <1>1, <2>1, <2>2
<1>. QED  BY <1>3, <1>4

------------------------------------------------------------------------------
(***************************************************************************)
(* The I/O loop.                                                           *)
(***************************************************************************)
threadVars == <<thread, answer, queue, run, holder>>

LEMMA SameFree ==
  ASSUME UNCHANGED <<pvalue, chosen>>
  PROVE  /\ \A t : Free(t)' <=> Free(t)
         /\ \A value : AllFree(value)' <=> AllFree(value)
         /\ \A t : Executed(t)' <=> Executed(t)
BY DEF Free, Executed, AllFree

\* A commit that ends without a value.
LEMMA EndContext ==
  ASSUME Shape, NEW value, NEW ret
  PROVE  [ctx EXCEPT !.ended = TRUE, !.value = value, !.ret = ret] =
           [value |-> value, instance |-> ctx.instance, ended |-> TRUE, ret |-> ret, id |-> ctx.id]
<1> DEFINE V == Seq(Threads)  B == BOOLEAN  yes == TRUE
<1>1. ctx \in [value : V, instance : Int, ended : B, ret : Rets, id : Ids]
  BY DEF Shape
<1> HIDE DEF V, B, yes
<1> DEFINE c1 == [ctx EXCEPT !.ended = yes]
           c2 == [c1 EXCEPT !.value = value]
           c3 == [c2 EXCEPT !.ret = ret]
<1>2. c1 = [value |-> ctx.value, instance |-> ctx.instance, ended |-> yes, ret |-> ctx.ret, id |-> ctx.id]
  BY <1>1
<1> HIDE DEF c1
<1>3. c2 = [value |-> value, instance |-> ctx.instance, ended |-> yes, ret |-> ctx.ret, id |-> ctx.id]
  BY <1>2
<1> HIDE DEF c2
<1>4. c3 = [value |-> value, instance |-> ctx.instance, ended |-> yes, ret |-> ret, id |-> ctx.id]
  BY <1>3
<1>5. [ctx EXCEPT !.ended = yes, !.value = value, !.ret = ret] = c3
  BY DEF c1, c2, c3
<1>. QED  BY <1>4, <1>5 DEF yes

LEMMA EndCommit ==
  ASSUME CInv, UNCHANGED <<threadVars, pvalue, chosen>>, ValuesOK',
         NEW ret \in {"Timeout", "TooLarge", "ExecuteFail"}, NEW i \in Int, NEW value,
         ret = "TooLarge" => i = -1, ctx' = SetResult(ret, i, value)
  PROVE  CInv'
<1>1. UNCHANGED <<thread, answer, queue, run, holder>>
  BY DEF threadVars
<1>2. CASE ctx' = ctx
  <2>1. Shape'
    BY <1>1, <1>2 DEF CInv, Shape
  <2>2. NewOK' /\ QueueOK' /\ ContextOK' /\ AnswerOK' /\ OwnOK' /\ NeverTwice'
    BY <1>1, <1>2, SameFree
       DEF CInv, NewOK, QueueOK, ContextOK, AnswerOK, OwnOK, NeverTwice, Instance
  <2>3. ProposersOK'
    BY <1>1, <1>2, SameFree DEF CInv, ProposersOK, WorkOK, CommitOK, Instance
  <2>. QED  BY <2>1, <2>2, <2>3 DEF CInv
<1>3. CASE ctx' # ctx
  <2>1. /\ ~ ctx.ended /\ ctx.instance = i
        /\ ctx' = [ctx EXCEPT !.ended = TRUE, !.value = Nothing, !.ret = ret]
    <3>1. ret # "OK"
      OBVIOUS
    <3>. QED  BY <1>3, <3>1 DEF SetResult
  <2>2. Shape
    BY DEF CInv
  <2>3. /\ ctx'.ended = TRUE /\ ctx'.value = Nothing /\ ctx'.ret = ret /\ ctx'.instance = ctx.instance
        /\ ctx' \in [value : Seq(Threads), instance : Int, ended : BOOLEAN, ret : Rets, id : Ids]
    <3>1. Nothing \in Seq(Threads) /\ ret \in Rets
      BY DEF Nothing, Rets
    <3>2. ctx.instance \in Int /\ ctx.id \in Ids
      BY <2>2 DEF Shape
    <3>3. ctx' = [value |-> Nothing, instance |-> ctx.instance, ended |-> TRUE, ret |-> ret,
                  id |-> ctx.id]
      BY <2>1, <2>2, EndContext
    <3>. QED  BY <3>1, <3>2, <3>3
  <2>4. Shape' /\ ContextOK'
    BY <1>1, <2>2, <2>3 DEF Shape, ContextOK
  <2>5. NewOK' /\ QueueOK' /\ AnswerOK' /\ OwnOK' /\ NeverTwice'
    BY <1>1, SameFree DEF CInv, NewOK, QueueOK, AnswerOK, OwnOK, NeverTwice, Instance
  <2>6. ASSUME NEW p \in Proposers
        PROVE  /\ WorkOK(p)'
               /\ run'[p].at = "idle" => run'[p].work = Nothing
               /\ run'[p].at = "commit" => CommitOK(p)'
    <3>1. WorkOK(p)'
      BY <1>1, SameFree DEF CInv, ProposersOK, WorkOK
    <3>2. ASSUME run[p].at = "commit" PROVE CommitOK(p)'
      <4>1. CommitOK(p)
        BY <3>2 DEF CInv, ProposersOK
      <4>2. holder' = {p} /\ ctx'.ended /\ ctx'.ret = ret
        BY <1>1, <2>3, <4>1 DEF CommitOK
      <4>3. ret = "TooLarge" => AllFree(run[p].work)
        BY <2>1, <4>1 DEF CommitOK
      <4>4. ret = "TooLarge" => \A t \in Range(run'[p].work) : Free(t)'
        BY <1>1, <4>3, SameFree DEF AllFree
      <4>. QED  BY <4>2, <4>4 DEF CommitOK, AllFree
    <3>. QED  BY <1>1, <3>1, <3>2 DEF CInv, ProposersOK
  <2>. QED  BY <2>4, <2>5, <2>6 DEF CInv, ProposersOK
<1>. QED  BY <1>2, <1>3

\* A node that falls behind or catches up changes nothing of a commit.
LEMMA SameCommit ==
  ASSUME CInv, UNCHANGED <<threadVars, ctx, pvalue, chosen, pending>> PROVE CInv'
<1>1. UNCHANGED <<thread, answer, queue, run, holder>>
  BY DEF threadVars
<1>2. Shape' /\ ValuesOK'
  BY <1>1, SameFree DEF CInv, Shape, ValuesOK
<1>3. NewOK' /\ QueueOK' /\ ContextOK' /\ AnswerOK' /\ OwnOK' /\ NeverTwice'
  BY <1>1, SameFree
     DEF CInv, NewOK, QueueOK, ContextOK, AnswerOK, OwnOK, NeverTwice, Instance
<1>4. ProposersOK'
  BY <1>1, SameFree DEF CInv, ProposersOK, WorkOK, CommitOK, Instance
<1>. QED  BY <1>2, <1>3, <1>4 DEF CInv

LEMMA LearnableIs == ASSUME CInv PROVE Learnable \subseteq {Foreign, pvalue}
BY DEF CInv, ValuesOK, Learnable

\* The loop takes up a commit: its value is the node's, unless the value of
\* an earlier commit is still there.
LEMMA CheckNewValueStep == ASSUME CInv, CheckNewValue PROVE CInv'
<1>1. /\ ctx.instance = -1 /\ ctx.value # Nothing
      /\ ctx' = [ctx EXCEPT !.instance = Instance]
      /\ pvalue' = IF pvalue = Nothing THEN ctx.value ELSE pvalue
      /\ UNCHANGED <<thread, answer, queue, run, holder, chosen, pending>>
  BY DEF CheckNewValue, IsNewCommit, batchVars
<1>2. PICK p \in Proposers : run[p].at = "commit" /\ CommitOK(p) /\ WorkOK(p) /\ ~ ctx.ended
  BY <1>1 DEF CInv, ContextOK, ProposersOK
<1>3. ctx.value = run[p].work /\ AllFree(run[p].work) /\ holder = {p}
  BY <1>1, <1>2 DEF CommitOK
<1>4. Shape /\ Instance \in Nat
  BY DEF CInv, Shape, Instance
<1>5. /\ ctx'.instance = Instance /\ ctx'.value = ctx.value /\ ctx'.ended = ctx.ended
      /\ ctx' \in [value : Seq(Threads), instance : Int, ended : BOOLEAN, ret : Rets, id : Ids]
  <2> DEFINE V == Seq(Threads)  B == BOOLEAN
  <2>1. ctx \in [value : V, instance : Int, ended : B, ret : Rets, id : Ids]
    BY <1>4 DEF Shape
  <2> HIDE DEF V, B
  <2>2. /\ ctx'.instance = Instance /\ ctx'.value = ctx.value /\ ctx'.ended = ctx.ended
        /\ ctx' \in [value : V, instance : Int, ended : B, ret : Rets, id : Ids]
    BY <1>1, <1>4, <2>1
  <2>. QED  BY <2>2 DEF V, B
<1>6. pvalue' = pvalue \/ (pvalue = Nothing /\ pvalue' = run[p].work)
  BY <1>1, <1>3
<1>7. Shape' /\ ContextOK'
  BY <1>1, <1>2, <1>4, <1>5, <1>6 DEF Shape, ContextOK
<1>8. \A t : Executed(t)' <=> Executed(t)
  BY <1>1 DEF Executed
<1>9. \A t : Free(t) /\ t \notin Range(run[p].work) => Free(t)'
  BY <1>6, <1>8 DEF Free
<1>10. \A t \in Range(run[p].work) : thread[t] = "waits" /\ t \notin Range(queue) /\ ~ Executed(t)
  BY <1>2, <1>3 DEF WorkOK, AllFree, Free
<1>11. NewOK' /\ QueueOK' /\ AnswerOK' /\ OwnOK' /\ NeverTwice'
  BY <1>1, <1>9, <1>10 DEF CInv, NewOK, QueueOK, AnswerOK, OwnOK, NeverTwice, Instance
<1>12. ValuesOK'
  <2>1. \A t \in Range(pvalue') : ~ Executed(t)'
    BY <1>6, <1>8, <1>10 DEF CInv, ValuesOK
  <2>2. pending' \in {Nothing, Foreign, pvalue'}
    BY <1>1, <1>6 DEF CInv, ValuesOK
  <2>. QED  BY <2>1, <2>2 DEF ValuesOK
<1>13. ProposersOK'
  <2>1. ASSUME NEW q \in Proposers, q # p
        PROVE  /\ WorkOK(q)'
               /\ run'[q].at = "idle" => run'[q].work = Nothing
               /\ run'[q].at # "commit"
    <3>1. WorkOK(q) /\ (run[q].at = "idle" => run[q].work = Nothing)
      BY DEF CInv, ProposersOK
    <3>2. WorkOK(q)'
      BY <1>1, <1>2, <1>9, <2>1, <3>1 DEF WorkOK
    <3>3. run[q].at # "commit"
      BY <1>3, <2>1 DEF CInv, ProposersOK, CommitOK
    <3>. QED  BY <1>1, <3>1, <3>2, <3>3
  <2>2. WorkOK(p)'
    BY <1>1, <1>2 DEF WorkOK
  <2>3. CommitOK(p)'
    <3>1. AllFree(run[p].work) /\ pvalue' = pvalue => AllFree(run[p].work)'
      BY <1>1, <1>8 DEF AllFree, Free
    <3>2. \A t \in Range(run'[p].work) : ~ Executed(t)'
      BY <1>1, <1>8, <1>10
    <3>. QED  BY <1>1, <1>2, <1>3, <1>4, <1>5, <1>6, <3>1, <3>2 DEF CommitOK, Instance
  <2>. QED  BY <1>1, <1>2, <2>1, <2>2, <2>3 DEF ProposersOK
<1>. QED  BY <1>7, <1>11, <1>12, <1>13 DEF CInv

\* An instance is learned: the commit that waits for it ends with OK if it is
\* its own value, and with a conflict otherwise.
LEMMA LearnStep ==
  ASSUME CInv, NEW value \in Learnable, Learn(value) PROVE CInv'
<1>1. /\ chosen' = Append(chosen, value)
      /\ ctx' = SetResult("OK", Instance, value)
      /\ pvalue' = Nothing /\ pending' = Nothing
      /\ UNCHANGED <<thread, answer, queue, run, holder>>
  BY DEF Learn, batchVars
<1>2. value \in {Foreign, pvalue} /\ Shape
  BY LearnableIs DEF CInv
<1>3. value \in Seq(Proposers)
  <2>1. Foreign \in Seq(Proposers)
    BY DEF Foreign, Proposers
  <2>2. pvalue \in Seq(Proposers)
    BY <1>2 DEF Shape, Proposers
  <2>. QED  BY <1>2, <2>1, <2>2
<1>4. /\ chosen' \in Seq(Seq(Proposers)) /\ Instance \in Nat /\ Instance' = Instance + 1
      /\ \A i \in 1 .. Instance : chosen'[i] = chosen[i]
      /\ chosen'[Instance + 1] = value
  BY <1>1, <1>2, <1>3, AppendProperties DEF Shape, Instance
<1>5. DOMAIN chosen = 1 .. Instance /\ DOMAIN chosen' = 1 .. Instance + 1
  BY <1>2, <1>4 DEF Shape, Instance
<1>6. \A t \in Threads : t \in Range(value) => t \in Range(pvalue) /\ value = pvalue
  <2>1. \A t \in Threads : t \notin Range(Foreign)
    BY CommitAssumption, RangeOne DEF Foreign
  <2>. QED  BY <1>2, <2>1
<1>7. \A t : Executed(t)' <=> Executed(t) \/ t \in Range(value)
  <2>1. \A i \in 1 .. Instance + 1 : i \in 1 .. Instance \/ i = Instance + 1
    BY <1>4
  <2>2. \A i \in 1 .. Instance : i \in 1 .. Instance + 1
    BY <1>4
  <2>3. Instance + 1 \in 1 .. Instance + 1
    BY <1>4
  <2>. QED  BY <1>4, <1>5, <2>1, <2>2, <2>3 DEF Executed
<1>8. \A t \in Threads : Free(t) => Free(t)'
  BY <1>1, <1>6, <1>7, RangeEmpty DEF Free, Nothing
<1>9. ASSUME NEW p \in Proposers
      PROVE  Range(run[p].work) \subseteq Threads
  BY <1>2, RangeIn DEF Shape
<1>10. NewOK' /\ AnswerOK' /\ ValuesOK'
  BY <1>1, <1>8, RangeEmpty DEF CInv, NewOK, AnswerOK, ValuesOK, Nothing
<1>11. QueueOK'
  <2>1. Range(queue) \subseteq Threads
    BY <1>2, RangeIn DEF Shape
  <2>. QED  BY <1>1, <1>8, <2>1 DEF CInv, QueueOK
<1>12. OwnOK'
  <2>1. \A i \in 0 .. Instance - 1 : i \in 0 .. Instance' - 1 /\ chosen'[i + 1] = chosen[i + 1]
    BY <1>4
  <2>. QED  BY <1>1, <2>1 DEF CInv, OwnOK
<1>13. NeverTwice'
  <2> SUFFICES ASSUME NEW i \in 1 .. Instance + 1, NEW j \in 1 .. Instance + 1, NEW t \in Threads,
                      t \in Range(chosen'[i]), t \in Range(chosen'[j])
               PROVE  i = j
    BY <1>5 DEF NeverTwice
  <2>1. \A k \in 1 .. Instance + 1 : k \in 1 .. Instance \/ k = Instance + 1
    BY <1>4
  <2>2. \A k \in 1 .. Instance : t \in Range(chosen[k]) => t \notin Range(value)
    BY <1>5, <1>6 DEF CInv, ValuesOK, Executed
  <2>3. CASE i = Instance + 1 \/ j = Instance + 1
    BY <1>4, <2>1, <2>2, <2>3
  <2>4. CASE i \in 1 .. Instance /\ j \in 1 .. Instance
    BY <1>4, <1>5, <2>4 DEF CInv, NeverTwice
  <2>. QED  BY <2>1, <2>3, <2>4
<1>14. \/ ctx' = ctx /\ (ctx.ended \/ ctx.instance # Instance)
       \/ /\ ~ ctx.ended /\ ctx.instance = Instance
          /\ ctx'.ended = TRUE /\ ctx'.value = Nothing /\ ctx'.instance = ctx.instance
          /\ ctx'.ret = (IF ctx.value # value THEN "Conflict" ELSE "OK")
          /\ ctx' \in [value : Seq(Threads), instance : Int, ended : BOOLEAN, ret : Rets, id : Ids]
  <2> DEFINE ret == IF ctx.value # value THEN "Conflict" ELSE "OK"
  <2>1. CASE ctx.ended \/ ctx.instance # Instance
    BY <1>1, <2>1 DEF SetResult
  <2>2. CASE ~ (ctx.ended \/ ctx.instance # Instance)
    <3>1. ctx' = [ctx EXCEPT !.ended = TRUE, !.value = Nothing, !.ret = ret]
      BY <1>1, <2>2 DEF SetResult
    <3>2. Nothing \in Seq(Threads) /\ ret \in Rets
      BY DEF Nothing, Rets
    <3>3. ctx.instance \in Int /\ ctx.id \in Ids
      BY <1>2 DEF Shape
    <3> HIDE DEF ret
    <3>4. ctx' = [value |-> Nothing, instance |-> ctx.instance, ended |-> TRUE, ret |-> ret,
                  id |-> ctx.id]
      BY <1>2, <3>1, EndContext
    <3>5. /\ ctx'.ended = TRUE /\ ctx'.value = Nothing /\ ctx'.instance = ctx.instance
          /\ ctx'.ret = ret
          /\ ctx' \in [value : Seq(Threads), instance : Int, ended : BOOLEAN, ret : Rets, id : Ids]
      BY <3>2, <3>3, <3>4
    <3>. QED  BY <2>2, <3>5 DEF ret
  <2>. QED  BY <2>1, <2>2
<1>15. Shape'
  <2>1. ctx' \in [value : Seq(Threads), instance : Int, ended : BOOLEAN, ret : Rets, id : Ids]
    BY <1>2, <1>14 DEF Shape
  <2>2. Nothing \in Seq(Threads)
    BY DEF Nothing
  <2>. QED  BY <1>1, <1>2, <1>4, <2>1, <2>2 DEF Shape
<1>16. ContextOK'
  BY <1>1, <1>14 DEF CInv, ContextOK
<1>17. ASSUME NEW p \in Proposers
       PROVE  /\ WorkOK(p)'
              /\ run'[p].at = "idle" => run'[p].work = Nothing
              /\ run'[p].at = "commit" => CommitOK(p)'
  <2>1. /\ WorkOK(p) /\ (run[p].at = "idle" => run[p].work = Nothing)
    BY DEF CInv, ProposersOK
  <2>2. WorkOK(p)'
    BY <1>1, <1>8, <1>9, <2>1 DEF WorkOK
  <2>3. ASSUME run[p].at = "commit" PROVE CommitOK(p)'
    <3>1. CommitOK(p) /\ run'[p].work = run[p].work /\ holder' = {p}
      BY <1>1, <2>3 DEF CInv, ProposersOK, CommitOK
    <3>2. AllFree(run[p].work) => \A t \in Range(run'[p].work) : Free(t)'
      BY <1>8, <1>9, <3>1 DEF AllFree
    <3>3. CASE ctx' = ctx /\ ctx.ended
      <4>1. ctx.ret = "OK" => /\ ctx.instance \in 0 .. Instance' - 1
                              /\ chosen'[ctx.instance + 1] = run[p].work
        <5>1. \A i \in 0 .. Instance - 1 : i \in 0 .. Instance' - 1 /\ chosen'[i + 1] = chosen[i + 1]
          BY <1>4
        <5>. QED  BY <3>1, <3>3, <5>1 DEF CommitOK
      <4>. QED  BY <3>1, <3>2, <3>3, <4>1 DEF CommitOK, AllFree
    <3>4. CASE ctx' = ctx /\ ~ ctx.ended /\ ctx.instance # Instance
      <4>1. ctx.instance = -1 /\ AllFree(run[p].work) /\ ctx.value = run[p].work
        BY <3>1, <3>4 DEF CommitOK
      <4>. QED  BY <3>1, <3>2, <3>4, <4>1 DEF CommitOK, AllFree
    <3>5. CASE /\ ~ ctx.ended /\ ctx.instance = Instance
               /\ ctx'.ended = TRUE /\ ctx'.instance = ctx.instance
               /\ ctx'.ret = (IF ctx.value # value THEN "Conflict" ELSE "OK")
      <4>1. /\ ctx.value = run[p].work
            /\ \A t \in Range(run[p].work) : ~ Executed(t)
            /\ pvalue = run[p].work \/ AllFree(run[p].work)
        BY <1>4, <3>1, <3>5 DEF CommitOK
      <4>2. CASE ctx.value = value
        <5>1. /\ ctx'.ret = "OK" /\ ctx'.instance \in 0 .. Instance' - 1
              /\ chosen'[ctx'.instance + 1] = run'[p].work
          BY <1>4, <3>1, <3>5, <4>1, <4>2
        <5>. QED  BY <3>1, <3>5, <5>1 DEF CommitOK
      <4>3. CASE ctx.value # value
        <5>1. \A t \in Range(run[p].work) : t \notin Range(value)
          BY <1>2, <1>6, <1>9, <4>1, <4>3 DEF AllFree, Free
        <5>2. \A t \in Range(run'[p].work) : Free(t)'
          BY <1>1, <1>7, <3>1, <4>1, <5>1, RangeEmpty DEF Free, Nothing
        <5>3. ctx'.ret = "Conflict"
          BY <3>5, <4>3
        <5>. QED  BY <3>1, <3>5, <5>2, <5>3 DEF CommitOK, AllFree
      <4>. QED  BY <4>2, <4>3
    <3>. QED  BY <1>14, <3>3, <3>4, <3>5
  <2>. QED  BY <1>1, <2>1, <2>2, <2>3
<1>. QED  BY <1>10, <1>11, <1>12, <1>13, <1>15, <1>16, <1>17 DEF CInv, ProposersOK

LEMMA LoopStep == ASSUME CInv, Loop PROVE CInv'
<1>1. CASE RefuseNewValue
  <2>1. /\ UNCHANGED <<threadVars, pvalue, chosen, pending>>
        /\ ctx' = SetResult("TooLarge", -1, Nothing)
    BY <1>1 DEF RefuseNewValue, threadVars, batchVars, loopVars
  <2>2. ValuesOK'
    BY <2>1, SameFree DEF CInv, ValuesOK
  <2>. QED  BY <2>1, <2>2, EndCommit
<1>2. CASE CommitTimer
  <2>1. /\ UNCHANGED <<threadVars, pvalue, chosen, pending>>
        /\ ctx' = SetResult("Timeout", Instance, Nothing)
    BY <1>2 DEF CommitTimer, CommitTimeout, threadVars, batchVars
  <2>2. ValuesOK' /\ Instance \in Int
    BY <2>1, SameFree DEF CInv, ValuesOK, Shape, Instance
  <2>. QED  BY <2>1, <2>2, EndCommit
<1>3. ASSUME NEW value \in Learnable, ExecuteFail(value) PROVE CInv'
  <2>1. /\ UNCHANGED <<threadVars, pvalue, chosen>> /\ pending' = value
        /\ ctx' = SetResult("ExecuteFail", Instance, value)
    BY <1>3 DEF ExecuteFail, threadVars, batchVars
  <2>2. ValuesOK' /\ Instance \in Int
    BY <2>1, SameFree, LearnableIs DEF CInv, ValuesOK, Shape, Instance
  <2>. QED  BY <2>1, <2>2, EndCommit
<1>4. CASE FallBehind \/ CatchUp
  BY <1>4, SameCommit DEF FallBehind, CatchUp, threadVars, batchVars
<1>. QED  BY <1>1, <1>2, <1>3, <1>4, CheckNewValueStep, LearnStep DEF Loop
------------------------------------------------------------------------------
(***************************************************************************)
(* The threads that propose.                                               *)
(***************************************************************************)
RunType == [work : Seq(Threads), tries : Int, at : {"idle", "enter", "wait", "commit"}]

NoAnswers == {"Conflict", "Reject", "TooLarge", "SystemError"}

logVars == <<pvalue, chosen, pending>>

LEMMA LogRests ==
  ASSUME CInv, UNCHANGED logVars
  PROVE  /\ ValuesOK' /\ NeverTwice' /\ Instance' = Instance
         /\ UNCHANGED <<pvalue, chosen>>
BY SameFree DEF CInv, ValuesOK, NeverTwice, Instance, logVars

\* Proposals that are new (those of T), or in the queue, go to the queue or to
\* a proposer that is idle.
LEMMA Gather ==
  ASSUME CInv, NEW p \in Proposers, run[p].at = "idle", NEW T \in SUBSET Threads,
         p \in Threads => p \in T, \A t \in T : thread[t] \in {"new", "adding"},
         thread' = [u \in Threads |-> IF u \in T THEN "waits" ELSE thread[u]],
         run' \in [Proposers -> RunType],
         \A q \in Proposers \ {p} : run'[q] = run[q],
         run'[p].at \in {"idle", "enter"}, run'[p].at = "idle" => run'[p].work = Nothing,
         queue' \in Seq(Threads), IsInjective(queue'),
         Range(queue') \subseteq Range(queue) \cup T,
         Range(run'[p].work) \subseteq Range(queue) \cup T,
         Range(run'[p].work) \cap Range(queue') = {},
         UNCHANGED <<answer, holder, ctx, logVars>>
  PROVE  CInv'
<1>1. /\ ValuesOK' /\ NeverTwice' /\ Instance' = Instance /\ UNCHANGED <<pvalue, chosen>>
      /\ \A t : Free(t)' <=> Free(t)
  BY LogRests, SameFree
<1>2. Shape
  BY DEF CInv
<1>3. Shape'
  BY <1>1, <1>2 DEF Shape, RunType
<1>4. \A t \in T : Free(t) /\ thread'[t] = "waits" /\ t \notin Range(queue)
  BY DEF CInv, NewOK, QueueOK
<1>5. \A t \in Range(queue) : Free(t) /\ t \in Threads /\ thread[t] = "waits" /\ thread'[t] = "waits"
  BY <1>2, RangeIn DEF CInv, QueueOK, Shape
<1>6. QueueOK'
  BY <1>1, <1>4, <1>5 DEF QueueOK
<1>7. NewOK'
  <2> SUFFICES ASSUME NEW t \in Threads, thread'[t] \in {"new", "adding"}
               PROVE  Free(t)' /\ run'[t].at = "idle"
    BY DEF NewOK
  <2>1. t \notin T /\ thread[t] = thread'[t] /\ t # p /\ t \in Proposers
    BY DEF Proposers
  <2>. QED  BY <1>1, <2>1 DEF CInv, NewOK
<1>8. AnswerOK' /\ OwnOK' /\ ContextOK'
  <2>1. \A t \in Threads : thread[t] = "done" => thread'[t] = "done"
    OBVIOUS
  <2>2. AnswerOK'
    BY <1>1, <2>1 DEF CInv, AnswerOK
  <2>3. OwnOK'
    BY <1>1 DEF CInv, OwnOK
  <2>4. ContextOK'
    BY DEF CInv, ContextOK
  <2>. QED  BY <2>2, <2>3, <2>4
<1>9. ASSUME NEW q \in Proposers, NEW t \in Range(run[q].work)
      PROVE  t \in Threads /\ t \notin T /\ thread[t] = "waits" /\ thread'[t] = "waits" /\ t \notin Range(queue)
  <2>1. WorkOK(q) /\ run[q].work \in Seq(Threads)
    BY <1>2 DEF CInv, ProposersOK, Shape
  <2>. QED  BY <2>1, RangeIn DEF WorkOK
<1>10. ASSUME NEW q \in Proposers \ {p}
       PROVE  /\ WorkOK(q)'
              /\ run'[q].at = "idle" => run'[q].work = Nothing
              /\ run'[q].at = "commit" => CommitOK(q)'
  <2>1. /\ WorkOK(q) /\ (run[q].at = "idle" => run[q].work = Nothing) /\ run'[q] = run[q]
    BY DEF CInv, ProposersOK
  <2>2. ASSUME NEW t \in Range(run[q].work)
        PROVE  /\ thread'[t] = "waits" /\ t \notin Range(queue')
               /\ \A r \in Proposers \ {q} : t \notin Range(run'[r].work)
               /\ run[q].at \in {"enter", "wait"} => Free(t)
    <3>1. t \notin Range(queue') /\ t \notin Range(run'[p].work) /\ thread'[t] = "waits"
      BY <1>9
    <3>. QED  BY <2>1, <3>1 DEF WorkOK
  <2>3. WorkOK(q)'
    BY <1>1, <2>1, <2>2 DEF WorkOK
  <2>4. run[q].at = "commit" => CommitOK(q)'
    <3>1. run[q].at = "commit" => CommitOK(q)
      BY DEF CInv, ProposersOK
    <3>. QED  BY <1>1, <2>1, <3>1 DEF CommitOK, AllFree, Free, Executed, Instance
  <2>. QED  BY <2>1, <2>3, <2>4
<1>11. WorkOK(p)'
  <2>1. ASSUME NEW t \in Range(run'[p].work)
        PROVE  /\ thread'[t] = "waits" /\ t \notin Range(queue') /\ Free(t)
               /\ \A r \in Proposers \ {p} : t \notin Range(run'[r].work)
    BY <1>4, <1>5, <1>9
  <2>. QED  BY <1>1, <2>1 DEF WorkOK
<1>12. ProposersOK'
  BY <1>10, <1>11 DEF ProposersOK
<1>. QED  BY <1>1, <1>3, <1>6, <1>7, <1>8, <1>12 DEF CInv

\* What the threads of a value are told.
LEMMA Notified ==
  ASSUME CInv, UNCHANGED logVars, NEW value \in Seq(Threads), NEW ret, NEW instance,
         Notify(value, ret, instance), ret \in NoAnswers => AllFree(value),
         ret = "OK" => instance \in 0 .. Instance - 1 /\ chosen[instance + 1] = value
  PROVE  /\ AnswerOK' /\ OwnOK'
         /\ thread' \in [Threads -> {"new", "adding", "waits", "done"}]
         /\ \A t \in Threads : thread'[t] = IF t \in Range(value) THEN "done" ELSE thread[t]
<1>1. /\ \A t : Free(t)' <=> Free(t)
      /\ Instance' = Instance /\ UNCHANGED chosen
  BY LogRests, SameFree
<1>2. /\ \A t \in Threads : thread'[t] = IF t \in Range(value) THEN "done" ELSE thread[t]
      /\ thread' \in [Threads -> {"new", "adding", "waits", "done"}]
  BY DEF Notify, CInv, Shape
<1>3. \A t \in Threads :
        answer'[t] = IF t \notin Range(value) THEN answer[t]
                     ELSE [ret |-> ret, instance |-> instance, index |-> Place(value, t)]
  BY DEF Notify
<1>4. AnswerOK'
  <2> SUFFICES ASSUME NEW t \in Threads, answer'[t].ret \in NoAnswers
               PROVE  thread'[t] = "done" /\ Free(t)'
    BY DEF AnswerOK, NoAnswers
  <2>1. CASE t \in Range(value)
    <3>1. ret \in NoAnswers
      <4>1. answer'[t] = [ret |-> ret, instance |-> instance, index |-> Place(value, t)]
        BY <1>3, <2>1
      <4>. QED  BY <4>1
    <3>. QED  BY <1>1, <1>2, <2>1, <3>1 DEF AllFree
  <2>2. CASE t \notin Range(value)
    BY <1>1, <1>2, <1>3, <2>2 DEF CInv, AnswerOK, NoAnswers
  <2>. QED  BY <2>1, <2>2
<1>5. OwnOK'
  <2> SUFFICES ASSUME NEW t \in Threads, answer'[t].ret = "OK"
               PROVE  /\ answer'[t].instance \in 0 .. Instance' - 1
                      /\ LET v == chosen'[answer'[t].instance + 1]
                         IN  v = <<t>> \/ (Len(v) > 1 /\ v[answer'[t].index] = t)
    BY DEF OwnOK
  <2>1. CASE t \in Range(value)
    <3>1. /\ answer'[t].ret = ret /\ answer'[t].instance = instance
          /\ answer'[t].index = Place(value, t)
      <4>1. answer'[t] = [ret |-> ret, instance |-> instance, index |-> Place(value, t)]
        BY <1>3, <2>1
      <4>. QED  BY <4>1
    <3>2. value = <<t>> \/ (Len(value) > 1 /\ value[Place(value, t)] = t)
      BY <2>1, PlaceIs
    <3>. QED  BY <1>1, <3>1, <3>2
  <2>2. CASE t \notin Range(value)
    BY <1>1, <1>3, <2>2 DEF CInv, OwnOK
  <2>. QED  BY <2>1, <2>2
<1>. QED  BY <1>2, <1>4, <1>5

\* A proposer leaves, with the wait lock or without it.
LEMMA ReturnStep ==
  ASSUME CInv, NEW p \in Proposers, NEW ret, NEW instance, Return(p, ret, instance),
         UNCHANGED <<queue, ctx, logVars>>,
         holder' = (IF run[p].at = "commit" THEN {} ELSE holder),
         run[p].at = "commit" => ctx.ended,
         ret \in NoAnswers => AllFree(run[p].work),
         ret = "OK" => instance \in 0 .. Instance - 1 /\ chosen[instance + 1] = run[p].work
  PROVE  CInv'
<1>1. /\ ValuesOK' /\ NeverTwice' /\ Instance' = Instance /\ UNCHANGED <<pvalue, chosen>>
      /\ \A t : Free(t)' <=> Free(t)
  BY LogRests, SameFree
<1>2. Shape /\ run[p].work \in Seq(Threads) /\ WorkOK(p)
  BY DEF CInv, Shape, ProposersOK
<1>3. /\ AnswerOK' /\ OwnOK'
      /\ thread' \in [Threads -> {"new", "adding", "waits", "done"}]
      /\ \A t \in Threads : thread'[t] = IF t \in Range(run[p].work) THEN "done" ELSE thread[t]
  BY <1>2, Notified DEF Return
<1>4. run' = [run EXCEPT ![p] = Idle] /\ Idle \in RunType /\ Idle.at = "idle" /\ Idle.work = Nothing
  <2>1. Nothing \in Seq(Threads) /\ 0 \in Int
    BY DEF Nothing
  <2>. QED  BY <2>1 DEF Return, Idle, RunType
<1>5. /\ run' \in [Proposers -> RunType] /\ run'[p] = Idle
      /\ \A q \in Proposers \ {p} : run'[q] = run[q]
  BY <1>2, <1>4 DEF Shape, RunType
<1>6. Shape'
  BY <1>1, <1>2, <1>3, <1>5 DEF Shape, RunType
<1>7. NewOK'
  BY <1>1, <1>3, <1>4, <1>5 DEF CInv, NewOK, Proposers
<1>8. QueueOK'
  <2>1. \A t \in Range(queue) : t \in Threads /\ t \notin Range(run[p].work)
    BY <1>2, RangeIn DEF Shape, WorkOK
  <2>. QED  BY <1>1, <1>3, <2>1 DEF CInv, QueueOK
<1>9. ASSUME NEW q \in Proposers \ {p}
      PROVE  run[p].at = "commit" => run[q].at # "commit"
  BY DEF CInv, ProposersOK, CommitOK
<1>10. ContextOK'
  <2> SUFFICES ASSUME ctx.value # Nothing
               PROVE  ~ ctx.ended /\ \E q \in Proposers : run'[q].at = "commit"
    BY DEF ContextOK
  <2>1. PICK q \in Proposers : run[q].at = "commit" /\ ~ ctx.ended
    BY DEF CInv, ContextOK
  <2>2. q # p
    BY <2>1
  <2>. QED  BY <1>5, <2>1, <2>2
<1>11. ASSUME NEW q \in Proposers \ {p}
       PROVE  /\ WorkOK(q)'
              /\ run'[q].at = "idle" => run'[q].work = Nothing
              /\ run'[q].at = "commit" => CommitOK(q)'
  <2>1. /\ WorkOK(q) /\ (run[q].at = "idle" => run[q].work = Nothing) /\ run'[q] = run[q]
    BY <1>5 DEF CInv, ProposersOK
  <2>2. run[q].work \in Seq(Threads)
    BY <1>2 DEF Shape
  <2>3. ASSUME NEW t \in Range(run[q].work)
        PROVE  /\ thread'[t] = "waits" /\ t \notin Range(queue)
               /\ \A r \in Proposers \ {q} : t \notin Range(run'[r].work)
               /\ run[q].at \in {"enter", "wait"} => Free(t)
    <3>1. t \in Threads /\ t \notin Range(run[p].work)
      BY <2>1, <2>2, RangeIn DEF WorkOK
    <3>2. t \notin Range(run'[p].work)
      BY <1>4, <1>5, RangeEmpty DEF Nothing
    <3>. QED  BY <1>3, <1>5, <2>1, <3>1, <3>2 DEF WorkOK
  <2>4. WorkOK(q)'
    BY <1>1, <2>1, <2>3 DEF WorkOK
  <2>5. run[q].at = "commit" => CommitOK(q)'
    <3>1. run[q].at = "commit" => CommitOK(q) /\ holder' = holder
      BY <1>9 DEF CInv, ProposersOK
    <3>. QED  BY <1>1, <2>1, <3>1 DEF CommitOK, AllFree, Free, Executed, Instance
  <2>. QED  BY <2>1, <2>4, <2>5
<1>12. WorkOK(p)'
  BY <1>4, <1>5, RangeEmpty DEF WorkOK, Nothing
<1>13. ProposersOK'
  BY <1>4, <1>5, <1>11, <1>12 DEF ProposersOK
<1>. QED  BY <1>1, <1>3, <1>6, <1>7, <1>8, <1>10, <1>13 DEF CInv

\* Threads that no proposer works for are told that the batch has ended.
LEMMA Told ==
  ASSUME CInv, NEW value \in Seq(Threads), Notify(value, "SystemError", 0), AllFree(value),
         (queue' = queue /\ Range(value) \cap Range(queue) = {}) \/ queue' = <<>>,
         \A q \in Proposers : Range(value) \cap Range(run[q].work) = {},
         UNCHANGED <<run, holder, ctx, logVars>>
  PROVE  CInv'
<1>1. /\ ValuesOK' /\ NeverTwice' /\ Instance' = Instance /\ UNCHANGED <<pvalue, chosen>>
      /\ \A t : Free(t)' <=> Free(t)
  BY LogRests, SameFree
<1>2. /\ AnswerOK' /\ OwnOK'
      /\ thread' \in [Threads -> {"new", "adding", "waits", "done"}]
      /\ \A t \in Threads : thread'[t] = IF t \in Range(value) THEN "done" ELSE thread[t]
  BY Notified
<1>3. queue' \in Seq(Threads) /\ IsInjective(queue')
  <2>1. <<>> \in Seq(Threads) /\ IsInjective(<<>>)
    BY DEF IsInjective
  <2>2. queue \in Seq(Threads) /\ IsInjective(queue)
    BY DEF CInv, Shape
  <2>. QED  BY <2>1, <2>2
<1>4. Shape'
  BY <1>1, <1>2, <1>3 DEF CInv, Shape
<1>5. NewOK' /\ ContextOK'
  BY <1>1, <1>2 DEF CInv, NewOK, ContextOK
<1>6. \A t \in Range(queue') : t \in Range(queue) /\ t \notin Range(value) /\ t \in Threads
  BY <1>3, RangeIn, RangeEmpty
<1>7. QueueOK'
  BY <1>1, <1>2, <1>6 DEF CInv, QueueOK
<1>8. ASSUME NEW q \in Proposers
      PROVE  /\ WorkOK(q)'
             /\ run'[q].at = "idle" => run'[q].work = Nothing
             /\ run'[q].at = "commit" => CommitOK(q)'
  <2>1. WorkOK(q) /\ (run[q].at = "idle" => run[q].work = Nothing) /\ run[q].work \in Seq(Threads)
    BY DEF CInv, ProposersOK, Shape
  <2>2. \A t \in Range(run[q].work) : t \in Threads /\ t \notin Range(value)
    BY <2>1, RangeIn
  <2>3. WorkOK(q)'
    BY <1>1, <1>2, <1>6, <2>1, <2>2 DEF WorkOK
  <2>4. run[q].at = "commit" => CommitOK(q)'
    <3>1. run[q].at = "commit" => CommitOK(q)
      BY DEF CInv, ProposersOK
    <3>. QED  BY <1>1, <3>1 DEF CommitOK, AllFree, Free, Executed, Instance
  <2>. QED  BY <2>1, <2>3, <2>4
<1>. QED  BY <1>1, <1>2, <1>4, <1>5, <1>7, <1>8 DEF CInv, ProposersOK

\* A proposer goes on with its value.
LEMMA Move ==
  ASSUME CInv, NEW p \in Proposers, run[p].at # "idle",
         run' \in [Proposers -> RunType], \A q \in Proposers \ {p} : run'[q] = run[q],
         run'[p].work = run[p].work, run'[p].at # "idle",
         run'[p].at # "commit" => AllFree(run[p].work),
         run'[p].at = "commit" => CommitOK(p)',
         \A q \in Proposers \ {p} : run[q].at = "commit" => UNCHANGED <<holder, ctx>>,
         ctx' \in [value : Seq(Threads), instance : Int, ended : BOOLEAN, ret : Rets, id : Ids],
         ContextOK', UNCHANGED <<thread, answer, queue, logVars>>
  PROVE  CInv'
<1>1. /\ ValuesOK' /\ NeverTwice' /\ Instance' = Instance /\ UNCHANGED <<pvalue, chosen>>
      /\ \A t : Free(t)' <=> Free(t)
  BY LogRests, SameFree
<1>2. Shape' /\ QueueOK' /\ AnswerOK' /\ OwnOK'
  BY <1>1 DEF CInv, Shape, RunType, QueueOK, AnswerOK, OwnOK
<1>3. NewOK'
  BY <1>1 DEF CInv, NewOK, Proposers
<1>4. ASSUME NEW q \in Proposers \ {p}
      PROVE  /\ WorkOK(q)'
             /\ run'[q].at = "idle" => run'[q].work = Nothing
             /\ run'[q].at = "commit" => CommitOK(q)'
  <2>1. /\ WorkOK(q) /\ (run[q].at = "idle" => run[q].work = Nothing) /\ run'[q] = run[q]
    BY DEF CInv, ProposersOK
  <2>2. \A r \in Proposers : run'[r].work = run[r].work
    OBVIOUS
  <2>3. WorkOK(q)'
    BY <1>1, <2>1, <2>2 DEF WorkOK
  <2>4. run[q].at = "commit" => CommitOK(q)'
    <3>1. run[q].at = "commit" => CommitOK(q) /\ holder' = holder /\ ctx' = ctx
      BY DEF CInv, ProposersOK
    <3>. QED  BY <1>1, <2>1, <3>1 DEF CommitOK, AllFree, Free, Executed, Instance
  <2>. QED  BY <2>1, <2>3, <2>4
<1>5. WorkOK(p)'
  <2>1. WorkOK(p) /\ \A r \in Proposers : run'[r].work = run[r].work
    BY DEF CInv, ProposersOK
  <2>2. run'[p].at \in {"enter", "wait"} => AllFree(run[p].work)
    OBVIOUS
  <2>. QED  BY <1>1, <2>1, <2>2 DEF WorkOK, AllFree
<1>. QED  BY <1>1, <1>2, <1>3, <1>4, <1>5 DEF CInv, ProposersOK

------------------------------------------------------------------------------
LEMMA WorkFree ==
  ASSUME CInv, NEW p \in Proposers, run[p].at \in {"enter", "wait"} PROVE AllFree(run[p].work)
BY DEF CInv, ProposersOK, WorkOK, AllFree

\* A thread that is new has no proposal anywhere.
LEMMA NewIs ==
  ASSUME CInv, NEW t \in Threads, thread[t] \in {"new", "adding"}
  PROVE  /\ Free(t) /\ run[t].at = "idle" /\ t \notin Range(queue)
         /\ \A q \in Proposers : t \notin Range(run[q].work)
BY DEF CInv, NewOK, QueueOK, ProposersOK, WorkOK

LEMMA ProposeStep == ASSUME CInv, NEW t \in Threads, Propose(t) PROVE CInv'
<1>1. /\ thread[t] = "new" /\ thread' = [thread EXCEPT ![t] = "waits"]
      /\ run' = [run EXCEPT ![t] = Start(<<t>>)]
      /\ UNCHANGED <<answer, queue, holder, ctx, pvalue, chosen, pending>>
  BY DEF Propose, batchVars, loopVars
<1>2. Shape /\ t \in Proposers
  BY DEF CInv, Proposers
<1>3. Start(<<t>>) \in RunType /\ Start(<<t>>).work = <<t>> /\ Start(<<t>>).at = "enter"
  BY CommitAssumption DEF Start, RunType
<1>4. /\ run' \in [Proposers -> RunType] /\ run'[t] = Start(<<t>>)
      /\ \A q \in Proposers \ {t} : run'[q] = run[q]
  BY <1>1, <1>2, <1>3 DEF Shape, RunType
<1>5. thread' = [u \in Threads |-> IF u \in {t} THEN "waits" ELSE thread[u]]
  BY <1>1, <1>2 DEF Shape
<1>6. queue' \in Seq(Threads) /\ IsInjective(queue')
  BY <1>1, <1>2 DEF Shape
<1>7. run[t].at = "idle" /\ t \notin Range(queue) /\ Range(run'[t].work) = {t}
  BY <1>1, <1>3, <1>4, NewIs, RangeOne
<1> DEFINE T == {t}
<1>8. T \in SUBSET Threads /\ t \in T
  OBVIOUS
<1>9. \A u \in T : thread[u] \in {"new", "adding"}
  BY <1>1
<1>10. /\ Range(queue') \subseteq Range(queue) \cup T
       /\ Range(run'[t].work) \subseteq Range(queue) \cup T
       /\ Range(run'[t].work) \cap Range(queue') = {}
  BY <1>1, <1>7
<1>11. UNCHANGED <<answer, holder, ctx, logVars>>
  BY <1>1 DEF logVars
<1>12. thread' = [u \in Threads |-> IF u \in T THEN "waits" ELSE thread[u]]
  BY <1>5
<1>13. run'[t].at = "enter"
  BY <1>3, <1>4
<1> HIDE DEF T
<1>. QED  BY <1>2, <1>4, <1>6, <1>7, <1>8, <1>9, <1>10, <1>11, <1>12, <1>13, Gather

LEMMA BatchProposeStep == ASSUME CInv, NEW t \in Threads, BatchPropose(t) PROVE CInv'
<1>1. /\ thread[t] = "new" /\ UNCHANGED <<queue, run, holder, ctx, pvalue, chosen, pending>>
      /\ IF isEnd THEN Notify(<<t>>, "SystemError", 0)
         ELSE thread' = [thread EXCEPT ![t] = "adding"] /\ UNCHANGED answer
  BY DEF BatchPropose, batchVars, loopVars
<1>2. UNCHANGED logVars
  BY <1>1 DEF logVars
<1>3. CASE isEnd
  <2>1. <<t>> \in Seq(Threads) /\ Range(<<t>>) = {t}
    BY RangeOne
  <2>2. /\ AllFree(<<t>>) /\ Range(<<t>>) \cap Range(queue) = {}
        /\ \A q \in Proposers : Range(<<t>>) \cap Range(run[q].work) = {}
    BY <1>1, <2>1, NewIs DEF AllFree
  <2>3. Notify(<<t>>, "SystemError", 0) /\ queue' = queue /\ UNCHANGED <<run, holder, ctx, logVars>>
    BY <1>1, <1>2, <1>3
  <2>. QED  BY <2>1, <2>2, <2>3, Told
<1>4. CASE ~ isEnd
  <2>1. thread' = [thread EXCEPT ![t] = "adding"] /\ UNCHANGED answer
    BY <1>1, <1>4
  <2>2. /\ ValuesOK' /\ NeverTwice' /\ Instance' = Instance /\ UNCHANGED <<pvalue, chosen>>
        /\ \A u : Free(u)' <=> Free(u)
    BY <1>2, LogRests, SameFree
  <2>3. /\ thread' \in [Threads -> {"new", "adding", "waits", "done"}] /\ thread'[t] = "adding"
        /\ \A u \in Threads \ {t} : thread'[u] = thread[u]
    BY <2>1 DEF CInv, Shape
  <2>4. Shape' /\ ContextOK' /\ OwnOK'
    BY <1>1, <2>1, <2>2, <2>3, SMTT(20) DEF CInv, Shape, ContextOK, OwnOK
  <2>5. NewOK' /\ AnswerOK'
    BY <1>1, <2>1, <2>2, <2>3 DEF CInv, NewOK, AnswerOK
  <2>6. QueueOK'
    <3>1. \A u \in Range(queue) : u \in Threads /\ u # t
      BY <1>1, NewIs, RangeIn DEF CInv, Shape
    <3>. QED  BY <1>1, <2>2, <2>3, <3>1 DEF CInv, QueueOK
  <2>7. ASSUME NEW q \in Proposers
        PROVE  /\ WorkOK(q)'
               /\ run'[q].at = "idle" => run'[q].work = Nothing
               /\ run'[q].at = "commit" => CommitOK(q)'
    <3>1. \A u \in Range(run[q].work) : u \in Threads /\ u # t
      BY <1>1, NewIs, RangeIn DEF CInv, Shape
    <3>2. WorkOK(q) /\ (run[q].at = "idle" => run[q].work = Nothing)
      BY DEF CInv, ProposersOK
    <3>3. WorkOK(q)'
      BY <1>1, <2>2, <2>3, <3>1, <3>2 DEF WorkOK
    <3>4. run[q].at = "commit" => CommitOK(q)'
      <4>1. run[q].at = "commit" => CommitOK(q)
        BY DEF CInv, ProposersOK
      <4>. QED  BY <1>1, <2>2, <4>1 DEF CommitOK, AllFree, Free, Executed, Instance
    <3>. QED  BY <1>1, <3>2, <3>3, <3>4
  <2>. QED  BY <2>2, <2>4, <2>5, <2>6, <2>7 DEF CInv, ProposersOK
<1>. QED  BY <1>3, <1>4

\* A thread adds its proposal to the queue, and may take what it plucks.
LEMMA AddProposalStep == ASSUME CInv, NEW t \in Threads, AddProposal(t) PROVE CInv'
<1> DEFINE q == Append(queue, t)  T == {t}
<1>1. /\ thread[t] = "adding" /\ thread' = [thread EXCEPT ![t] = "waits"]
      /\ \/ queue' = LeftOver(q) /\ run' = [run EXCEPT ![t] = Start(Plucked(q))]
         \/ queue' = q /\ run' = run
      /\ UNCHANGED <<answer, holder, ctx, pvalue, chosen, pending>>
  BY DEF AddProposal, loopVars
<1>2. Shape /\ t \in Proposers
  BY DEF CInv, Proposers
<1>3. /\ run[t].at = "idle" /\ run[t].work = Nothing /\ t \notin Range(queue)
      /\ run[t] \in RunType
  BY <1>1, <1>2, NewIs DEF CInv, ProposersOK, Shape, RunType
<1>4. q \in Seq(Threads) /\ IsInjective(q) /\ Range(q) = Range(queue) \cup T
  BY <1>2, <1>3, AppendDistinct DEF Shape
<1> HIDE DEF q
<1>5. /\ Plucked(q) \in Seq(Threads) /\ LeftOver(q) \in Seq(Threads)
      /\ IsInjective(LeftOver(q))
      /\ Range(Plucked(q)) \subseteq Range(q) /\ Range(LeftOver(q)) \subseteq Range(q)
      /\ Range(Plucked(q)) \cap Range(LeftOver(q)) = {}
  BY <1>4, PluckedAndLeft
<1>6. /\ Start(Plucked(q)) \in RunType
      /\ Start(Plucked(q)).work = Plucked(q) /\ Start(Plucked(q)).at = "enter"
  BY <1>5, CommitAssumption DEF Start, RunType
<1>7. /\ run' \in [Proposers -> RunType]
      /\ \A r \in Proposers \ {t} : run'[r] = run[r]
      /\ run'[t] = Start(Plucked(q)) \/ run'[t] = run[t]
  <2>1. run \in [Proposers -> RunType]
    BY <1>2 DEF Shape, RunType
  <2>2. CASE run' = [run EXCEPT ![t] = Start(Plucked(q))]
    BY <1>2, <1>6, <2>1, <2>2
  <2>3. CASE run' = run
    BY <2>1, <2>3
  <2>. QED  BY <1>1, <2>2, <2>3
<1>8. /\ queue' \in Seq(Threads) /\ IsInjective(queue')
      /\ Range(queue') \subseteq Range(queue) \cup T
      /\ Range(run'[t].work) \subseteq Range(queue) \cup T
      /\ Range(run'[t].work) \cap Range(queue') = {}
      /\ run'[t].at \in {"idle", "enter"}
      /\ run'[t].at = "idle" => run'[t].work = Nothing
  <2>1. CASE queue' = LeftOver(q) /\ run' = [run EXCEPT ![t] = Start(Plucked(q))]
    <3>1. run'[t] = Start(Plucked(q))
      BY <1>2, <2>1 DEF Shape
    <3>. QED  BY <1>4, <1>5, <1>6, <2>1, <3>1
  <2>2. CASE queue' = q /\ run' = run
    <3>1. run'[t].work = Nothing /\ Range(run'[t].work) = {}
      BY <1>3, <2>2, RangeEmpty DEF Nothing
    <3>. QED  BY <1>3, <1>4, <2>2, <3>1
  <2>. QED  BY <1>1, <2>1, <2>2
<1>9. /\ T \in SUBSET Threads /\ t \in T
      /\ \A u \in T : thread[u] \in {"new", "adding"}
      /\ thread' = [u \in Threads |-> IF u \in T THEN "waits" ELSE thread[u]]
  BY <1>1, <1>2 DEF Shape
<1>10. UNCHANGED <<answer, holder, ctx, logVars>>
  BY <1>1 DEF logVars
<1> HIDE DEF T
<1>. QED  BY <1>2, <1>3, <1>7, <1>8, <1>9, <1>10, Gather

\* The batch thread takes what it plucks from the queue.
LEMMA BatchRunStep == ASSUME CInv, BatchRun PROVE CInv'
<1>1. /\ run[Batcher] = Idle /\ queue' = LeftOver(queue)
      /\ run' = [run EXCEPT ![Batcher] = Start(Plucked(queue))]
      /\ UNCHANGED <<thread, answer, holder, ctx, pvalue, chosen, pending>>
  BY DEF BatchRun, loopVars
<1>2. Shape /\ Batcher \in Proposers /\ Batcher \notin Threads
  BY CommitAssumption DEF CInv, Proposers
<1>3. /\ Plucked(queue) \in Seq(Threads) /\ LeftOver(queue) \in Seq(Threads)
      /\ IsInjective(LeftOver(queue))
      /\ Range(Plucked(queue)) \subseteq Range(queue)
      /\ Range(LeftOver(queue)) \subseteq Range(queue)
      /\ Range(Plucked(queue)) \cap Range(LeftOver(queue)) = {}
  BY <1>2, PluckedAndLeft DEF Shape
<1>4. /\ Start(Plucked(queue)) \in RunType
      /\ Start(Plucked(queue)).work = Plucked(queue) /\ Start(Plucked(queue)).at = "enter"
  BY <1>3, CommitAssumption DEF Start, RunType
<1>5. /\ run' \in [Proposers -> RunType] /\ run'[Batcher] = Start(Plucked(queue))
      /\ \A r \in Proposers \ {Batcher} : run'[r] = run[r]
  BY <1>1, <1>2, <1>4 DEF Shape, RunType
<1>6. run[Batcher].at = "idle"
  BY <1>1 DEF Idle
<1> DEFINE T == {u \in Threads : FALSE}
<1>7. /\ T \in SUBSET Threads /\ (Batcher \in Threads => Batcher \in T)
      /\ \A u \in T : thread[u] \in {"new", "adding"}
      /\ thread' = [u \in Threads |-> IF u \in T THEN "waits" ELSE thread[u]]
  BY <1>1, <1>2 DEF Shape
<1>8. UNCHANGED <<answer, holder, ctx, logVars>>
  BY <1>1 DEF logVars
<1>9. /\ queue' \in Seq(Threads) /\ IsInjective(queue')
      /\ Range(queue') \subseteq Range(queue) \cup T
      /\ Range(run'[Batcher].work) \subseteq Range(queue) \cup T
      /\ Range(run'[Batcher].work) \cap Range(queue') = {}
      /\ run'[Batcher].at = "enter"
  BY <1>1, <1>3, <1>4, <1>5
<1> HIDE DEF T
<1>. QED  BY <1>2, <1>5, <1>6, <1>7, <1>8, <1>9, Gather

LEMMA BatchStopStep == ASSUME CInv, BatchStop PROVE CInv'
BY SameCommit DEF BatchStop, threadVars, loopVars

\* The batch thread ends: those in the queue are told.
LEMMA BatchRunEndStep == ASSUME CInv, BatchRunEnd PROVE CInv'
<1>1. /\ queue' = <<>> /\ Notify(queue, "SystemError", 0)
      /\ UNCHANGED <<run, holder, ctx, logVars>>
  BY DEF BatchRunEnd, loopVars, logVars
<1>2. queue \in Seq(Threads) /\ AllFree(queue)
  BY DEF CInv, Shape, QueueOK, AllFree
<1>3. \A q \in Proposers : Range(queue) \cap Range(run[q].work) = {}
  BY DEF CInv, ProposersOK, WorkOK
<1>. QED  BY <1>1, <1>2, <1>3, Told

------------------------------------------------------------------------------
(***************************************************************************)
(* The committer and the wait lock.                                        *)
(***************************************************************************)
LEMMA OneCommits ==
  ASSUME CInv, NEW p \in Proposers, run[p].at = "commit" \/ holder = {}
  PROVE  \A q \in Proposers \ {p} : run[q].at # "commit"
BY DEF CInv, ProposersOK, CommitOK

LEMMA RefusedStep ==
  ASSUME CInv, NEW p \in Proposers, RejectLock(p) \/ LockTimeout(p) \/ LockTooLate(p)
  PROVE  CInv'
<1>1. /\ run[p].at \in {"enter", "wait"} /\ UNCHANGED <<queue, holder, ctx, logVars>>
      /\ \E ret \in {"Reject", "Timeout"} : Return(p, ret, 0)
  BY DEF RejectLock, LockTimeout, LockTooLate, batchVars, loopVars, logVars
<1>2. PICK ret \in {"Reject", "Timeout"} : Return(p, ret, 0)
  BY <1>1
<1>3. AllFree(run[p].work)
  BY <1>1, WorkFree
<1>. QED  BY <1>1, <1>2, <1>3, ReturnStep

LEMMA WaitForLockStep == ASSUME CInv, NEW p \in Proposers, WaitForLock(p) PROVE CInv'
<1>1. /\ run[p].at = "enter" /\ run' = [run EXCEPT ![p].at = "wait"]
      /\ UNCHANGED <<thread, answer, queue, holder, ctx, logVars>>
  BY DEF WaitForLock, batchVars, loopVars, logVars
<1>2. Shape /\ AllFree(run[p].work)
  BY <1>1, WorkFree DEF CInv
<1>3. /\ run' \in [Proposers -> RunType] /\ run'[p].at = "wait" /\ run'[p].work = run[p].work
      /\ \A q \in Proposers \ {p} : run'[q] = run[q]
  BY <1>1, <1>2 DEF Shape, RunType
<1>4. ContextOK'
  <2> SUFFICES ASSUME ctx.value # Nothing
               PROVE  ~ ctx.ended /\ \E q \in Proposers : run'[q].at = "commit"
    BY <1>1 DEF ContextOK
  <2>1. PICK q \in Proposers : run[q].at = "commit" /\ ~ ctx.ended
    BY DEF CInv, ContextOK
  <2>2. q # p
    BY <1>1, <2>1
  <2>. QED  BY <1>3, <2>1, <2>2
<1>5. ctx' \in [value : Seq(Threads), instance : Int, ended : BOOLEAN, ret : Rets, id : Ids]
  BY <1>1, <1>2 DEF Shape
<1>. QED  BY <1>1, <1>2, <1>3, <1>4, <1>5, Move

LEMMA NewCommitStep == ASSUME CInv, NEW p \in Proposers, NewCommit(p) PROVE CInv'
<1>1. /\ run[p].at \in {"enter", "wait"} /\ holder = {} /\ holder' = {p}
      /\ run' = [run EXCEPT ![p].at = "commit"]
      /\ ctx' = [value |-> run[p].work, instance |-> -1, ended |-> FALSE, ret |-> "none",
                 id |-> <<p, run[p].work, run[p].tries>>]
      /\ UNCHANGED <<thread, answer, queue, logVars>>
  BY DEF NewCommit, CanLock, batchVars, loopVars, logVars
<1>2. Shape /\ AllFree(run[p].work)
  BY <1>1, WorkFree DEF CInv
<1>3. /\ run' \in [Proposers -> RunType] /\ run'[p].at = "commit" /\ run'[p].work = run[p].work
      /\ \A q \in Proposers \ {p} : run'[q] = run[q]
  BY <1>1, <1>2 DEF Shape, RunType
<1>4. /\ ctx' \in [value : Seq(Threads), instance : Int, ended : BOOLEAN, ret : Rets, id : Ids]
      /\ ctx'.ended = FALSE /\ ctx'.value = run[p].work /\ ctx'.instance = -1
  <2>1. run[p].work \in Seq(Threads) /\ run[p].tries \in Int
    BY <1>2 DEF Shape
  <2>2. <<p, run[p].work, run[p].tries>> \in Ids
    BY <2>1 DEF Ids
  <2>. QED  BY <1>1, <2>1, <2>2 DEF Rets
<1>5. CommitOK(p)' /\ ContextOK'
  <2>1. \A t \in Range(run'[p].work) : Free(t)'
    BY <1>1, <1>2, <1>3, SameFree DEF AllFree, logVars
  <2>2. CommitOK(p)'
    BY <1>1, <1>3, <1>4, <2>1 DEF CommitOK, AllFree
  <2>. QED  BY <1>3, <1>4, <2>2 DEF ContextOK
<1>6. \A q \in Proposers \ {p} : run[q].at # "commit"
  BY <1>1, OneCommits
<1>. QED  BY <1>1, <1>2, <1>3, <1>4, <1>5, <1>6, Move

LEMMA GetResultStep == ASSUME CInv, NEW p \in Proposers, GetResult(p) PROVE CInv'
<1>1. /\ run[p].at = "commit" /\ ctx.ended /\ holder' = {}
      /\ UNCHANGED <<queue, ctx, logVars>>
  BY DEF GetResult, batchVars, loopVars, logVars
<1>2. Shape /\ CommitOK(p)
  BY <1>1 DEF CInv, ProposersOK
<1>3. CASE RetriesOn(ctx.ret) /\ run[p].tries > 1
  <2>1. /\ run' = [run EXCEPT ![p].at = "enter", ![p].tries = @ - 1]
        /\ UNCHANGED <<thread, answer>> /\ ctx.ret = "Conflict"
    BY <1>3 DEF GetResult, RetriesOn
  <2>2. AllFree(run[p].work)
    BY <1>1, <1>2, <2>1 DEF CommitOK
  <2> DEFINE again == [run EXCEPT ![p].at = "enter"]
  <2>3. run \in [Proposers -> RunType]
    BY <1>2 DEF Shape, RunType
  <2>4. /\ again \in [Proposers -> RunType] /\ again[p].at = "enter"
        /\ again[p].work = run[p].work
        /\ \A q \in Proposers \ {p} : again[q] = run[q]
    BY <2>3 DEF RunType
  <2>5. run' = [again EXCEPT ![p].tries = @ - 1]
    BY <2>1
  <2> HIDE DEF again
  <2>6. /\ run' \in [Proposers -> RunType] /\ run'[p].at = "enter"
        /\ run'[p].work = run[p].work
        /\ \A q \in Proposers \ {p} : run'[q] = run[q]
    BY <2>4, <2>5 DEF RunType
  <2>7. ContextOK'
    BY <1>1 DEF CInv, ContextOK
  <2>8. ctx' \in [value : Seq(Threads), instance : Int, ended : BOOLEAN, ret : Rets, id : Ids]
    BY <1>1, <1>2 DEF Shape
  <2>9. \A q \in Proposers \ {p} : run[q].at # "commit"
    BY <1>1, OneCommits
  <2>. QED  BY <1>1, <2>1, <2>2, <2>6, <2>7, <2>8, <2>9, Move
<1>4. CASE ~ (RetriesOn(ctx.ret) /\ run[p].tries > 1)
  <2> DEFINE instance == IF ctx.ret = "OK" THEN ctx.instance ELSE 0
  <2>1. Return(p, ctx.ret, instance)
    BY <1>4 DEF GetResult
  <2>2. ctx.ret \in NoAnswers => AllFree(run[p].work)
    BY <1>1, <1>2 DEF CommitOK, NoAnswers
  <2>3. ctx.ret = "OK" => instance \in 0 .. Instance - 1 /\ chosen[instance + 1] = run[p].work
    BY <1>1, <1>2 DEF CommitOK
  <2> HIDE DEF instance
  <2>. QED  BY <1>1, <2>1, <2>2, <2>3, ReturnStep
<1>. QED  BY <1>3, <1>4

------------------------------------------------------------------------------
LEMMA CommitInit == Init => CInv
<1> SUFFICES ASSUME Init PROVE CInv
  OBVIOUS
<1>1. /\ chosen = <<>> /\ pvalue = <<>> /\ queue = <<>> /\ pending = <<>>
      /\ Range(chosen) = {} /\ Range(pvalue) = {} /\ Range(queue) = {} /\ DOMAIN chosen = {}
  BY RangeEmpty DEF Init, Nothing
<1>2. \A p \in Proposers : run[p] = Idle /\ run[p].at = "idle" /\ run[p].work = Nothing
  BY DEF Init, Idle
<1>3. Shape
  <2>1. <<>> \in Seq(Threads) /\ IsInjective(<<>>) /\ <<>> \in Seq(Seq(Proposers))
    BY DEF IsInjective
  <2>2. run \in [Proposers -> RunType]
    BY <2>1 DEF Init, Idle, RunType, Nothing
  <2>3. ctx \in [value : Seq(Threads), instance : Int, ended : BOOLEAN, ret : Rets, id : Ids]
    BY <2>1 DEF Init, NoCommit, Nothing, Rets, Ids
  <2>4. thread \in [Threads -> {"new", "adding", "waits", "done"}]
    BY DEF Init
  <2>. QED  BY <1>1, <2>1, <2>2, <2>3, <2>4 DEF Shape, RunType
<1>4. \A t : Free(t) /\ ~ Executed(t)
  BY <1>1 DEF Free, Executed
<1>5. NewOK /\ QueueOK /\ ValuesOK /\ NeverTwice
  BY <1>1, <1>2, <1>4 DEF NewOK, QueueOK, ValuesOK, NeverTwice, Proposers, Nothing
<1>6. ProposersOK /\ ContextOK
  <2>1. \A p \in Proposers : Range(run[p].work) = {}
    BY <1>2, RangeEmpty DEF Nothing
  <2>. QED  BY <1>2, <2>1 DEF Init, NoCommit, ProposersOK, WorkOK, ContextOK
<1>7. AnswerOK /\ OwnOK
  BY DEF Init, NoAnswer, AnswerOK, OwnOK
<1>. QED  BY <1>3, <1>5, <1>6, <1>7 DEF CInv

LEMMA CommitNext == CInv /\ [Next]_vars => CInv'
<1> SUFFICES ASSUME CInv, [Next]_vars PROVE CInv'
  OBVIOUS
<1>1. ASSUME NEW t \in Threads, Propose(t) \/ BatchPropose(t) \/ AddProposal(t) PROVE CInv'
  BY <1>1, ProposeStep, BatchProposeStep, AddProposalStep
<1>2. CASE BatchRun \/ BatchStop \/ BatchRunEnd
  BY <1>2, BatchRunStep, BatchStopStep, BatchRunEndStep
<1>3. ASSUME NEW p \in Proposers, Commit(p) \/ Timeout(p) PROVE CInv'
  BY <1>3, RefusedStep, WaitForLockStep, NewCommitStep, GetResultStep DEF Commit, Timeout
<1>4. CASE Loop
  BY <1>4, LoopStep
<1>5. CASE UNCHANGED vars
  BY <1>5, SameCommit DEF vars, threadVars, batchVars, loopVars
<1>. QED  BY <1>1, <1>2, <1>3, <1>4, <1>5 DEF Next

(***************************************************************************)
(* At every moment each proposal is in the queue or with one proposer, and *)
(* is neither chosen nor given to paxos before that proposer has the wait  *)
(* lock; the context holds the commit of whoever has the lock.             *)
(***************************************************************************)
THEOREM CommitInvariant == Spec => []CInv
<1>. QED  BY CommitInit, CommitNext, PTL DEF Spec

(***************************************************************************)
(* Whoever is told OK finds its own proposal where it is told              *)
(* (CommitCtx::SetResult, ProposeBatch::DoPropose).                        *)
(***************************************************************************)
THEOREM OwnValueIsTold == Spec => []OwnAnswer
<1>1. CInv => OwnAnswer
  BY SMTT(20) DEF CInv, Shape, OwnOK, OwnAnswer, Instance
<1>. QED  BY <1>1, CommitInvariant, PTL

(***************************************************************************)
(* No proposal is executed in two instances (Committer::NewValueGetID,     *)
(* Instance::CheckNewValue).                                               *)
(***************************************************************************)
THEOREM ExecutedOnce == Spec => []NeverTwice
<1>1. CInv => NeverTwice
  BY DEF CInv
<1>. QED  BY <1>1, CommitInvariant, PTL

(***************************************************************************)
(* What is told to have been refused or to conflict is never executed      *)
(* (Committer::NewValueGetIDNoRetry, CommitCtx::SetResult).                *)
(***************************************************************************)
THEOREM RefusedIsNotExecuted == Spec => []NoMeansNo
<1>1. CInv => NoMeansNo
  BY DEF CInv, AnswerOK, NoMeansNo, Free, Executed
<1>. QED  BY <1>1, CommitInvariant, PTL

------------------------------------------------------------------------------
(***************************************************************************)
(* What stays in its range, and whose timer is set.                        *)
(***************************************************************************)
AnswersOK == \A t \in Threads : answer[t].ret \in Rets /\ answer[t].instance \in 0 .. MaxInstance

RunsOK == \A p \in Proposers : run[p].tries \in 0 .. Retries /\ run[p].work \in Values

LockOK == holder = {p \in Proposers : run[p].at = "commit"}

LogOK ==
  /\ pvalue \in Values /\ pending \in Values /\ chosen \in Seq(Values)
  /\ Instance \in 0 .. MaxInstance
  /\ ctx.value \in Values /\ ctx.instance \in -1 .. MaxInstance

\* Unless an execution failed, a timer that is set was set last, for the commit
\* that has the lock, has begun and has not ended.
TimerOK ==
  /\ fails \in Nat
  /\ fails = 0 => /\ timers \subseteq {ctx.id} /\ timers \subseteq {timer}
                  /\ timers # {} => holder # {} /\ ~ ctx.ended /\ ctx.instance # -1

RInv == AnswersOK /\ RunsOK /\ LockOK /\ LogOK /\ TimerOK

LEMMA ShortIsValue ==
  ASSUME NEW s \in Seq(Threads), Len(s) <= BatchCount PROVE s \in Values
<1>1. s \in [1 .. Len(s) -> Threads] /\ Len(s) \in 0 .. BatchCount
  BY CommitAssumption
<1>. QED  BY <1>1 DEF Values

LEMMA ValuesAre ==
  /\ Nothing \in Values /\ Foreign \in Values
  /\ \A t \in Threads : <<t>> \in Values
  /\ \A q \in Seq(Threads) : Plucked(q) \in Values
<1>1. BatchCount \in Nat /\ BatchCount >= 1
  BY CommitAssumption
<1>2. Nothing \in Values
  <2>1. Nothing \in Seq(Threads) /\ Len(Nothing) = 0
    BY DEF Nothing
  <2>2. Len(Nothing) <= BatchCount
    BY <1>1, <2>1
  <2>. QED  BY <2>1, <2>2, ShortIsValue
<1>3. ASSUME NEW t \in Threads PROVE <<t>> \in Values
  <2>1. <<t>> \in Seq(Threads) /\ Len(<<t>>) = 1
    OBVIOUS
  <2>. QED  BY <2>1, <1>1, ShortIsValue
<1>4. ASSUME NEW q \in Seq(Threads) PROVE Plucked(q) \in Values
  <2> DEFINE k == IF Len(q) < BatchCount THEN Len(q) ELSE BatchCount
             s == SubSeq(q, 1, k)
  <2>1. k \in 0 .. Len(q) /\ k <= BatchCount /\ k \in Nat
    BY <1>1
  <2>2. Plucked(q) = s
    BY DEF Plucked
  <2> HIDE DEF k
  <2>3. s \in Seq(Threads) /\ Len(s) = k
    BY <2>1, SubSeqProperties
  <2> HIDE DEF s
  <2>4. s \in Values
    BY <2>1, <2>3, ShortIsValue
  <2>. QED  BY <2>2, <2>4
<1>5. Foreign \in Values
  BY DEF Values
<1>. QED  BY <1>2, <1>3, <1>4, <1>5

LEMMA NotifyKeeps ==
  ASSUME AnswersOK, NEW value, NEW ret \in Rets, NEW i \in 0 .. MaxInstance,
         Notify(value, ret, i)
  PROVE  AnswersOK'
BY DEF AnswersOK, Notify

\* A thread or the batch thread takes up proposals.
LEMMA StartKeeps ==
  ASSUME CInv, RInv, NEW p \in Proposers, run[p].at = "idle", NEW value \in Values,
         run' = [run EXCEPT ![p] = Start(value)], UNCHANGED holder
  PROVE  RunsOK' /\ LockOK'
<1>1. /\ run'[p] = Start(value) /\ \A q \in Proposers \ {p} : run'[q] = run[q]
      /\ Retries \in Nat
  BY CommitAssumption DEF CInv, Shape
<1>2. Start(value).work = value /\ Start(value).tries = Retries /\ Start(value).at = "enter"
  BY DEF Start
<1>3. Retries \in 0 .. Retries
  BY <1>1
<1>4. RunsOK'
  BY <1>1, <1>2, <1>3 DEF RInv, RunsOK
<1>5. LockOK'
  BY <1>1, <1>2 DEF RInv, LockOK
<1>. QED  BY <1>4, <1>5

LEMMA RestKeeps ==
  ASSUME CInv, RInv, UNCHANGED <<ctx, loopVars, holder>>
  PROVE  LogOK' /\ TimerOK'
BY DEF RInv, LogOK, TimerOK, loopVars, Instance

LEMMA ThreadsKeep ==
  ASSUME CInv, RInv, NEW t \in Threads, Propose(t) \/ BatchPropose(t) \/ AddProposal(t)
  PROVE  RInv'
<1>1. UNCHANGED <<ctx, loopVars, holder>>
  BY DEF Propose, BatchPropose, AddProposal
<1>2. t \in Proposers /\ Shape /\ thread[t] \in {"new", "adding"} /\ run[t].at = "idle"
  BY NewIs DEF Proposers, CInv, Propose, BatchPropose, AddProposal
<1>3. LogOK' /\ TimerOK'
  BY <1>1, RestKeeps
<1>4. CASE Propose(t)
  <2>1. /\ run' = [run EXCEPT ![t] = Start(<<t>>)] /\ answer' = answer /\ <<t>> \in Values
        /\ UNCHANGED holder
    BY <1>4, ValuesAre DEF Propose
  <2>2. RunsOK' /\ LockOK'
    BY <2>1, <1>2, StartKeeps
  <2>. QED  BY <2>1, <2>2, <1>3 DEF RInv, AnswersOK
<1>5. CASE BatchPropose(t)
  <2>1. UNCHANGED <<run, holder>>
    BY <1>5 DEF BatchPropose
  <2>2. "SystemError" \in Rets /\ 0 \in 0 .. MaxInstance
    BY CommitAssumption DEF Rets
  <2>3. AnswersOK'
    <3>1. CASE isEnd
      BY <1>5, <3>1, <2>2, NotifyKeeps DEF BatchPropose, RInv
    <3>2. CASE ~ isEnd
      BY <1>5, <3>2 DEF BatchPropose, RInv, AnswersOK
    <3>. QED  BY <3>1, <3>2
  <2>. QED  BY <2>1, <2>3, <1>3 DEF RInv, RunsOK, LockOK
<1>6. CASE AddProposal(t)
  <2>1. Append(queue, t) \in Seq(Threads)
    BY <1>2 DEF Shape
  <2>2. Plucked(Append(queue, t)) \in Values
    BY <2>1, ValuesAre
  <2>3. /\ answer' = answer /\ UNCHANGED holder
        /\ run' = [run EXCEPT ![t] = Start(Plucked(Append(queue, t)))] \/ run' = run
    BY <1>6 DEF AddProposal
  <2>4. RunsOK' /\ LockOK'
    <3>1. CASE run' = run
      BY <3>1, <2>3 DEF RInv, RunsOK, LockOK
    <3>2. CASE run' = [run EXCEPT ![t] = Start(Plucked(Append(queue, t)))]
      BY <3>2, <2>2, <2>3, <1>2, StartKeeps
    <3>. QED  BY <2>3, <3>1, <3>2
  <2>. QED  BY <2>3, <2>4, <1>3 DEF RInv, AnswersOK
<1>. QED  BY <1>4, <1>5, <1>6

LEMMA BatchKeeps ==
  ASSUME CInv, RInv, BatchRun \/ BatchStop \/ BatchRunEnd
  PROVE  RInv'
<1>1. UNCHANGED <<ctx, loopVars, holder>>
  BY DEF BatchRun, BatchStop, BatchRunEnd
<1>2. LogOK' /\ TimerOK'
  BY <1>1, RestKeeps
<1>3. CASE BatchRun
  <2>1. /\ run[Batcher].at = "idle" /\ Batcher \in Proposers
        /\ run' = [run EXCEPT ![Batcher] = Start(Plucked(queue))] /\ answer' = answer
    BY <1>3 DEF BatchRun, Idle, Proposers
  <2>2. Plucked(queue) \in Values
    BY ValuesAre DEF CInv, Shape
  <2>3. RunsOK' /\ LockOK'
    BY <1>1, <2>1, <2>2, StartKeeps
  <2>. QED  BY <2>1, <2>3, <1>2 DEF RInv, AnswersOK
<1>4. CASE BatchStop
  <2>1. UNCHANGED <<answer, run, holder>>
    BY <1>4 DEF BatchStop
  <2>. QED  BY <2>1, <1>2 DEF RInv, AnswersOK, RunsOK, LockOK
<1>5. CASE BatchRunEnd
  <2>1. UNCHANGED <<run, holder>> /\ Notify(queue, "SystemError", 0)
    BY <1>5 DEF BatchRunEnd
  <2>2. "SystemError" \in Rets /\ 0 \in 0 .. MaxInstance
    BY CommitAssumption DEF Rets
  <2>3. AnswersOK'
    BY <2>1, <2>2, NotifyKeeps DEF RInv
  <2>. QED  BY <2>1, <2>3, <1>2 DEF RInv, RunsOK, LockOK
<1>. QED  BY <1>3, <1>4, <1>5

\* The proposer that has the lock is alone at its commit.
LEMMA LockIs ==
  ASSUME CInv, RInv, NEW p \in Proposers, run[p].at = "commit"
  PROVE  holder = {p} /\ \A q \in Proposers : run[q].at = "commit" => q = p
BY DEF CInv, ProposersOK, CommitOK, RInv, LockOK

LEMMA ReturnKeeps ==
  ASSUME CInv, RInv, NEW p \in Proposers, NEW ret \in Rets, NEW i \in 0 .. MaxInstance,
         Return(p, ret, i), holder' = (IF run[p].at = "commit" THEN {} ELSE holder)
  PROVE  AnswersOK' /\ RunsOK' /\ LockOK'
<1>1. AnswersOK'
  BY NotifyKeeps DEF Return, RInv
<1>2. run'[p] = Idle /\ \A q \in Proposers \ {p} : run'[q] = run[q]
  BY DEF Return, CInv, Shape
<1>3. Idle.work = Nothing /\ Idle.tries = 0 /\ Idle.at = "idle"
  BY DEF Idle
<1>4. 0 \in 0 .. Retries
  BY CommitAssumption
<1>5. RunsOK'
  BY <1>2, <1>3, <1>4, ValuesAre DEF RInv, RunsOK
<1>6. LockOK'
  BY <1>2, <1>3, LockIs DEF RInv, LockOK
<1>. QED  BY <1>1, <1>5, <1>6

LEMMA CommitsKeep ==
  ASSUME CInv, RInv, NEW p \in Proposers, Commit(p) \/ Timeout(p)
  PROVE  RInv'
<1>1. /\ UNCHANGED loopVars /\ {"Timeout", "Reject"} \subseteq Rets /\ 0 \in 0 .. MaxInstance
      /\ run[p].tries \in 0 .. Retries /\ Retries \in Nat
  BY CommitAssumption
     DEF Commit, Timeout, WaitForLock, RejectLock, NewCommit, GetResult, LockTimeout, LockTooLate,
         Rets, RInv, RunsOK
<1>2. CASE RejectLock(p) \/ LockTimeout(p) \/ LockTooLate(p)
  <2>1. /\ UNCHANGED <<ctx, holder>> /\ run[p].at # "commit"
        /\ Return(p, "Reject", 0) \/ Return(p, "Timeout", 0)
    BY <1>2 DEF RejectLock, LockTimeout, LockTooLate
  <2>2. AnswersOK' /\ RunsOK' /\ LockOK'
    BY <1>1, <2>1, ReturnKeeps
  <2>. QED  BY <1>1, <2>1, <2>2, RestKeeps DEF RInv
<1>3. CASE WaitForLock(p)
  <2>1. /\ UNCHANGED <<ctx, holder, answer>> /\ run[p].at = "enter"
        /\ run' = [run EXCEPT ![p].at = "wait"]
    BY <1>3 DEF WaitForLock
  <2>2. /\ run'[p].at = "wait" /\ run'[p].work = run[p].work /\ run'[p].tries = run[p].tries
        /\ \A q \in Proposers \ {p} : run'[q] = run[q]
    BY <2>1 DEF CInv, Shape
  <2>3. AnswersOK' /\ RunsOK' /\ LockOK'
    BY <2>1, <2>2 DEF RInv, AnswersOK, RunsOK, LockOK
  <2>. QED  BY <1>1, <2>1, <2>3, RestKeeps DEF RInv
<1>4. CASE NewCommit(p)
  <2>1. /\ holder = {} /\ holder' = {p} /\ answer' = answer
        /\ run' = [run EXCEPT ![p].at = "commit"]
        /\ ctx'.value = run[p].work /\ ctx'.instance = -1
    BY <1>4 DEF NewCommit, CanLock
  <2>2. /\ run'[p].at = "commit" /\ run'[p].work = run[p].work /\ run'[p].tries = run[p].tries
        /\ \A q \in Proposers \ {p} : run'[q] = run[q]
    BY <2>1 DEF CInv, Shape
  <2>3. AnswersOK' /\ RunsOK' /\ LockOK'
    BY <2>1, <2>2 DEF RInv, AnswersOK, RunsOK, LockOK
  <2>4. LogOK'
    <3>1. -1 \in -1 .. MaxInstance /\ run[p].work \in Values
      BY CommitAssumption DEF RInv, RunsOK
    <3>. QED  BY <3>1, <1>1, <2>1 DEF RInv, LogOK, loopVars, Instance
  <2>5. TimerOK'
    BY <1>1, <2>1 DEF RInv, TimerOK, loopVars
  <2>. QED  BY <2>3, <2>4, <2>5 DEF RInv
<1>5. CASE GetResult(p)
  <2>1. /\ run[p].at = "commit" /\ ctx.ended /\ holder' = {} /\ ctx' = ctx
        /\ \/ /\ run[p].tries > 1 /\ answer' = answer
              /\ run' = [run EXCEPT ![p].at = "enter", ![p].tries = @ - 1]
           \/ Return(p, ctx.ret, IF ctx.ret = "OK" THEN ctx.instance ELSE 0)
    BY <1>5 DEF GetResult
  <2>2. LogOK' /\ TimerOK'
    BY <1>1, <2>1 DEF RInv, LogOK, TimerOK, loopVars, Instance
  <2>3. /\ ctx.ret \in Rets
        /\ (IF ctx.ret = "OK" THEN ctx.instance ELSE 0) \in 0 .. MaxInstance
    <3>1. ctx.ret = "OK" => ctx.instance \in 0 .. Instance - 1
      BY <2>1 DEF CInv, ProposersOK, CommitOK
    <3>2. ctx.ret \in Rets
      BY DEF CInv, Shape
    <3>. QED  BY <3>1, <3>2, <1>1 DEF RInv, LogOK
  <2>4. CASE Return(p, ctx.ret, IF ctx.ret = "OK" THEN ctx.instance ELSE 0)
    BY <2>1, <2>2, <2>3, <2>4, ReturnKeeps DEF RInv
  <2>5. CASE /\ run[p].tries > 1 /\ answer' = answer
             /\ run' = [run EXCEPT ![p].at = "enter", ![p].tries = @ - 1]
    <3>1. /\ run'[p].at = "enter" /\ run'[p].work = run[p].work
          /\ run'[p].tries = run[p].tries - 1
          /\ \A q \in Proposers \ {p} : run'[q] = run[q]
      BY <2>5 DEF CInv, Shape
    <3>2. run'[p].tries \in 0 .. Retries
      BY <1>1, <2>5, <3>1
    <3>3. RunsOK' /\ AnswersOK'
      BY <2>5, <3>1, <3>2 DEF RInv, RunsOK, AnswersOK
    <3>4. LockOK'
      BY <2>1, <3>1, LockIs DEF LockOK
    <3>. QED  BY <2>2, <3>3, <3>4 DEF RInv
  <2>. QED  BY <2>1, <2>4, <2>5
<1>. QED  BY <1>2, <1>3, <1>4, <1>5 DEF Commit, Timeout

\* The end of a commit leaves its id and instance.
LEMMA ResultFields ==
  ASSUME CInv, NEW ret, NEW i, NEW value
  PROVE  LET c == SetResult(ret, i, value)
         IN  /\ c.id = ctx.id /\ c.instance = ctx.instance
             /\ c.value \in {ctx.value, Nothing}
             /\ ctx.ended => c.ended
             /\ c.ended => ctx.ended \/ ctx.instance = i
<1> DEFINE r == IF ret = "OK" /\ ctx.value # value THEN "Conflict" ELSE ret
           e == [ctx EXCEPT !.ended = TRUE, !.value = Nothing, !.ret = r]
<1>1. e = [value |-> Nothing, instance |-> ctx.instance, ended |-> TRUE, ret |-> r, id |-> ctx.id]
  BY EndContext DEF CInv
<1>2. SetResult(ret, i, value) \in {ctx, e}
  BY DEF SetResult
<1>3. SetResult(ret, i, value) = e => ctx.ended \/ ctx.instance = i
  BY <1>1 DEF SetResult
<1> HIDE DEF e
<1>4. e.id = ctx.id /\ e.instance = ctx.instance /\ e.value = Nothing /\ e.ended = TRUE
  BY <1>1
<1>. QED  BY <1>2, <1>3, <1>4

LEMMA LoopKeeps ==
  ASSUME CInv, RInv, Loop
  PROVE  RInv'
<1>1. UNCHANGED <<answer, run, holder>>
  BY DEF Loop, CheckNewValue, RefuseNewValue, CommitTimer, CommitTimeout, FallBehind, CatchUp,
     Learn, ExecuteFail, batchVars
<1>2. AnswersOK' /\ RunsOK' /\ LockOK'
  BY <1>1 DEF RInv, AnswersOK, RunsOK, LockOK
<1>3. LogOK /\ TimerOK /\ Instance \in 0 .. MaxInstance
  BY DEF RInv, LogOK
<1>4. ASSUME NEW ret, NEW i, NEW value, ctx' = SetResult(ret, i, value)
      PROVE  /\ ctx'.value \in Values /\ ctx'.instance \in -1 .. MaxInstance
             /\ ctx'.id = ctx.id /\ ctx'.ended => ctx.ended \/ ctx.instance = i
  BY <1>3, <1>4, ResultFields, ValuesAre DEF LogOK
<1>5. CASE CheckNewValue
  <2>1. /\ ctx' = [ctx EXCEPT !.instance = Instance] /\ ctx.value # Nothing
        /\ timers' = timers \cup {ctx.id} /\ timer' = ctx.id
        /\ pvalue' \in {pvalue, ctx.value} /\ UNCHANGED <<chosen, pending, fails>>
    BY <1>5 DEF CheckNewValue, IsNewCommit
  <2>2. /\ ctx'.value = ctx.value /\ ctx'.instance = Instance /\ ctx'.id = ctx.id
        /\ ctx'.ended = ctx.ended
    <3> DEFINE V == Seq(Threads)  B == BOOLEAN
    <3>1. ctx \in [value : V, instance : Int, ended : B, ret : Rets, id : Ids]
      BY DEF CInv, Shape
    <3> HIDE DEF V, B
    <3>. QED  BY <2>1, <3>1
  <2>3. ~ ctx.ended /\ holder # {}
    BY <2>1, LockIs DEF CInv, ContextOK
  <2>4. LogOK'
    <3>1. Instance \in -1 .. MaxInstance
      BY <1>3
    <3>. QED  BY <3>1, <1>3, <2>1, <2>2 DEF LogOK, Instance
  <2>5. TimerOK'
    BY <1>1, <1>3, <2>1, <2>2, <2>3 DEF TimerOK
  <2>. QED  BY <1>2, <2>4, <2>5 DEF RInv
<1>6. CASE RefuseNewValue
  <2>1. /\ ctx' = SetResult("TooLarge", -1, Nothing) /\ ctx.value # Nothing /\ ctx.instance = -1
        /\ UNCHANGED loopVars
    BY <1>6 DEF RefuseNewValue, IsNewCommit
  <2>2. LogOK'
    BY <1>3, <1>4, <2>1 DEF LogOK, loopVars, Instance
  <2>3. fails = 0 => timers = {}
    BY <1>3, <2>1 DEF TimerOK
  <2>4. TimerOK'
    BY <1>3, <2>1, <2>3 DEF TimerOK, loopVars
  <2>. QED  BY <1>2, <2>2, <2>4 DEF RInv
<1>7. CASE CommitTimer
  <2>1. PICK id \in timers : CommitTimeout(id)
    BY <1>7 DEF CommitTimer
  <2>2. /\ timers' = timers \ {id} /\ ctx' = SetResult("Timeout", Instance, Nothing)
        /\ UNCHANGED <<pvalue, pending, chosen, fails>>
    BY <2>1 DEF CommitTimeout
  <2>3. LogOK'
    BY <1>3, <1>4, <2>2 DEF LogOK, Instance
  <2>4. fails = 0 => timers' = {}
    BY <1>3, <2>2 DEF TimerOK
  <2>5. TimerOK'
    BY <1>3, <2>2, <2>4 DEF TimerOK
  <2>. QED  BY <1>2, <2>3, <2>5 DEF RInv
<1>8. ASSUME NEW value \in Learnable, Learn(value) PROVE RInv'
  <2>1. /\ Instance < MaxInstance /\ chosen' = Append(chosen, value)
        /\ ctx' = SetResult("OK", Instance, value) /\ timers' = timers \ {timer}
        /\ pvalue' = Nothing /\ pending' = Nothing /\ fails' = fails
    BY <1>8 DEF Learn
  <2>2. value \in Values
    BY <1>3, LearnableIs, ValuesAre DEF LogOK
  <2>3. chosen' \in Seq(Values) /\ Instance' \in 0 .. MaxInstance
    <3>1. chosen \in Seq(Values) /\ MaxInstance \in Nat
      BY <1>3, CommitAssumption DEF LogOK
    <3>2. Append(chosen, value) \in Seq(Values) /\ Len(Append(chosen, value)) = Len(chosen) + 1
      BY <2>2, <3>1
    <3>. QED  BY <1>3, <2>1, <3>1, <3>2 DEF Instance
  <2>4. LogOK'
    BY <1>3, <1>4, <2>1, <2>3, ValuesAre DEF LogOK
  <2>5. fails = 0 => timers' = {}
    BY <1>3, <2>1 DEF TimerOK
  <2>6. TimerOK'
    BY <1>3, <2>1, <2>5 DEF TimerOK
  <2>. QED  BY <1>2, <2>4, <2>6 DEF RInv
<1>9. ASSUME NEW value \in Learnable, ExecuteFail(value) PROVE RInv'
  <2>1. /\ fails' = fails + 1 /\ pending' = value
        /\ ctx' = SetResult("ExecuteFail", Instance, value) /\ UNCHANGED <<pvalue, chosen>>
    BY <1>9 DEF ExecuteFail
  <2>2. value \in Values
    BY <1>3, LearnableIs, ValuesAre DEF LogOK
  <2>3. LogOK'
    BY <1>3, <1>4, <2>1, <2>2 DEF LogOK, Instance
  <2>4. fails' \in Nat /\ fails' # 0
    BY <1>3, <2>1 DEF TimerOK
  <2>5. TimerOK'
    BY <2>4 DEF TimerOK
  <2>. QED  BY <1>2, <2>3, <2>5 DEF RInv
<1>10. CASE FallBehind \/ CatchUp
  <2>1. UNCHANGED <<ctx, pvalue, timers, timer, chosen, pending, fails>>
    BY <1>10 DEF FallBehind, CatchUp
  <2>2. LogOK' /\ TimerOK'
    BY <1>1, <1>3, <2>1 DEF LogOK, TimerOK, Instance
  <2>. QED  BY <1>2, <2>2 DEF RInv
<1>. QED  BY <1>5, <1>6, <1>7, <1>8, <1>9, <1>10 DEF Loop

LEMMA RInit == Init => RInv
<1> SUFFICES ASSUME Init PROVE RInv
  OBVIOUS
<1>1. {MaxInstance, Retries} \subseteq Nat
  BY CommitAssumption
<1>2. AnswersOK
  BY <1>1 DEF Init, AnswersOK, NoAnswer, Rets
<1>3. RunsOK /\ LockOK
  BY <1>1, ValuesAre DEF Init, RunsOK, LockOK, Idle
<1>4. LogOK
  <2>1. chosen = <<>> /\ Len(chosen) = 0 /\ chosen \in Seq(Values)
    BY DEF Init
  <2>2. /\ pvalue = Nothing /\ pending = Nothing
        /\ ctx.value = Nothing /\ ctx.instance = -1
    BY DEF Init, NoCommit
  <2>3. -1 \in -1 .. MaxInstance /\ 0 \in 0 .. MaxInstance
    BY <1>1
  <2>. QED  BY <2>1, <2>2, <2>3, ValuesAre DEF LogOK, Instance
<1>5. TimerOK
  BY DEF Init, TimerOK
<1>. QED  BY <1>2, <1>3, <1>4, <1>5 DEF RInv

LEMMA RNext == CInv /\ RInv /\ [Next]_vars => RInv'
<1> SUFFICES ASSUME CInv, RInv, [Next]_vars PROVE RInv'
  OBVIOUS
<1>1. ASSUME NEW t \in Threads, Propose(t) \/ BatchPropose(t) \/ AddProposal(t) PROVE RInv'
  BY <1>1, ThreadsKeep
<1>2. CASE BatchRun \/ BatchStop \/ BatchRunEnd
  BY <1>2, BatchKeeps
<1>3. ASSUME NEW p \in Proposers, Commit(p) \/ Timeout(p) PROVE RInv'
  BY <1>3, CommitsKeep
<1>4. CASE Loop
  BY <1>4, LoopKeeps
<1>5. CASE UNCHANGED vars
  BY <1>5
     DEF vars, batchVars, loopVars, RInv, AnswersOK, RunsOK, LockOK, LogOK, TimerOK, Instance
<1>. QED  BY <1>1, <1>2, <1>3, <1>4, <1>5 DEF Next

(***************************************************************************)
(* What is kept stays in its range: answers, tries, values no longer than  *)
(* a batch and the log; and the lock is held by no more than one proposer, *)
(* the one at its commit (WaitLock, Committer::NewValueGetIDNoRetry).      *)
(***************************************************************************)
THEOREM CommitTypes == Spec => []TypeOK
<1>1. ASSUME CInv, RInv PROVE TypeOK
  <2>1. /\ Shape /\ AnswersOK /\ RunsOK /\ LockOK /\ LogOK
    BY <1>1 DEF CInv, RInv
  <2>2. Cardinality(holder) <= 1
    <3>1. CASE holder = {}
      BY <3>1, FS_EmptySet
    <3>2. CASE holder # {}
      <4>1. PICK p \in Proposers : run[p].at = "commit"
        BY <2>1, <3>2 DEF LockOK
      <4>2. holder = {p}
        BY <1>1, <4>1, LockIs
      <4>. QED  BY <4>2, FS_Singleton
    <3>. QED  BY <3>1, <3>2
  <2>3. \A p \in Proposers : run[p].at \in {"idle", "enter", "wait", "commit"}
    BY <2>1 DEF Shape
  <2>4. ctx.ret \in Rets
    BY <2>1 DEF Shape
  <2>. QED  BY <2>1, <2>2, <2>3, <2>4 DEF TypeOK, Shape, AnswersOK, RunsOK, LockOK, LogOK
<1>. QED  BY <1>1, CommitInit, CommitNext, RInit, RNext, PTL DEF Spec

(***************************************************************************)
(* Until an execution fails, a commit timer that is set is the one of the  *)
(* commit in the context, so that it ends no later commit                  *)
(* (Instance::CheckNewValue, ReceiveMsgForLearner, OnTimeout).             *)
(***************************************************************************)
THEOREM OwnTimer == Spec => []TimerOfCommit
<1>1. RInv => TimerOfCommit
  BY DEF RInv, TimerOK, TimerOfCommit
<1>. QED  BY <1>1, CommitInit, CommitNext, RInit, RNext, PTL DEF Spec
==============================================================================
