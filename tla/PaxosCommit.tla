------------------------------ MODULE PaxosCommit -------------------------------
(***************************************************************************)
(* How the threads of a program get their values into the log of one group *)
(* (algorithm/committer.cpp, commitctx.cpp, ioloop.cpp, instance.cpp,      *)
(* utils/wait_lock.cpp, node/propose_batch.cpp).                           *)
(*                                                                         *)
(* A thread proposes by itself, or puts its proposal into a queue from     *)
(* which it, a later thread, or the batch thread takes several to propose  *)
(* them as one value.  Whoever proposes takes the wait lock, fills the one *)
(* commit context of the group and waits for its end.  The I/O loop starts *)
(* the commit when the node is not behind, and ends it when an instance is *)
(* learned or a timer runs out.  What is chosen in an instance is up to    *)
(* paxos: the value this node's proposer holds or one of another node.     *)
(*                                                                         *)
(* A value is the sequence of the threads whose proposals it carries.      *)
(* Times are abstracted: a wait with a timeout may end at any moment.      *)
(***************************************************************************)
EXTENDS Integers, Sequences, SequencesExt, FiniteSets

CONSTANTS
  Threads,      \* the threads of the program, one proposal each
  Batcher,      \* the thread of ProposeBatch
  BatchCount,   \* m_iBatchCount
  MaxHold,      \* m_iMaxWaitLockCount
  Retries,      \* iRetryCount of NewValueGetID
  Refused,      \* threads whose value is too large
  MaxInstance,  \* bound of the model: instances chosen
  MaxFaults     \* bound of the model: executions that fail, and times behind

ASSUME CommitAssumption ==
  /\ IsFiniteSet(Threads) /\ Batcher \notin Threads /\ Refused \subseteq Threads
  /\ {MaxHold, MaxInstance, MaxFaults} \subseteq Nat
  /\ {BatchCount, Retries} \subseteq Nat \ {0}

Proposers == Threads \cup {Batcher}
Nothing == <<>>            \* no value
Foreign == <<Batcher>>     \* a value of another node: no thread of this one
NoAnswer == [ret |-> "none", instance |-> 0, index |-> 0]
Idle == [work |-> Nothing, tries |-> 0, at |-> "idle"]

VARIABLES
  thread,   \* "new", "adding" (past the test of m_bIsEnd), "waits" or "done"
  answer,   \* what Propose or BatchPropose returned to the thread
  queue,    \* m_oQueue: the threads whose proposals wait
  isEnd,    \* m_bIsEnd
  ended,    \* the batch thread has returned
  run,      \* NewValueGetID of each proposer: its value, tries left and place
  holder,   \* the proposer that has the wait lock, if any
  ctx,      \* CommitCtx
  pvalue,   \* the value of the node's proposer
  timers,   \* commit timers that are set: the commits they were set for
  timer,    \* m_iCommitTimerID: the commit it was last set for
  chosen,   \* the log: the values executed, in order
  pending,  \* a value that was learned and whose execution failed
  latest,   \* IsIMLatest
  fails,    \* history: executions that failed
  behinds   \* history: times the node fell behind

batchVars == <<queue, isEnd, ended>>
loopVars == <<pvalue, timers, timer, chosen, pending, latest, fails, behinds>>
vars == <<thread, answer, batchVars, run, holder, ctx, loopVars>>

NoCommit == [value |-> Nothing, instance |-> -1, ended |-> FALSE, ret |-> "none", id |-> <<>>]
Instance == Len(chosen)

------------------------------------------------------------------------------
(***************************************************************************)
(* ProposeBatch and Node::Propose.                                         *)
(***************************************************************************)
Start(value) == [work |-> value, tries |-> Retries, at |-> "enter"]

\* iBatchIndex; a proposal made alone leaves it as the caller has it.
Place(value, t) == IF Len(value) = 1 THEN 0 ELSE CHOOSE i \in DOMAIN value : value[i] = t

\* The result of a value goes to every thread it carries a proposal of.
Notify(value, ret, instance) ==
  /\ thread' = [t \in Threads |-> IF t \in Range(value) THEN "done" ELSE thread[t]]
  /\ answer' = [t \in Threads |->
       IF t \notin Range(value) THEN answer[t]
       ELSE [ret |-> ret, instance |-> instance, index |-> Place(value, t)]]

Propose(t) ==
  /\ thread[t] = "new"
  /\ thread' = [thread EXCEPT ![t] = "waits"]
  /\ run' = [run EXCEPT ![t] = Start(<<t>>)]
  /\ UNCHANGED <<answer, batchVars, holder, ctx, loopVars>>

\* The test of m_bIsEnd, before the mutex is taken.
BatchPropose(t) ==
  /\ thread[t] = "new"
  /\ IF isEnd THEN Notify(<<t>>, "SystemError", 0)
     ELSE thread' = [thread EXCEPT ![t] = "adding"] /\ UNCHANGED answer
  /\ UNCHANGED <<batchVars, run, holder, ctx, loopVars>>

Plucked(q) == SubSeq(q, 1, IF Len(q) < BatchCount THEN Len(q) ELSE BatchCount)
LeftOver(q) == SubSeq(q, BatchCount + 1, Len(q))

\* With enough in the queue, or when its front has waited long enough, the
\* thread itself proposes what it plucks, which need not be its own.
AddProposal(t) ==
  LET q == Append(queue, t)
  IN  /\ thread[t] = "adding"
      /\ thread' = [thread EXCEPT ![t] = "waits"]
      /\ \E needBatch \in {TRUE, Len(q) >= BatchCount} :
           IF needBatch
           THEN queue' = LeftOver(q) /\ run' = [run EXCEPT ![t] = Start(Plucked(q))]
           ELSE queue' = q /\ UNCHANGED run
      /\ UNCHANGED <<answer, isEnd, ended, holder, ctx, loopVars>>

BatchRun ==
  /\ ~ isEnd /\ run[Batcher] = Idle /\ queue # <<>>
  /\ queue' = LeftOver(queue)
  /\ run' = [run EXCEPT ![Batcher] = Start(Plucked(queue))]
  /\ UNCHANGED <<thread, answer, isEnd, ended, holder, ctx, loopVars>>

BatchStop ==
  /\ ~ isEnd /\ isEnd' = TRUE
  /\ UNCHANGED <<thread, answer, queue, ended, run, holder, ctx, loopVars>>

BatchRunEndSilent ==   \* mutant
  /\ isEnd /\ ~ ended /\ run[Batcher] = Idle
  /\ ended' = TRUE
  /\ UNCHANGED <<thread, answer, queue, isEnd, run, holder, ctx, loopVars>>

\* "notify all waiting thread."
BatchRunEnd ==
  /\ isEnd /\ ~ ended /\ run[Batcher] = Idle
  /\ ended' = TRUE /\ queue' = <<>>
  /\ Notify(queue, "SystemError", 0)
  /\ UNCHANGED <<isEnd, run, holder, ctx, loopVars>>

------------------------------------------------------------------------------
(***************************************************************************)
(* Committer and WaitLock.                                                 *)
(***************************************************************************)
Waiting == {p \in Proposers : run[p].at = "wait"}

\* The proposer p returns ret to the threads whose proposals it made.
Return(p, ret, instance) ==
  /\ Notify(run[p].work, ret, instance)
  /\ run' = [run EXCEPT ![p] = Idle]

RejectLock(p) ==
  /\ run[p].at = "enter" /\ Cardinality(Waiting) >= MaxHold
  /\ Return(p, "Reject", 0)
  /\ UNCHANGED <<batchVars, holder, ctx, loopVars>>

WaitForLock(p) ==
  /\ run[p].at = "enter" /\ Cardinality(Waiting) < MaxHold /\ holder # {}
  /\ run' = [run EXCEPT ![p].at = "wait"]
  /\ UNCHANGED <<thread, answer, batchVars, holder, ctx, loopVars>>

LockTimeout(p) ==
  /\ run[p].at = "wait"
  /\ Return(p, "Timeout", 0)
  /\ UNCHANGED <<batchVars, holder, ctx, loopVars>>

CanLockShared(p) ==   \* mutant
  \/ run[p].at = "enter" /\ Cardinality(Waiting) < MaxHold
  \/ run[p].at = "wait"

CanLock(p) ==
  /\ \/ run[p].at = "enter" /\ Cardinality(Waiting) < MaxHold
     \/ run[p].at = "wait"
  /\ holder = {}

\* The lock came with less than 200 ms left: it is given back.
LockTooLate(p) ==
  /\ CanLock(p) /\ run[p].at = "wait"
  /\ Return(p, "Timeout", 0)
  /\ UNCHANGED <<batchVars, holder, ctx, loopVars>>

NewCommit(p) ==
  /\ CanLock(p)
  /\ holder' = {p}
  /\ run' = [run EXCEPT ![p].at = "commit"]
  /\ ctx' = [value |-> run[p].work, instance |-> -1, ended |-> FALSE, ret |-> "none",
             id |-> <<p, run[p].work, run[p].tries>>]
  /\ UNCHANGED <<thread, answer, batchVars, loopVars>>

RetriesAll(ret) == ret # "OK"   \* mutant

\* Only a conflict is tried again.
RetriesOn(ret) == ret = "Conflict"

GetResult(p) ==
  /\ run[p].at = "commit" /\ ctx.ended
  /\ holder' = {}
  /\ IF RetriesOn(ctx.ret) /\ run[p].tries > 1
     THEN /\ run' = [run EXCEPT ![p].at = "enter", ![p].tries = @ - 1]
          /\ UNCHANGED <<thread, answer>>
     ELSE Return(p, ctx.ret, IF ctx.ret = "OK" THEN ctx.instance ELSE 0)
  /\ UNCHANGED <<batchVars, ctx, loopVars>>

------------------------------------------------------------------------------
(***************************************************************************)
(* The I/O loop.                                                           *)
(***************************************************************************)
SetResultOfAny(ret, instance, value) ==   \* mutant
  IF ctx.ended \/ ctx.instance # instance THEN ctx
  ELSE [ctx EXCEPT !.ended = TRUE, !.value = Nothing, !.ret = ret]

\* CommitCtx::SetResult: the context after it.
SetResult(ret, instance, value) ==
  IF ctx.ended \/ ctx.instance # instance THEN ctx
  ELSE [ctx EXCEPT !.ended = TRUE, !.value = Nothing,
                   !.ret = IF ret = "OK" /\ ctx.value # value THEN "Conflict" ELSE ret]

IsNewCommit == ctx.instance = -1 /\ ctx.value # Nothing

\* Nothing happens, and no timer is set, while the node is behind.
CheckNewValue ==
  /\ IsNewCommit /\ latest
  /\ Range(ctx.value) \cap Refused = {}
  /\ ctx' = [ctx EXCEPT !.instance = Instance]
  /\ timers' = timers \cup {ctx.id} /\ timer' = ctx.id
  /\ pvalue' = IF pvalue = Nothing THEN ctx.value ELSE pvalue
  /\ UNCHANGED <<thread, answer, batchVars, run, holder, chosen, pending, latest, fails, behinds>>

RefuseNewValue ==
  /\ IsNewCommit /\ latest
  /\ Range(ctx.value) \cap Refused # {}
  /\ ctx' = SetResult("TooLarge", -1, Nothing)
  /\ UNCHANGED <<thread, answer, batchVars, run, holder, loopVars>>

CommitTimeout(id) ==
  /\ id \in timers
  /\ timers' = timers \ {id}
  /\ ctx' = SetResult("Timeout", Instance, Nothing)
  /\ UNCHANGED <<thread, answer, batchVars, run, holder, pvalue, timer, chosen, pending, latest,
                 fails, behinds>>

\* What the next instance may be found to have chosen.
Learnable ==
  IF pending # Nothing THEN {pending} ELSE {Foreign} \cup ({pvalue} \ {Nothing})

LearnKeepsValue(value) ==   \* mutant
  /\ Instance < MaxInstance /\ value \in Learnable
  /\ chosen' = Append(chosen, value)
  /\ ctx' = SetResult("OK", Instance, value)
  /\ timers' = timers \ {timer}
  /\ pending' = Nothing
  /\ UNCHANGED <<thread, answer, batchVars, run, holder, pvalue, timer, latest, fails, behinds>>

LearnKeepsTimer(value) ==   \* mutant
  /\ Instance < MaxInstance /\ value \in Learnable
  /\ chosen' = Append(chosen, value)
  /\ ctx' = SetResult("OK", Instance, value)
  /\ pvalue' = Nothing /\ pending' = Nothing
  /\ UNCHANGED <<thread, answer, batchVars, run, holder, timers, timer, latest, fails, behinds>>

\* The instance is learned and executed, and the next begins.
Learn(value) ==
  /\ Instance < MaxInstance /\ value \in Learnable
  /\ chosen' = Append(chosen, value)
  /\ ctx' = SetResult("OK", Instance, value)
  /\ timers' = timers \ {timer}
  /\ pvalue' = Nothing /\ pending' = Nothing
  /\ UNCHANGED <<thread, answer, batchVars, run, holder, timer, latest, fails, behinds>>

\* The state machine fails: the instance stays, and so does the timer.
ExecuteFail(value) ==
  /\ Instance < MaxInstance /\ fails + behinds < MaxFaults /\ value \in Learnable
  /\ fails' = fails + 1
  /\ pending' = value
  /\ ctx' = SetResult("ExecuteFail", Instance, value)
  /\ UNCHANGED <<thread, answer, batchVars, run, holder, pvalue, timers, timer, chosen, latest,
                 behinds>>

FallBehind ==
  /\ latest /\ fails + behinds < MaxFaults
  /\ latest' = FALSE /\ behinds' = behinds + 1
  /\ UNCHANGED <<thread, answer, batchVars, run, holder, ctx, pvalue, timers, timer, chosen,
                 pending, fails>>

CatchUp ==
  /\ ~ latest /\ latest' = TRUE
  /\ UNCHANGED <<thread, answer, batchVars, run, holder, ctx, pvalue, timers, timer, chosen,
                 pending, fails, behinds>>

------------------------------------------------------------------------------
Init ==
  /\ thread = [t \in Threads |-> "new"]
  /\ answer = [t \in Threads |-> NoAnswer]
  /\ queue = <<>> /\ isEnd = FALSE /\ ended = FALSE
  /\ run = [p \in Proposers |-> Idle]
  /\ holder = {}
  /\ ctx = NoCommit
  /\ pvalue = Nothing /\ timers = {} /\ timer = <<>>
  /\ chosen = <<>> /\ pending = Nothing /\ latest = TRUE
  /\ fails = 0 /\ behinds = 0

Commit(p) == WaitForLock(p) \/ RejectLock(p) \/ NewCommit(p) \/ GetResult(p)

Timeout(p) == LockTimeout(p) \/ LockTooLate(p)

CommitTimer == \E id \in timers : CommitTimeout(id)

Loop ==
  \/ CheckNewValue \/ RefuseNewValue \/ CommitTimer \/ FallBehind \/ CatchUp
  \/ \E value \in Learnable : Learn(value) \/ ExecuteFail(value)

Next ==
  \/ \E t \in Threads : Propose(t) \/ BatchPropose(t) \/ AddProposal(t)
  \/ BatchRun \/ BatchStop \/ BatchRunEnd
  \/ \E p \in Proposers : Commit(p) \/ Timeout(p)
  \/ Loop

Spec == Init /\ [][Next]_vars

(***************************************************************************)
(* The threads and the I/O loop run; a timer that is set runs out unless   *)
(* it is removed; a node that is behind catches up, which is what the      *)
(* learner asks its peers for.  Nobody need ever choose a value.           *)
(***************************************************************************)
Fairness ==
  /\ \A t \in Threads : WF_vars(AddProposal(t))
  /\ WF_vars(BatchRun) /\ WF_vars(BatchRunEnd)
  /\ \A p \in Proposers : WF_vars(Commit(p))
  /\ WF_vars(CheckNewValue \/ RefuseNewValue) /\ WF_vars(CommitTimer) /\ WF_vars(CatchUp)

FairSpec == Spec /\ Fairness
==============================================================================
