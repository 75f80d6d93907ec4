--------------------------- MODULE PaxosCommitSafety ----------------------------
(***************************************************************************)
(* What the threads that propose rely on.                                  *)
(***************************************************************************)
EXTENDS PaxosCommit

Values == {Foreign} \cup UNION {[1 .. n -> Threads] : n \in 0 .. BatchCount}
Rets == {"none", "OK", "Conflict", "Timeout", "Reject", "TooLarge", "ExecuteFail", "SystemError"}

TypeOK ==
  /\ thread \in [Threads -> {"new", "adding", "waits", "done"}]
  /\ \A t \in Threads : answer[t].ret \in Rets /\ answer[t].instance \in 0 .. MaxInstance
  /\ queue \in Seq(Threads) /\ IsInjective(queue)
  /\ \A p \in Proposers : /\ run[p].at \in {"idle", "enter", "wait", "commit"}
                          /\ run[p].tries \in 0 .. Retries /\ run[p].work \in Values
  /\ holder = {p \in Proposers : run[p].at = "commit"} /\ Cardinality(holder) <= 1
  /\ ctx.ret \in Rets /\ ctx.value \in Values /\ ctx.instance \in -1 .. MaxInstance
  /\ pvalue \in Values /\ pending \in Values /\ chosen \in Seq(Values)

(***************************************************************************)
(* A thread that is told OK finds its own proposal at the instance and the *)
(* place of the batch it is told (CommitCtx::SetResult, DoPropose).        *)
(***************************************************************************)
OwnAnswer ==
  \A t \in Threads : answer[t].ret = "OK" =>
    /\ answer[t].instance < Instance
    /\ LET value == chosen[answer[t].instance + 1]
       IN  value = <<t>> \/ (Len(value) > 1 /\ value[answer[t].index] = t)

(***************************************************************************)
(* A proposal is executed at most once, although NewValueGetID repeats it  *)
(* and a value whose commit timed out stays with the proposer.             *)
(***************************************************************************)
NeverTwice ==
  \A i, j \in DOMAIN chosen : \A t \in Threads :
    t \in Range(chosen[i]) /\ t \in Range(chosen[j]) => i = j

(***************************************************************************)
(* A thread that is told of a conflict, a refusal or the end of the batch  *)
(* thread may propose again: its value is not executed.  Only a timeout    *)
(* and a failed execution leave that open.                                 *)
(***************************************************************************)
NoMeansNo ==
  \A t \in Threads : answer[t].ret \in {"Conflict", "Reject", "TooLarge", "SystemError"} =>
    \A i \in DOMAIN chosen : t \notin Range(chosen[i])

(***************************************************************************)
(* A commit timer that runs out ends the commit it was set for, not one    *)
(* that came later, as long as no execution failed: ExecuteFail ends a     *)
(* commit and leaves its timer (instance.cpp:690).                         *)
(***************************************************************************)
TimerOfCommit == fails = 0 => timers \subseteq {ctx.id}

(***************************************************************************)
(* Every thread that has put its proposal into the queue, or proposes by   *)
(* itself, before the batch thread has returned, gets an answer.           *)
(***************************************************************************)
EveryoneReturns ==
  \A t \in Threads : (thread[t] = "waits" /\ ~ ended) ~> thread[t] = "done"
==============================================================================
