------------------------------- MODULE PaxosLog -------------------------------
(***************************************************************************)
(* What a group promises to the state machines above it: one log, in which *)
(* every entry is a value some client offered for that instance, and which *)
(* every node plays in order, from the first entry on.  A node that        *)
(* restarts may have to play its last entry once more.                     *)
(***************************************************************************)
EXTENDS Naturals

CONSTANTS Nodes, ClientValues, LastInstance

VARIABLES
  executed,  \* the <<instance, value>> pairs handed to any state machine
  position   \* the instance each node is to play next

logVars == <<executed, position>>

Offered(i) == UNION {ClientValues[n][i] : n \in Nodes}

Init ==
  /\ executed = {}
  /\ position = [n \in Nodes |-> 0]

\* The first node to play an instance fixes its value for all.
Play(n) ==
  /\ position[n] <= LastInstance
  /\ \E v \in Offered(position[n]) :
       /\ \A x \in executed : x[1] = position[n] => x[2] = v
       /\ executed' = executed \cup {<<position[n], v>>}
  /\ position' = [position EXCEPT ![n] = @ + 1]

Restart(n) ==
  /\ position[n] > 0
  /\ position' = [position EXCEPT ![n] = @ - 1]
  /\ UNCHANGED executed

Next == \E n \in Nodes : Play(n) \/ Restart(n)

Spec == Init /\ [][Next]_logVars
==============================================================================
