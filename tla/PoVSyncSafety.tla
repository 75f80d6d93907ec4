---------------------------- MODULE PoVSyncSafety -----------------------------
(***************************************************************************)
(* What synchronisation must preserve.                                     *)
(***************************************************************************)
EXTENDS PoVSync

Heights == -1 .. MaxHeight

\* The state is well-formed; in particular databases and replays hold only
\* published blocks, and no block is asked for that was never published.
TypeOK ==
  /\ db \in [Nodes -> SUBSET (published \cup {Genesis})]
  /\ state \in [Nodes -> {"sync", "first", "normal"}]
  /\ applied \in [Nodes -> Seq(published \cup {Genesis})]
  /\ syncers \in [Nodes -> Seq([id : Nodes, height : Heights])]
  /\ current \in [Nodes -> [id : Nodes \cup {0}, height : Heights]]
  /\ active \in [Nodes -> BOOLEAN] /\ waited \in [Nodes -> BOOLEAN]
  /\ calls \in [Nodes -> SUBSET (0 .. MaxHeight)]
  /\ starts \in 0 .. MaxStarts

\* A database is a chain: one block for each height from 0 on, each naming
\* the one below it, though nobody checks a fetched block and published and
\* fetched blocks arrive in any order.
StoredChain ==
  \A n \in Nodes : \A b \in db[n] :
    /\ BlocksAt(n, b.height) = {b}
    /\ b.height > 0 => b.prev \in db[n]

\* When a node takes part again, its variables come from the blocks of its
\* database in their order, all of them but at most one, and no block is
\* stored later behind their back.
AtMostOneUnapplied ==
  \A n \in Nodes : state[n] = "normal" =>
    /\ \A i \in DOMAIN applied[n] : applied[n][i] \in db[n]
    /\ \A i \in 2 .. Len(applied[n]) : applied[n][i - 1].height < applied[n][i].height
    /\ Cardinality(db[n]) <= Len(applied[n]) + 1

\* The start time and the butler on duty of a normal node are those of its
\* last block, as the declarations in POV.h say.
VariablesOfLastBlock ==
  \A n \in Nodes : state[n] = "normal" =>
    applied[n] # <<>> /\ applied[n][Len(applied[n])] = Top(n)

\* A node that starts or restarts ends its synchronisation, however its peers'
\* chains grow meanwhile, unless for ever peers report heights above its own
\* and requests for their blocks expire: each report refills the queue, and
\* no number of failures ends the loop (POV.cc:227).
SyncEnds ==
  \A n \in Nodes :
    \/ state[n] = "sync" ~> state[n] # "sync"
    \/ []<><<OnResponseHeight(n)>>_vars /\ []<><<CallExpires(n)>>_vars
==============================================================================
