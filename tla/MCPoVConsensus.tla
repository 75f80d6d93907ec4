--------------------------- MODULE MCPoVConsensus ----------------------------
(***************************************************************************)
(* Small instances of the normal phase.                                    *)
(***************************************************************************)
EXTENDS PoVSafety

MCNodes == 1 .. 3
MCTwo == 1 .. 2
MCList3 == <<1, 2, 3>>
MCList2 == <<1, 2>>
MCBallots3 == [c \in 1 .. 3 |-> <<1, 2>>]
MCBallots2 == [c \in 1 .. 2 |-> <<3 - c>>]
MCBallotsOne == [c \in 1 .. 3 |-> <<1>>]
MCVote12 == <<1, 2>>
MCVote1 == <<1>>

\* Fresh memory of the operating system.
MCZero == [n \in Nodes |-> 0]

MCGenesis ==
  [raw  |-> [height |-> 0, cycles |-> 0, generator |-> 1, prev |-> <<>>,
             kind |-> "vote", ballots |-> Commissioners],
   sigs |-> <<>>, next |-> 0, te |-> 0]

(***************************************************************************)
(* The state after the butlers of the genesis block had a turn each, on    *)
(* their way to a normal block, in which they learned the NodeIDs and the  *)
(* group keys of the commissioners but no signature reached them: requests *)
(* and answers are gone, a second turn begins.  Two butlers have dropped   *)
(* their blocks off duty, a single one keeps the block of its first slot.  *)
(***************************************************************************)
ASSUME KnownAssumption == ButlerAmount \in {1, 2} /\ DeferTime = 0 /\ 1 < Tcut

FirstButlers == {GenesisVote[i] : i \in 1 .. VoteAmount}

KnownTo(n) == IF n \in FirstButlers THEN Commissioners ELSE {}

FirstBlock(n) ==
  [height |-> 1, cycles |-> 0, generator |-> n, prev |-> HeaderHash(Genesis),
   kind |-> "normal", ballots |-> {}]

KnownInit ==
  /\ now = 2 * Tcut
  /\ msgs = {}
  /\ chain = [n \in Nodes |-> <<Genesis>>]
  /\ startTime = [n \in Nodes |-> Genesis.te]
  /\ initDuty = [n \in Nodes |-> Genesis.next]
  /\ NumBlocks > 1 /\ period = [n \in Nodes |-> NextPeriod(StartPeriod[n])]
  /\ butlerNum = [n \in Nodes |-> PostsOf(<<Genesis>>)]
  /\ butlerList = [n \in Nodes |-> FirstButlers]
  /\ pool = [n \in Nodes |-> {}]
  /\ genState = [n \in Nodes |-> "sign"]
  /\ cache = [n \in Nodes |-> IF ButlerAmount = 1 /\ n \in FirstButlers
                              THEN FirstBlock(n) ELSE NoBlock]
  /\ sigs = [n \in Nodes |-> <<>>]
  /\ ringPool = [n \in Nodes |-> {}]
  /\ commIds = [n \in Nodes |-> KnownTo(n)]
  /\ butlerIds = [n \in Nodes |-> {}]
  /\ groupKeys = [n \in Nodes |-> KnownTo(n)]
  /\ calls = [n \in Nodes |-> {}]

KnownSpec == KnownInit /\ [][Next]_vars
==============================================================================
