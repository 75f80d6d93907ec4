--------------------------- MODULE PoVGenesisSafety ----------------------------
(***************************************************************************)
(* What the genesis phase must bring about.                                *)
(***************************************************************************)
EXTENDS PoVGenesis

TypeOK ==
  /\ state \in [Nodes -> {"sync", "first", "normal"}]
  /\ known \in [Nodes -> SUBSET Commissioners]
  /\ applied \in [Nodes -> {"signatures", "final", "finish"}]
  /\ appliedBy \in [Nodes -> SUBSET Commissioners]
  /\ stage \in [Nodes -> {"letter", "signatures", "final", "finish"}]
  /\ letter \in [Nodes -> Commissioners \cup {Nobody}]
  /\ \A n \in Nodes : /\ IsInjective(sigs[n]) /\ Range(sigs[n]) \subseteq Commissioners
                      /\ asked[n] \subseteq Commissioners \X Commissioners
  /\ acks \subseteq Candidates
  /\ \A n \in Nodes : \A e, f \in pool[n] : e.who = f.who => e = f
  /\ ballots \subseteq Commissioners /\ blockSigs \subseteq Commissioners
  /\ genState \in {"sign", "publish", "finish"}
  /\ inbox \subseteq Nodes /\ genesis \subseteq Nodes

Restarted == Range(restarts)

(***************************************************************************)
(* The genesis block speaks for the whole committee: each commissioner     *)
(* applied, voted and signed it, and each candidate is in it (run 98,      *)
(* Initial_GenerateBlock and handleResponseBlockSignature).                *)
(***************************************************************************)
GenesisUnanimous ==
  \A p \in published :
    /\ p.signers = Commissioners
    /\ {a.who : a \in p.block.applicants} = Commissioners
    /\ {a.who : a \in p.block.candidates} = Candidates
    /\ p.block.voters = Commissioners

(***************************************************************************)
(* The block is sent once and a node that cannot check it drops it for     *)
(* good.  A node that has run since the beginning can check it, because    *)
(* everybody needed all keys for its own part in it.                       *)
(***************************************************************************)
CommitteeCanAccept ==
  \A p \in published : \A n \in inbox \ Restarted : ValidBlock(n, p.block, p.signers)

(***************************************************************************)
(* A candidate that has finished its application is not taken back to an   *)
(* earlier stage by late signatures, for it has neither letter nor         *)
(* signatures any more (handleResponseApplyButlerCandidateSignature).      *)
(***************************************************************************)
FinishedStaysFinished ==
  [][\A d \in Candidates :
       stage[d] = "finish" /\ stage'[d] # "finish" => Len(restarts') > Len(restarts)]_vars

(***************************************************************************)
(* Only a candidate whose letter every commissioner signed is registered   *)
(* anywhere (the comment at POV.cc:3451), although the application carries *)
(* only half of the signatures.                                            *)
(***************************************************************************)
LetterSignedByAll ==
  \A c \in Commissioners : \A e \in pool[c] :
    Commissioners \X {e.who} \X {e.letter} \subseteq vouched

(***************************************************************************)
(* Once every commissioner has registered every candidate, the network     *)
(* gets its genesis block, unless a process restarts on the way.           *)
(***************************************************************************)
AllRegistered == \A c \in Commissioners : Registered(c) = Candidates

GenesisFollows ==
  AllRegistered ~> (genesis = Nodes \/ restarts # <<>>)
==============================================================================
