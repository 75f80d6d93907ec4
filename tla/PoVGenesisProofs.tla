-------------------------- MODULE PoVGenesisProofs ---------------------------
(***************************************************************************)
(* Proofs, for any committee, any candidates and any restarts, that the    *)
(* genesis block speaks for the whole committee, that only a candidate     *)
(* whose letter everybody signed is registered, that a candidate that has  *)
(* finished stays so, and that, until the agent restarts, whoever has run  *)
(* from the beginning can check the block when it comes.                   *)
(***************************************************************************)
EXTENDS PoVGenesisSafety, FiniteSetTheorems, TLAPS

------------------------------------------------------------------------------
(***************************************************************************)
(* The inductive invariant.  Its parts: what TypeOK leaves open; how far   *)
(* the application of each candidate is; what the applications on their    *)
(* way say of it; and the agent's block.                                   *)
(***************************************************************************)
Application ==
  [who : Candidates, letter : Commissioners \cup {Nobody}, signers : SUBSET Commissioners]

CommApplication == [who : Commissioners, signers : SUBSET Commissioners]

Shapes ==
  /\ sigs \in [Nodes -> Seq(Commissioners)]
  /\ asked \in [Nodes -> SUBSET (Commissioners \X Commissioners)]
  /\ \A m \in apps : m[2] \in Application /\ m[3] \in Nat
  /\ pool \in [Nodes -> SUBSET Application]
  /\ commPool \subseteq CommApplication
  /\ \A e, f \in commPool : e.who = f.who => e = f
  /\ restarts \in Seq(Nodes)

\* Commissioner c has neither signed for d nor been asked to.
Silent(d, c) == c \notin Range(sigs[d]) /\ \A r \in asked[d] : r[1] # c

\* While the signatures are gathered and sent they are all of one letter; the
\* last of them leaves nobody to complete a second set once the first is cleared.
Progress(d) ==
  /\ stage[d] = "letter" => asked[d] = {} /\ sigs[d] = <<>>
  /\ stage[d] \in {"signatures", "final"} =>
       /\ known[d] = Commissioners /\ letter[d] \in Commissioners
       /\ \A r \in asked[d] : r[2] = letter[d]
       /\ \A c \in Range(sigs[d]) : <<c, d, letter[d]>> \in vouched
  /\ stage[d] = "final" =>
       /\ Range(sigs[d]) = Commissioners
       /\ \E c \in Commissioners : \A r \in asked[d] : r[1] # c
  /\ stage[d] = "finish" =>
       known[d] = Commissioners /\ \E c \in Commissioners : Silent(d, c)

\* An application on its way carries signatures only of a letter everybody
\* signed, and one of the running process means that it has got that far.
OnItsWay ==
  /\ \A m \in apps : m[2].signers # {} =>
       \A c \in Commissioners : <<c, m[2].who, m[2].letter>> \in vouched
  /\ \A m \in apps : /\ m[3] <= Life(m[2].who)
                     /\ m[3] = Life(m[2].who) => stage[m[2].who] \in {"final", "finish"}
  /\ \A d \in acks : stage[d] \in {"final", "finish"}

Complete(b) ==
  /\ {a.who : a \in b.applicants} = Commissioners
  /\ {a.who : a \in b.candidates} = Candidates
  /\ b.voters = Commissioners

AgentsBlock ==
  /\ cache # NoBlock => Complete(cache)
  /\ genState = "publish" => cache # NoBlock

LetterInv == (\A d \in Candidates : Progress(d)) /\ OnItsWay /\ LetterSignedByAll

GenesisInv == TypeOK /\ Shapes /\ LetterInv /\ AgentsBlock /\ GenesisUnanimous

------------------------------------------------------------------------------
(***************************************************************************)
(* Facts about lists without repetition, sets and the lives of a node.     *)
(***************************************************************************)
\* A new signer at the end of a list without repetitions.
LEMMA AppendNew ==
  ASSUME NEW s \in Seq(Commissioners), NEW c \in Commissioners,
         IsInjective(s), c \notin Range(s)
  PROVE  /\ Append(s, c) \in Seq(Commissioners)
         /\ IsInjective(Append(s, c))
         /\ Range(Append(s, c)) = Range(s) \cup {c}
  <1> DEFINE t == Append(s, c)
  <1>1. /\ t \in Seq(Commissioners) /\ DOMAIN s = 1 .. Len(s) /\ DOMAIN t = 1 .. Len(s) + 1
        /\ \A i \in 1 .. Len(s) : t[i] = s[i]
        /\ t[Len(s) + 1] = c /\ Len(s) \in Nat
    OBVIOUS
  <1>2. IsInjective(t)
    <2> SUFFICES ASSUME NEW a \in DOMAIN t, NEW b \in DOMAIN t, t[a] = t[b]
                 PROVE  a = b
      BY DEF IsInjective
    <2>1. CASE a \in 1 .. Len(s) /\ b \in 1 .. Len(s)
      BY <1>1, <2>1 DEF IsInjective
    <2>2. \A i \in 1 .. Len(s) : t[i] # c
      BY <1>1 DEF Range
    <2> QED BY <1>1, <2>1, <2>2
  <1>3. Range(t) = Range(s) \cup {c}
    BY <1>1 DEF Range
  <1> QED BY <1>1, <1>2, <1>3

\* As many signers as commissioners, none twice: all of them.
LEMMA FullList ==
  ASSUME NEW s \in Seq(Commissioners), IsInjective(s), Len(s) = Cardinality(Commissioners)
  PROVE  Range(s) = Commissioners
  <1>1. s \in [1 .. Len(s) -> Commissioners] /\ Len(s) \in Nat /\ DOMAIN s = 1 .. Len(s)
    OBVIOUS
  <1>2. s \in Injection(1 .. Len(s), Commissioners)
    BY <1>1 DEF Injection
  <1>3. Cardinality(1 .. Len(s)) = Len(s)
    BY <1>1, FS_Interval
  <1>4. s \in Surjection(1 .. Len(s), Commissioners)
    BY <1>2, <1>3, FS_Injection, GenesisAssumption
  <1> QED BY <1>1, <1>4 DEF Surjection, Range

\* Entries with different owners, at least as many as owners: each has one.
LEMMA EveryOwner ==
  ASSUME NEW P, NEW T, IsFiniteSet(T), \A e \in P : e.who \in T,
         \A e, f \in P : e.who = f.who => e = f, Cardinality(P) >= Cardinality(T)
  PROVE  {e.who : e \in P} = T
  <1> DEFINE owner == [e \in P |-> e.who]
  <1>1. owner \in Injection(P, T)
    BY DEF Injection, IsInjective
  <1>2. IsFiniteSet(P) /\ Cardinality(P) <= Cardinality(T)
        /\ (Cardinality(P) = Cardinality(T) <=> owner \in Surjection(P, T))
    BY <1>1, FS_Injection
  <1>3. Cardinality(P) \in Nat /\ Cardinality(T) \in Nat
    BY <1>2, FS_CardinalityType
  <1>4. owner \in Surjection(P, T)
    BY <1>2, <1>3
  <1>5. \A t \in T : \E e \in P : owner[e] = t
    BY <1>4 DEF Surjection
  <1>6. \A e \in P : owner[e] = e.who
    OBVIOUS
  <1>7. T \subseteq {e.who : e \in P}
    BY <1>5, <1>6
  <1> QED BY <1>7

\* A part of the committee as large as the committee.
LEMMA FullSet ==
  ASSUME NEW S \in SUBSET Commissioners, Cardinality(S) >= Cardinality(Commissioners)
  PROVE  S = Commissioners
  <1>1. Cardinality(S) <= Cardinality(Commissioners) /\ IsFiniteSet(S)
        /\ (Cardinality(Commissioners) = Cardinality(S) => Commissioners = S)
    BY GenesisAssumption, FS_Subset
  <1>2. Cardinality(S) \in Nat /\ Cardinality(Commissioners) \in Nat
    BY <1>1, GenesisAssumption, FS_CardinalityType
  <1> QED BY <1>1, <1>2

\* A node has had some number of processes.
LEMMA LifeNat ==
  ASSUME restarts \in Seq(Nodes)
  PROVE  \A k : Life(k) \in Nat
  <1>1. IsFiniteSet(DOMAIN restarts)
    BY FS_Interval
  <1>2. \A k : IsFiniteSet({i \in DOMAIN restarts : restarts[i] = k})
    BY <1>1, FS_Subset
  <1> QED BY <1>2, FS_CardinalityType DEF Life

\* A restart begins a new life of its node, and of no other.
LEMMA LifeAfterRestart ==
  ASSUME restarts \in Seq(Nodes), NEW n \in Nodes, restarts' = Append(restarts, n)
  PROVE  /\ \A k : Life(k) \in Nat
         /\ Life(n)' = Life(n) + 1
         /\ \A k : k # n => Life(k)' = Life(k)
  <1> DEFINE past(k) == {i \in DOMAIN restarts : restarts[i] = k}
             next(k) == {i \in DOMAIN restarts' : restarts'[i] = k}
             now == Len(restarts) + 1
  <1>1. /\ DOMAIN restarts = 1 .. Len(restarts) /\ Len(restarts) \in Nat
        /\ DOMAIN restarts' = 1 .. now /\ restarts'[now] = n
        /\ \A i \in 1 .. Len(restarts) : restarts'[i] = restarts[i]
    OBVIOUS
  <1>2. \A k : IsFiniteSet(past(k))
    <2>1. IsFiniteSet(1 .. Len(restarts))
      BY <1>1, FS_Interval
    <2> QED BY <1>1, <2>1, FS_Subset
  <1>3. \A k : Cardinality(past(k)) \in Nat
    BY <1>2, FS_CardinalityType
  <1>4. next(n) = past(n) \cup {now} /\ now \notin past(n)
    BY <1>1
  <1>5. Cardinality(next(n)) = Cardinality(past(n)) + 1
    <2>1. ASSUME NEW S, NEW x, IsFiniteSet(S), x \notin S
          PROVE  Cardinality(S \cup {x}) = Cardinality(S) + 1
      BY <2>1, FS_AddElement
    <2> HIDE DEF past, next, now
    <2> QED BY <1>2, <1>4, <2>1
  <1>6. \A k : k # n => next(k) = past(k)
    BY <1>1
  <1> QED BY <1>3, <1>5, <1>6 DEF Life

------------------------------------------------------------------------------
(***************************************************************************)
(* Every step keeps the types.                                             *)
(***************************************************************************)
\* The types hold at the start.
LEMMA TypeInit == Init => TypeOK /\ Shapes
  BY GenesisAssumption DEF Init, TypeOK, Shapes, Nodes, IsInjective, Range, NoBlock

\* One step per action; the letter asked about and the list of signers need more
\* than their types, which is why LetterInv and Shapes are assumed.
LEMMA TypeStep ==
  ASSUME TypeOK, Shapes, LetterInv, [Next]_vars
  PROVE  TypeOK' /\ Shapes'
  <1> USE DEF Nodes
  <1>1. ASSUME NEW n \in Nodes, EndSync(n)
       PROVE  TypeOK' /\ Shapes'
    BY <1>1 DEF EndSync, TypeOK, Shapes, applyVars, candidateVars, agentVars
  <1>2. ASSUME NEW n \in Nodes, FetchGenesis(n)
       PROVE  TypeOK' /\ Shapes'
    BY <1>2 DEF FetchGenesis, TypeOK, Shapes, applyVars, candidateVars, agentVars
  <1>3. ASSUME NEW n \in Nodes, NEW c \in Commissioners, LearnKey(n, c)
       PROVE  TypeOK' /\ Shapes'
    BY <1>3 DEF LearnKey, TypeOK, Shapes, applyVars, candidateVars, agentVars
  <1>4. ASSUME NEW n \in Nodes, OnPublishBlock(n)
       PROVE  TypeOK' /\ Shapes'
    BY <1>4 DEF OnPublishBlock, TypeOK, Shapes, applyVars, candidateVars, agentVars
  <1>5. ASSUME NEW n \in Nodes, Restart(n)
       PROVE  TypeOK' /\ Shapes'
    <2> USE DEF Restart
    <2>1. <<>> \in Seq(Commissioners) /\ IsInjective(<<>>) /\ Range(<<>>) = {}
      BY DEF IsInjective, Range
    <2>2. /\ sigs' = [sigs EXCEPT ![n] = <<>>] /\ sigs' \in [Nodes -> Seq(Commissioners)]
          /\ asked' = [asked EXCEPT ![n] = {}] /\ pool' = [pool EXCEPT ![n] = {}]
          /\ apps' = apps /\ restarts' = Append(restarts, n)
          /\ commPool' \subseteq commPool
      BY <1>5, <2>1 DEF Shapes
    <2>3. \A k \in Nodes : /\ IsInjective(sigs'[k]) /\ Range(sigs'[k]) \subseteq Commissioners
                           /\ asked'[k] \subseteq Commissioners \X Commissioners
                           /\ \A e, f \in pool'[k] : e.who = f.who => e = f
      BY <2>1, <2>2 DEF TypeOK, Shapes
    <2>4. Shapes'
      BY <2>2 DEF Shapes
    <2>5. TypeOK'
      BY <1>5, <2>3 DEF TypeOK
    <2> QED BY <2>4, <2>5
  <1>6. ASSUME NEW c \in Commissioners, NEW by \in Commissioners, SignApplication(c, by)
       PROVE  TypeOK' /\ Shapes'
    BY <1>6 DEF SignApplication, TypeOK, Shapes, applyVars, candidateVars, agentVars
  <1>7. ASSUME NEW c \in Commissioners, NEW answered \in BOOLEAN, TakeApplication(c, answered)
       PROVE  TypeOK' /\ Shapes'
    <2> DEFINE a == [who |-> c, signers |-> appliedBy[c]]
    <2> USE DEF TakeApplication, applyVars, candidateVars, agentVars
    <2>1. a \in CommApplication
      BY DEF CommApplication, TypeOK
    <2>2. commPool' = commPool \/ (commPool' = commPool \cup {a} /\ \A e \in commPool : e.who # c)
      BY <1>7
    <2>3. commPool' \subseteq CommApplication /\ \A e, f \in commPool' : e.who = f.who => e = f
      <3>1. a.who = c
        OBVIOUS
      <3> HIDE DEF a
      <3> QED BY <2>1, <2>2, <3>1 DEF Shapes
    <2>4. Shapes'
      BY <1>7, <2>3 DEF Shapes
    <2>5. TypeOK'
      BY <1>7 DEF TypeOK
    <2> QED BY <2>4, <2>5
  <1>8. ASSUME NEW c \in Commissioners, NEW answered \in BOOLEAN, Vote(c, answered)
       PROVE  TypeOK' /\ Shapes'
    BY <1>8 DEF Vote, TypeOK, Shapes, applyVars, candidateVars, agentVars
  <1>9. ASSUME NEW c \in Commissioners, NEW m \in apps, m[1] = c, OnApplication(c, m[2], m[3])
       PROVE  TypeOK' /\ Shapes'
    <2> DEFINE a == m[2]
    <2> USE DEF OnApplication, applyVars, candidateVars, agentVars
    <2>1. a \in Application /\ apps' \subseteq apps /\ c \in Nodes
      BY <1>9 DEF Shapes
    <2>2. /\ acks' \subseteq acks \cup {a.who}
          /\ \/ pool' = pool
             \/ /\ pool' = [pool EXCEPT ![c] = @ \cup {a}]
                /\ \A e \in pool[c] : e.who # a.who
      BY <1>9, <2>1 DEF Shapes
    <2> HIDE DEF a, OnApplication
    <2>3. /\ pool' \in [Nodes -> SUBSET Application]
          /\ \A k \in Nodes :
               \/ pool'[k] = pool[k]
               \/ pool'[k] = pool[k] \cup {a} /\ \A e \in pool[k] : e.who # a.who
      <3>1. CASE pool' = pool
        BY <3>1 DEF Shapes
      <3>2. CASE pool' = [pool EXCEPT ![c] = @ \cup {a}] /\ \A e \in pool[c] : e.who # a.who
        BY <2>1, <3>2 DEF Shapes
      <3> QED BY <2>2, <3>1, <3>2
    <2>4. ASSUME NEW k \in Nodes, NEW e \in pool'[k], NEW f \in pool'[k], e.who = f.who
          PROVE  e = f
      BY <2>3, <2>4 DEF TypeOK
    <2>5. Shapes'
      BY <1>9, <2>1, <2>3 DEF Shapes, OnApplication
    <2>6. acks' \subseteq Candidates
      BY <2>1, <2>2 DEF TypeOK, Application
    <2>7. TypeOK'
      BY <1>9, <2>4, <2>6 DEF TypeOK, OnApplication
    <2> QED BY <2>5, <2>7
  <1>10. ASSUME NEW d \in Candidates, NEW c \in Commissioners, GetLetter(d, c)
       PROVE  TypeOK' /\ Shapes'
    BY <1>10 DEF GetLetter, TypeOK, Shapes, applyVars, candidateVars, agentVars
  <1>11. ASSUME NEW d \in Candidates, AskSignatures(d)
       PROVE  TypeOK' /\ Shapes'
    <2> USE DEF AskSignatures, applyVars, candidateVars, agentVars
    <2>1. letter[d] \in Commissioners
      BY <1>11 DEF LetterInv, Progress
    <2>2. known[d] \X {letter[d]} \subseteq Commissioners \X Commissioners
      BY <2>1 DEF TypeOK
    <2>3. asked' \in [Nodes -> SUBSET (Commissioners \X Commissioners)]
      BY <1>11, <2>2 DEF Shapes
    <2>4. Shapes'
      BY <1>11, <2>3 DEF Shapes
    <2>5. TypeOK'
      BY <1>11, <2>3 DEF TypeOK
    <2> QED BY <2>4, <2>5
  <1>12. ASSUME NEW d \in Candidates, NEW r \in asked[d], OnCandidateSignature(d, r[1], r[2])
       PROVE  TypeOK' /\ Shapes'
    <2> DEFINE c == r[1]
    <2> USE DEF OnCandidateSignature, applyVars, candidateVars, agentVars
    <2>1. c \in Commissioners /\ d \in Nodes
      BY DEF Shapes
    <2>2. IF c \in Range(sigs[d]) THEN sigs' = sigs
                                 ELSE sigs' = [sigs EXCEPT ![d] = Append(sigs[d], c)]
      BY <1>12 DEF Shapes
    <2>3. /\ sigs' \in [Nodes -> Seq(Commissioners)]
          /\ \A k \in Nodes : IsInjective(sigs'[k]) /\ Range(sigs'[k]) \subseteq Commissioners
      <3>1. CASE c \in Range(sigs[d])
        BY <2>2, <3>1 DEF TypeOK, Shapes
      <3>2. CASE c \notin Range(sigs[d])
        <4> DEFINE s == Append(sigs[d], c)
        <4>1. s \in Seq(Commissioners) /\ IsInjective(s) /\ Range(s) = Range(sigs[d]) \cup {c}
          BY <2>1, <3>2, AppendNew DEF TypeOK, Shapes
        <4>2. sigs' = [sigs EXCEPT ![d] = s]
          BY <2>2, <3>2
        <4> HIDE DEF s, c
        <4> QED BY <2>1, <4>1, <4>2 DEF TypeOK, Shapes
      <3> QED BY <3>1, <3>2
    <2>4. asked' \in [Nodes -> SUBSET (Commissioners \X Commissioners)]
      BY <1>12 DEF Shapes
    <2>5. stage' \in [Nodes -> {"letter", "signatures", "final", "finish"}]
      BY <1>12 DEF TypeOK
    <2>6. Shapes'
      BY <1>12, <2>3, <2>4 DEF Shapes
    <2>7. TypeOK'
      BY <1>12, <2>3, <2>4, <2>5 DEF TypeOK
    <2> QED BY <2>6, <2>7
  <1>13. ASSUME NEW d \in Candidates, SendApplications(d)
       PROVE  TypeOK' /\ Shapes'
    <2> DEFINE a == [who |-> d, letter |-> letter[d], signers |-> FirstHalf(sigs[d])]
    <2> USE DEF SendApplications, applyVars, candidateVars, agentVars
    <2>1. FirstHalf(sigs[d]) \subseteq Commissioners
      <3>1. sigs[d] \in Seq(Commissioners) /\ Len(sigs[d]) \in Nat
        BY DEF Shapes
      <3>2. ASSUME NEW k \in Nat PROVE k \div 2 \in Nat /\ k \div 2 <= k
        OBVIOUS
      <3>3. Len(sigs[d]) \div 2 \in Nat /\ Len(sigs[d]) \div 2 <= Len(sigs[d])
        BY <3>1, <3>2
      <3>4. ASSUME NEW i \in 1 .. Len(sigs[d]) \div 2 PROVE sigs[d][i] \in Commissioners
        <4>1. i \in 1 .. Len(sigs[d])
          <5> DEFINE half == Len(sigs[d]) \div 2
          <5>1. half \in Nat /\ half <= Len(sigs[d]) /\ i \in 1 .. half
            BY <3>3
          <5> HIDE DEF half
          <5> QED BY <3>1, <5>1
        <4> QED BY <3>1, <4>1
      <3> QED BY <3>4 DEF FirstHalf
    <2>2. a \in Application
      BY <2>1 DEF Application, TypeOK
    <2>3. Life(d) \in Nat
      BY LifeNat DEF Shapes
    <2>4. \A m \in apps' : m[2] \in Application /\ m[3] \in Nat
      <3> HIDE DEF a
      <3>1. apps' = apps \cup {<<c, a, Life(d)>> : c \in known[d]}
        BY <1>13 DEF a
      <3> QED BY <2>2, <2>3, <3>1 DEF Shapes
    <2>5. Shapes'
      BY <1>13, <2>4 DEF Shapes
    <2>6. TypeOK'
      BY <1>13 DEF TypeOK
    <2> QED BY <2>5, <2>6
  <1>14. ASSUME NEW d \in Candidates, OnApplicationAnswer(d)
       PROVE  TypeOK' /\ Shapes'
    <2> USE DEF OnApplicationAnswer, applyVars, candidateVars, agentVars
    <2>1. <<>> \in Seq(Commissioners) /\ IsInjective(<<>>) /\ Range(<<>>) = {}
      BY DEF IsInjective, Range
    <2>2. /\ sigs' \in [Nodes -> Seq(Commissioners)]
          /\ \A k \in Nodes : IsInjective(sigs'[k]) /\ Range(sigs'[k]) \subseteq Commissioners
      BY <1>14, <2>1 DEF TypeOK, Shapes
    <2>3. Shapes'
      BY <1>14, <2>2 DEF Shapes
    <2>4. TypeOK'
      BY <1>14, <2>2 DEF TypeOK
    <2> QED BY <2>3, <2>4
  <1>15. ASSUME  GenerateFirstBlock
       PROVE  TypeOK' /\ Shapes'
    BY <1>15 DEF GenerateFirstBlock, TypeOK, Shapes, applyVars, candidateVars, agentVars
  <1>16. ASSUME  PublishFirstBlock
       PROVE  TypeOK' /\ Shapes'
    BY <1>16 DEF PublishFirstBlock, TypeOK, Shapes, applyVars, candidateVars, agentVars
  <1>17. ASSUME  FinishPass
       PROVE  TypeOK' /\ Shapes'
    BY <1>17 DEF FinishPass, TypeOK, Shapes, applyVars, candidateVars, agentVars
  <1>18. ASSUME NEW c \in Commissioners, SignBlock(c)
       PROVE  TypeOK' /\ Shapes'
    BY <1>18 DEF SignBlock, TypeOK, Shapes, applyVars, candidateVars, agentVars
  <1>19. CASE UNCHANGED vars
    BY <1>19 DEF vars, TypeOK, Shapes, applyVars, candidateVars, agentVars
  <1> QED BY <1>1, <1>2, <1>3, <1>4, <1>5, <1>6, <1>7, <1>8, <1>9, <1>10,
            <1>11, <1>12, <1>13, <1>14, <1>15, <1>16, <1>17, <1>18, <1>19
         DEF Next, Node, Commissioner, Candidate, Agent

------------------------------------------------------------------------------
(***************************************************************************)
(* Applications of candidates: every step keeps LetterInv.  Progress of a  *)
(* candidate depends on its own variables and on what was vouched for.     *)
(***************************************************************************)
\* A step that leaves a candidate alone, or only adds keys and signatures
\* given elsewhere, keeps its progress.
LEMMA ProgressKept ==
  ASSUME NEW d, Progress(d), TypeOK, d \in Nodes,
         stage'[d] = stage[d], letter'[d] = letter[d], sigs'[d] = sigs[d], asked'[d] = asked[d],
         known[d] \subseteq known'[d], known'[d] \subseteq Commissioners,
         vouched \subseteq vouched'
  PROVE  Progress(d)'
  BY DEF Progress, Silent, TypeOK

\* The same for what is on its way and in the pools.
LEMMA OnItsWayKept ==
  ASSUME OnItsWay, LetterSignedByAll, UNCHANGED <<apps, acks, stage, pool, restarts>>,
         vouched \subseteq vouched'
  PROVE  OnItsWay' /\ LetterSignedByAll'
  <1>1. \A k : Life(k)' = Life(k)
    BY DEF Life
  <1>2. OnItsWay'
    BY <1>1 DEF OnItsWay
  <1>3. LetterSignedByAll'
    BY DEF LetterSignedByAll
  <1> QED BY <1>2, <1>3

\* A step that changes none of the variables of the candidates.
LEMMA LetterKept ==
  ASSUME LetterInv, TypeOK, TypeOK',
         UNCHANGED <<stage, letter, sigs, asked, apps, acks, pool, restarts>>,
         \A d \in Candidates : known[d] \subseteq known'[d],
         vouched \subseteq vouched'
  PROVE  LetterInv'
  <1>1. OnItsWay' /\ LetterSignedByAll'
    BY OnItsWayKept DEF LetterInv
  <1>2. ASSUME NEW d \in Candidates
       PROVE  Progress(d)'
    <2>1. d \in Nodes /\ known'[d] \subseteq Commissioners
      BY DEF TypeOK, Nodes
    <2> QED BY <2>1, ProgressKept DEF LetterInv
  <1> QED BY <1>1, <1>2 DEF LetterInv

\* A letter is got when nothing was gathered yet.
LEMMA LetterGetLetter ==
  ASSUME LetterInv, TypeOK, Shapes, TypeOK',
         NEW d \in Candidates, NEW writer \in Commissioners, GetLetter(d, writer)
  PROVE  LetterInv'
  <1> USE DEF GetLetter
  <1>1. ASSUME NEW e \in Candidates PROVE Progress(e)'
    <2>0. e \in Nodes /\ d \in Nodes
      BY DEF Nodes
    <2>1. CASE e # d
      BY <1>1, <2>0, <2>1, ProgressKept DEF LetterInv, TypeOK
    <2>2. CASE e = d
      <3>1. known'[d] = Commissioners /\ letter'[d] = writer /\ stage'[d] = "signatures"
        BY <2>0 DEF HaveAll, TypeOK
      <3>2. asked[d] = {} /\ asked' = asked /\ sigs'[d] = <<>>
        BY DEF LetterInv, Progress
      <3>3. \A c \in Range(sigs'[d]) : <<c, d, letter'[d]>> \in vouched'
        BY <3>2 DEF Range
      <3> QED BY <2>2, <3>1, <3>2, <3>3 DEF Progress
    <2> QED BY <2>1, <2>2
  <1>2. \A k : Life(k)' = Life(k)
    BY DEF Life
  <1>3. \A e : e # d => stage'[e] = stage[e]
    BY DEF TypeOK
  <1>4. OnItsWay'
    BY <1>2, <1>3 DEF LetterInv, OnItsWay
  <1>5. LetterSignedByAll'
    BY DEF LetterInv, LetterSignedByAll
  <1> QED BY <1>1, <1>4, <1>5 DEF LetterInv

\* A pass asks about the letter the candidate has.
LEMMA LetterAskSignatures ==
  ASSUME LetterInv, TypeOK, Shapes, TypeOK', NEW d \in Candidates, AskSignatures(d)
  PROVE  LetterInv'
  <1> USE DEF AskSignatures
  <1>1. ASSUME NEW e \in Candidates PROVE Progress(e)'
    <2>0. e \in Nodes /\ d \in Nodes
      BY DEF Nodes
    <2>1. CASE e # d
      BY <1>1, <2>0, <2>1, ProgressKept DEF LetterInv, TypeOK, Shapes
    <2>2. CASE e = d
      BY <2>0, <2>2 DEF LetterInv, Progress, Silent, TypeOK, Shapes
    <2> QED BY <2>1, <2>2
  <1>2. OnItsWay' /\ LetterSignedByAll'
    BY OnItsWayKept DEF LetterInv
  <1> QED BY <1>1, <1>2 DEF LetterInv

\* A signature: the last one takes the candidate to its application, a late one
\* leaves it where it is.
LEMMA LetterSignature ==
  ASSUME LetterInv, TypeOK, Shapes, TypeOK', Shapes', NEW d \in Candidates,
         NEW c \in Commissioners, NEW w \in Commissioners, OnCandidateSignature(d, c, w)
  PROVE  LetterInv' /\ (stage[d] \in {"final", "finish"} => stage' = stage)
  <1>0. d \in Nodes /\ <<c, w>> \in asked[d] /\ <<c, w>>[1] = c /\ <<c, w>>[2] = w
    BY DEF Nodes, OnCandidateSignature
  <1>1. /\ asked'[d] = asked[d] \ {<<c, w>>} /\ vouched' = vouched \cup {<<c, d, w>>}
        /\ sigs'[d] = IF c \in Range(sigs[d]) THEN sigs[d] ELSE Append(sigs[d], c)
        /\ letter' = letter /\ known' = known
        /\ stage'[d] = IF state[d] = "first" /\ sigs'[d] # sigs[d] /\ Enough(d, Len(sigs'[d]))
                       THEN "final" ELSE stage[d]
    BY <1>0 DEF Shapes, TypeOK, OnCandidateSignature
  <1>2. Range(sigs'[d]) = Range(sigs[d]) \cup {c}
    BY <1>0, <1>1, AppendNew DEF Shapes, TypeOK
  <1>3. stage[d] \in {"signatures", "final", "finish"}
    BY <1>0 DEF LetterInv, Progress, TypeOK
  <1>4. known[d] = Commissioners
    BY <1>3 DEF LetterInv, Progress
  <1>5. Enough(d, Len(sigs'[d])) => Range(sigs'[d]) = Commissioners
    <2> SUFFICES ASSUME Enough(d, Len(sigs'[d])) PROVE Range(sigs'[d]) = Commissioners
      OBVIOUS
    <2>1. Len(sigs'[d]) = Cardinality(Commissioners)
      BY <1>4 DEF Enough, Amount
    <2> QED BY <1>0, <2>1, FullList DEF TypeOK, Shapes
  <1>6. ASSUME stage[d] = "signatures"
        PROVE  Progress(d)' /\ (stage[d] \in {"final", "finish"} => stage'[d] = stage[d])
    <2>1. stage'[d] \in {"signatures", "final"}
      BY <1>1, <1>6
    <2>2. w = letter[d] /\ \A r \in asked'[d] : r[2] = letter[d]
      BY <1>0, <1>1, <1>6 DEF LetterInv, Progress
    <2>3. \A e \in Range(sigs'[d]) : <<e, d, letter'[d]>> \in vouched'
      BY <1>1, <1>2, <1>6, <2>2 DEF LetterInv, Progress
    <2>4. \A r \in asked'[d] : r[1] # c
      <3>1. \A r \in asked'[d] : r = <<r[1], letter[d]>>
        BY <1>0, <2>2 DEF Shapes
      <3> QED BY <1>1, <2>2, <3>1
    <2>5. stage'[d] = "final" => Range(sigs'[d]) = Commissioners
      BY <1>1, <1>5, <1>6
    <2>6. letter'[d] \in Commissioners
      BY <1>1, <1>6 DEF LetterInv, Progress
    <2>7. Progress(d)'
      BY <1>1, <1>4, <2>1, <2>2, <2>3, <2>4, <2>5, <2>6 DEF Progress
    <2> QED BY <2>7, <1>6
  <1>7. ASSUME stage[d] = "final"
        PROVE  Progress(d)' /\ (stage[d] \in {"final", "finish"} => stage'[d] = stage[d])
    <2>1. c \in Range(sigs[d])
      BY <1>7 DEF LetterInv, Progress
    <2>2. sigs'[d] = sigs[d] /\ stage'[d] = stage[d]
      BY <1>1, <2>1
    <2>3. Progress(d)'
      BY <1>1, <1>7, <2>2 DEF LetterInv, Progress
    <2> QED BY <2>2, <2>3
  <1>8. ASSUME stage[d] = "finish"
        PROVE  Progress(d)' /\ (stage[d] \in {"final", "finish"} => stage'[d] = stage[d])
    <2>1. PICK x \in Commissioners : Silent(d, x)
      BY <1>8 DEF LetterInv, Progress
    <2>2. x # c
      BY <1>0, <2>1 DEF Silent
    <2>3. x \notin Range(sigs'[d])
      BY <1>2, <2>1, <2>2 DEF Silent
    <2>4. stage'[d] = stage[d]
      BY <1>1, <1>5, <2>3
    <2>5. Silent(d, x)'
      BY <1>1, <2>1, <2>3 DEF Silent
    <2>6. Progress(d)'
      BY <1>1, <1>4, <1>8, <2>4, <2>5 DEF Progress
    <2> QED BY <2>4, <2>6
  <1>9. Progress(d)' /\ (stage[d] \in {"final", "finish"} => stage'[d] = stage[d])
    BY <1>3, <1>6, <1>7, <1>8
  <1>10. ASSUME NEW e \in Candidates, e # d PROVE Progress(e)'
    <2>1. e \in Nodes
      BY DEF Nodes
    <2> QED BY <1>0, <1>10, <2>1, ProgressKept, ZenonT(40)
           DEF LetterInv, TypeOK, Shapes, OnCandidateSignature
  <1>11. \A e \in Nodes : stage[e] \in {"final", "finish"} => stage'[e] = stage[e]
    BY <1>0, <1>9 DEF TypeOK, OnCandidateSignature
  <1>12. \A k : Life(k)' = Life(k)
    BY DEF Life, OnCandidateSignature
  <1>13. \A m \in apps : m[2].who \in Nodes
    BY DEF Shapes, Application, Nodes
  <1>14. OnItsWay'
    BY <1>1, <1>11, <1>12, <1>13 DEF LetterInv, OnItsWay, OnCandidateSignature, TypeOK, Nodes
  <1>15. LetterSignedByAll'
    BY DEF LetterInv, LetterSignedByAll, OnCandidateSignature
  <1>16. stage[d] \in {"final", "finish"} => stage' = stage
    BY <1>0, <1>9 DEF TypeOK, OnCandidateSignature
  <1> QED BY <1>9, <1>10, <1>14, <1>15, <1>16 DEF LetterInv

\* What is sent carries only signatures of the letter, which all have signed.
LEMMA LetterSendApplications ==
  ASSUME LetterInv, TypeOK, Shapes, TypeOK', NEW d \in Candidates, SendApplications(d)
  PROVE  LetterInv'
  <1> DEFINE a == [who |-> d, letter |-> letter[d], signers |-> FirstHalf(sigs[d])]
  <1> USE DEF SendApplications
  <1>1. \A c \in Commissioners : <<c, d, letter[d]>> \in vouched
    BY DEF LetterInv, Progress
  <1>2. \A k : Life(k)' = Life(k) /\ Life(k) \in Nat
    <2>1. restarts \in Seq(Nodes) /\ restarts' = restarts
      BY DEF Shapes
    <2> QED BY <2>1, LifeNat DEF Life
  <1>3. apps' = apps \cup {<<c, a, Life(d)>> : c \in known[d]}
    OBVIOUS
  <1>4. OnItsWay'
    <2>1. ASSUME NEW m \in apps'
          PROVE  /\ m[2].signers # {} =>
                      \A c \in Commissioners : <<c, m[2].who, m[2].letter>> \in vouched'
                 /\ m[3] <= Life(m[2].who)'
                 /\ m[3] = Life(m[2].who)' => stage'[m[2].who] \in {"final", "finish"}
      <3>1. CASE m \in apps
        BY <1>2, <3>1 DEF LetterInv, OnItsWay
      <3>2. CASE m \in {<<c, a, Life(d)>> : c \in known[d]}
        <4>1. m[2] = a /\ m[3] = Life(d)
          BY <3>2
        <4>2. a.who = d /\ a.letter = letter[d]
          OBVIOUS
        <4> QED BY <1>1, <1>2, <4>1, <4>2
      <3> QED BY <1>3, <3>1, <3>2
    <2> QED BY <2>1 DEF LetterInv, OnItsWay
  <1>5. LetterSignedByAll'
    BY DEF LetterInv, LetterSignedByAll
  <1>6. ASSUME NEW e \in Candidates PROVE Progress(e)'
    BY <1>6, ProgressKept DEF LetterInv, TypeOK, Nodes
  <1> QED BY <1>4, <1>5, <1>6 DEF LetterInv

\* A commissioner registers what is on its way.
LEMMA LetterOnApplication ==
  ASSUME LetterInv, TypeOK, Shapes, TypeOK', NEW c \in Commissioners, NEW m \in apps,
         OnApplication(c, m[2], m[3])
  PROVE  LetterInv'
  <1> DEFINE a == m[2]
  <1> USE DEF OnApplication
  <1>1. \A k : Life(k)' = Life(k)
    BY DEF Life
  <1>2. a.who \in Candidates /\ apps' \subseteq apps
    BY DEF Shapes, Application
  <1>3. \A e \in acks' : stage'[e] \in {"final", "finish"}
    BY <1>2 DEF LetterInv, OnItsWay
  <1>4. OnItsWay'
    BY <1>1, <1>2, <1>3 DEF LetterInv, OnItsWay
  <1>5. ASSUME NEW k \in Commissioners, NEW e \in pool'[k]
        PROVE  Commissioners \X {e.who} \X {e.letter} \subseteq vouched'
    <2>0. k \in Nodes /\ c \in Nodes
      BY DEF Nodes
    <2>1. CASE e \in pool[k]
      BY <2>1 DEF LetterInv, LetterSignedByAll
    <2>2. CASE e \notin pool[k]
      <3>1. e = a /\ ValidApplication(c, a)
        <4>1. pool' = pool \/ (pool' = [pool EXCEPT ![c] = @ \cup {a}] /\ ValidApplication(c, a))
          BY <2>0 DEF Shapes
        <4> HIDE DEF a, OnApplication
        <4> QED BY <1>5, <2>0, <2>2, <4>1 DEF Shapes
      <3>2. \A x \in Commissioners : <<x, e.who, e.letter>> \in vouched
        BY <3>1 DEF LetterInv, OnItsWay, ValidApplication
      <3> QED BY <3>2
    <2> QED BY <2>1, <2>2
  <1>6. LetterSignedByAll'
    BY <1>5 DEF LetterSignedByAll
  <1>7. ASSUME NEW e \in Candidates PROVE Progress(e)'
    BY <1>7, ProgressKept DEF LetterInv, TypeOK, Nodes
  <1> QED BY <1>4, <1>6, <1>7 DEF LetterInv

\* The answer clears the signatures; whoever was not asked any more stays silent.
LEMMA LetterAnswer ==
  ASSUME LetterInv, TypeOK, Shapes, TypeOK', NEW d \in Candidates, OnApplicationAnswer(d)
  PROVE  LetterInv'
  <1> USE DEF OnApplicationAnswer
  <1>0. d \in Nodes /\ stage[d] \in {"final", "finish"}
    BY DEF LetterInv, OnItsWay, Nodes
  <1>1. PICK x \in Commissioners : \A r \in asked[d] : r[1] # x
    BY <1>0 DEF LetterInv, Progress, Silent
  <1>2. Progress(d)'
    <2>1. sigs'[d] = <<>> /\ stage'[d] = "finish" /\ asked'[d] = asked[d]
      BY <1>0 DEF TypeOK, Shapes
    <2>2. known'[d] = Commissioners
      BY <1>0 DEF LetterInv, Progress
    <2>3. Silent(d, x)'
      BY <1>1, <2>1 DEF Silent, Range
    <2> QED BY <2>1, <2>2, <2>3 DEF Progress
  <1>3. ASSUME NEW e \in Candidates, e # d PROVE Progress(e)'
    BY <1>0, <1>3, ProgressKept DEF LetterInv, TypeOK, Shapes, Nodes
  <1>4. \A e : stage[e] \in {"final", "finish"} => stage'[e] \in {"final", "finish"}
    BY <1>0 DEF TypeOK
  <1>5. \A k : Life(k)' = Life(k)
    BY DEF Life
  <1>6. OnItsWay'
    BY <1>4, <1>5 DEF LetterInv, OnItsWay
  <1>7. LetterSignedByAll'
    BY DEF LetterInv, LetterSignedByAll
  <1> QED BY <1>2, <1>3, <1>6, <1>7 DEF LetterInv

\* A new process: no answer to the old one counts, for it has another life.
LEMMA LetterRestart ==
  ASSUME LetterInv, TypeOK, Shapes, TypeOK', NEW n \in Nodes, Restart(n)
  PROVE  LetterInv'
  <1> USE DEF Restart
  <1>1. /\ \A k : Life(k) \in Nat
        /\ Life(n)' = Life(n) + 1
        /\ \A k : k # n => Life(k)' = Life(k)
    BY LifeAfterRestart DEF Shapes
  <1>2. \A e : e # n => stage'[e] = stage[e]
    BY DEF TypeOK
  <1>3. ASSUME NEW m \in apps
        PROVE  /\ m[3] <= Life(m[2].who)'
               /\ m[3] = Life(m[2].who)' => stage'[m[2].who] \in {"final", "finish"}
    <2>1. /\ m[3] \in Nat /\ m[3] <= Life(m[2].who)
          /\ m[3] = Life(m[2].who) => stage[m[2].who] \in {"final", "finish"}
      BY DEF Shapes, LetterInv, OnItsWay
    <2>2. CASE m[2].who = n
      BY <1>1, <2>1, <2>2
    <2>3. CASE m[2].who # n
      BY <1>1, <1>2, <2>1, <2>3
    <2> QED BY <2>2, <2>3
  <1>4. OnItsWay'
    BY <1>2, <1>3 DEF LetterInv, OnItsWay
  <1>5. LetterSignedByAll'
    BY DEF LetterInv, LetterSignedByAll, Shapes, TypeOK
  <1>6. ASSUME NEW e \in Candidates PROVE Progress(e)'
    <2>1. CASE e = n
      BY <2>1 DEF Progress, TypeOK, Shapes
    <2>2. CASE e # n
      BY <1>6, <2>2, ProgressKept DEF LetterInv, TypeOK, Shapes, Nodes
    <2> QED BY <2>1, <2>2
  <1> QED BY <1>4, <1>5, <1>6 DEF LetterInv

\* Together, whichever step it is.
LEMMA LetterStep ==
  ASSUME LetterInv, TypeOK, Shapes, TypeOK', Shapes', [Next]_vars
  PROVE  LetterInv'
  <1> USE DEF applyVars, candidateVars, agentVars
  <1> DEFINE Same == UNCHANGED <<stage, letter, sigs, asked, apps, acks, pool, restarts, vouched>>
  <1>1. ASSUME NEW n \in Nodes, Node(n) \/ Restart(n)
        PROVE  LetterInv'
    <2>1. CASE Restart(n)
      BY <2>1, LetterRestart
    <2>2. CASE Node(n)
      <3>1. Same /\ \A d \in Candidates : known[d] \subseteq known'[d]
        BY <2>2 DEF Node, EndSync, FetchGenesis, OnPublishBlock, LearnKey, TypeOK, Nodes
      <3> QED BY <3>1, LetterKept
    <2> QED BY <1>1, <2>1, <2>2
  <1>2. ASSUME NEW c \in Commissioners, Commissioner(c)
        PROVE  LetterInv'
    <2>1. CASE \E m \in apps : m[1] = c /\ OnApplication(c, m[2], m[3])
      BY <2>1, LetterOnApplication
    <2>2. CASE \/ \E by \in Commissioners : SignApplication(c, by)
               \/ \E answered \in BOOLEAN : TakeApplication(c, answered)
               \/ \E answered \in BOOLEAN : Vote(c, answered)
      <3>1. Same /\ known' = known
        BY <2>2 DEF SignApplication, TakeApplication, Vote
      <3> QED BY <3>1, LetterKept
    <2> QED BY <1>2, <2>1, <2>2 DEF Commissioner
  <1>3. ASSUME NEW d \in Candidates, Candidate(d)
        PROVE  LetterInv'
    <2>1. ASSUME NEW r \in asked[d], OnCandidateSignature(d, r[1], r[2])
          PROVE  LetterInv'
      <3>1. r[1] \in Commissioners /\ r[2] \in Commissioners
        BY DEF Shapes, Nodes
      <3> QED BY <2>1, <3>1, LetterSignature
    <2> QED BY <1>3, <2>1, LetterGetLetter, LetterAskSignatures, LetterSendApplications,
               LetterAnswer DEF Candidate
  <1>4. CASE Agent
    <2>1. Same /\ known' = known
      BY <1>4 DEF Agent, GenerateFirstBlock, PublishFirstBlock, FinishPass, SignBlock
    <2> QED BY <2>1, LetterKept
  <1>5. CASE UNCHANGED vars
    BY <1>5, LetterKept DEF vars
  <1> QED BY <1>1, <1>2, <1>3, <1>4, <1>5 DEF Next

------------------------------------------------------------------------------
(***************************************************************************)
(* The agent's block.                                                      *)
(***************************************************************************)
\* The pools are full when every owner has an entry in them.
LEMMA BlockComplete ==
  ASSUME TypeOK, Shapes, GenerateFirstBlock
  PROVE  Complete(cache')
  <1> DEFINE ag == AgentCommissioner
  <1> USE DEF GenerateFirstBlock
  <1>0. ag \in Nodes
    BY GenesisAssumption DEF Nodes
  <1>1. {a.who : a \in commPool} = Commissioners
    BY EveryOwner, GenesisAssumption DEF Shapes, CommApplication
  <1>2. {a.who : a \in pool[ag]} = Candidates
    <2>1. \A e \in pool[ag] : e.who \in Candidates
      BY <1>0 DEF Shapes, Application
    <2>2. \A e, f \in pool[ag] : e.who = f.who => e = f
      BY <1>0 DEF TypeOK
    <2> QED BY <2>1, <2>2, EveryOwner, GenesisAssumption
  <1>3. ballots = Commissioners
    BY FullSet DEF TypeOK
  <1> QED BY <1>1, <1>2, <1>3 DEF Complete

\* The agent builds the block from full pools and publishes it with all signatures.
LEMMA BlockStep ==
  ASSUME TypeOK, Shapes, AgentsBlock, GenesisUnanimous, [Next]_vars
  PROVE  AgentsBlock' /\ GenesisUnanimous'
  <1> USE DEF applyVars, candidateVars, agentVars
  <1>1. CASE UNCHANGED <<cache, genState, published>>
    BY <1>1 DEF AgentsBlock, GenesisUnanimous
  <1>2. CASE GenerateFirstBlock
    BY <1>2, BlockComplete DEF GenerateFirstBlock, AgentsBlock, GenesisUnanimous
  <1>3. CASE PublishFirstBlock
    <2>1. known[AgentCommissioner] = Commissioners
      BY <1>3 DEF PublishFirstBlock, HaveAll
    <2>2. Cardinality(blockSigs) = Cardinality(Commissioners)
      BY <1>3, <2>1 DEF PublishFirstBlock, AllSigned, Amount
    <2>3. Cardinality(Commissioners) \in Nat
      BY GenesisAssumption, FS_CardinalityType
    <2>4. blockSigs = Commissioners
      BY <2>2, <2>3, FullSet DEF TypeOK
    <2>5. Complete(cache)
      BY <1>3 DEF PublishFirstBlock, AgentsBlock
    <2>6. GenesisUnanimous'
      BY <1>3, <2>4, <2>5 DEF PublishFirstBlock, GenesisUnanimous, Complete
    <2>7. AgentsBlock'
      BY <1>3 DEF PublishFirstBlock, AgentsBlock
    <2> QED BY <2>6, <2>7
  <1>4. CASE FinishPass
    BY <1>4 DEF FinishPass, AgentsBlock, GenesisUnanimous
  <1>5. ASSUME NEW c \in Commissioners, SignBlock(c)
        PROVE  AgentsBlock' /\ GenesisUnanimous'
    BY <1>5 DEF SignBlock, AgentsBlock, GenesisUnanimous
  <1>6. ASSUME NEW n \in Nodes, Restart(n)
        PROVE  AgentsBlock' /\ GenesisUnanimous'
    BY <1>6 DEF Restart, AgentsBlock, GenesisUnanimous
  <1>7. ASSUME NEW n \in Nodes, Node(n)
        PROVE  UNCHANGED <<cache, genState, published>>
    BY <1>7 DEF Node, EndSync, FetchGenesis, OnPublishBlock, LearnKey
  <1>8. ASSUME NEW c \in Commissioners, Commissioner(c)
        PROVE  UNCHANGED <<cache, genState, published>>
    BY <1>8 DEF Commissioner, SignApplication, TakeApplication, Vote, OnApplication
  <1>9. ASSUME NEW d \in Candidates, Candidate(d)
        PROVE  UNCHANGED <<cache, genState, published>>
    BY <1>9 DEF Candidate, GetLetter, AskSignatures, OnCandidateSignature, SendApplications,
                OnApplicationAnswer
  <1>10. CASE UNCHANGED vars
    BY <1>1, <1>10 DEF vars
  <1> QED BY <1>1, <1>2, <1>3, <1>4, <1>5, <1>6, <1>7, <1>8, <1>9, <1>10 DEF Next, Agent

------------------------------------------------------------------------------
\* The inductive invariant holds at the start ...
LEMMA InitInv == Init => GenesisInv
  <1> SUFFICES ASSUME Init PROVE GenesisInv
    OBVIOUS
  <1>1. TypeOK /\ Shapes
    BY TypeInit
  <1>2. \A d \in Candidates : Progress(d)
    BY DEF Init, Progress, Nodes
  <1>3. OnItsWay /\ LetterSignedByAll
    BY DEF Init, OnItsWay, LetterSignedByAll, Nodes
  <1>4. AgentsBlock /\ GenesisUnanimous
    BY DEF Init, AgentsBlock, GenesisUnanimous
  <1> QED BY <1>1, <1>2, <1>3, <1>4 DEF GenesisInv, LetterInv

\* ... and every step keeps it.
LEMMA StepInv == GenesisInv /\ [Next]_vars => GenesisInv'
  BY TypeStep, LetterStep, BlockStep DEF GenesisInv

(***************************************************************************)
(* The state stays well-formed: in particular nobody is counted twice      *)
(* among the signers of a letter and no candidate is registered twice.     *)
(***************************************************************************)
THEOREM GenesisTypes == Spec => []TypeOK
  <1>1. GenesisInv => TypeOK
    BY DEF GenesisInv
  <1> QED BY <1>1, InitInv, StepInv, PTL DEF Spec

(***************************************************************************)
(* A published genesis block has the application, the vote and the         *)
(* signature of every commissioner, and every candidate.                   *)
(***************************************************************************)
THEOREM GenesisByAll == Spec => []GenesisUnanimous
  <1>1. GenesisInv => GenesisUnanimous
    BY DEF GenesisInv
  <1> QED BY <1>1, InitInv, StepInv, PTL DEF Spec

(***************************************************************************)
(* A candidate is registered only with a letter that all have signed.      *)
(***************************************************************************)
THEOREM RegisteredByAll == Spec => []LetterSignedByAll
  <1>1. GenesisInv => LetterSignedByAll
    BY DEF GenesisInv, LetterInv
  <1> QED BY <1>1, InitInv, StepInv, PTL DEF Spec

(***************************************************************************)
(* Late signatures and answers do not take a candidate that has finished   *)
(* back; only a new process starts again.                                  *)
(***************************************************************************)
THEOREM FinishedForGood == Spec => FinishedStaysFinished
  <1> DEFINE Stays == \A d \in Candidates :
               stage[d] = "finish" /\ stage'[d] # "finish" => Len(restarts') > Len(restarts)
  <1>1. GenesisInv /\ GenesisInv' /\ [Next]_vars => [Stays]_vars
    <2> SUFFICES ASSUME GenesisInv, GenesisInv', Next PROVE Stays
      BY DEF vars
    <2> USE DEF applyVars, candidateVars, agentVars
    <2>0. TypeOK /\ Shapes /\ LetterInv /\ TypeOK' /\ Shapes'
      BY DEF GenesisInv
    <2>1. ASSUME NEW n \in Nodes, Restart(n)
          PROVE  Stays
      <3>1. restarts \in Seq(Nodes) /\ restarts' = Append(restarts, n)
        BY <2>0, <2>1 DEF Restart, Shapes
      <3> QED BY <3>1
    <2>2. ASSUME NEW d \in Candidates, NEW r \in asked[d], OnCandidateSignature(d, r[1], r[2])
          PROVE  Stays
      <3>1. r[1] \in Commissioners /\ r[2] \in Commissioners /\ d \in Nodes
        BY <2>0 DEF Shapes, Nodes
      <3>2. stage[d] \in {"final", "finish"} => stage' = stage
        BY <2>0, <2>2, <3>1, LetterSignature
      <3>3. \A e : e # d => stage'[e] = stage[e]
        BY <2>2 DEF OnCandidateSignature
      <3> QED BY <3>2, <3>3
    <2>3. ASSUME NEW d \in Candidates,
                 OnApplicationAnswer(d) \/ \E c \in Commissioners : GetLetter(d, c)
          PROVE  Stays
      <3>1. \A e \in Candidates : stage[e] = "finish" => stage'[e] = "finish"
        BY <2>0, <2>3 DEF OnApplicationAnswer, GetLetter, TypeOK, Nodes
      <3> QED BY <3>1
    <2>4. ASSUME NEW d \in Candidates, AskSignatures(d) \/ SendApplications(d)
          PROVE  Stays
      BY <2>4 DEF AskSignatures, SendApplications
    <2>5. ASSUME NEW n \in Nodes, Node(n)
          PROVE  Stays
      BY <2>5 DEF Node, EndSync, FetchGenesis, OnPublishBlock, LearnKey
    <2>6. ASSUME NEW c \in Commissioners, Commissioner(c)
          PROVE  Stays
      BY <2>6 DEF Commissioner, SignApplication, TakeApplication, Vote, OnApplication
    <2>7. CASE Agent
      BY <2>7 DEF Agent, GenerateFirstBlock, PublishFirstBlock, FinishPass, SignBlock
    <2> QED BY <2>1, <2>2, <2>3, <2>4, <2>5, <2>6, <2>7 DEF Next, Candidate
  <1> QED BY <1>1, InitInv, StepInv, PTL DEF Spec, FinishedStaysFinished

------------------------------------------------------------------------------
(***************************************************************************)
(* Why a node that runs from the beginning can check the block: it had all *)
(* keys when it voted or applied, everybody did so before there was a      *)
(* block, and it keeps its keys.  Knows is of nodes, KeysInv of what they  *)
(* sent and keep, BlockInv of the block, as long as the agent has not      *)
(* restarted: an agent that does so after it has published may publish a   *)
(* second block, which finds nodes that have the first.                    *)
(***************************************************************************)
Knows(n) == n \in Restarted \/ known[n] = Commissioners

Checkable == {a \in Application : a.letter \in Commissioners /\ a.signers # {}}

KeysInv ==
  /\ \A n \in Nodes : state[n] = "sync" => n \in Restarted \/ known[n] = {}
  /\ \A n \in Nodes : state[n] = "normal" => n \in genesis
  /\ \A m \in apps : Knows(m[2].who)
  /\ \A n \in Nodes : \A e \in pool[n] : e \in Checkable /\ Knows(e.who)
  /\ \A c \in ballots : Knows(c)

CheckableBlock(b) == b.applicants \subseteq CommApplication /\ b.candidates \subseteq Checkable

BlockInv ==
  /\ genState # "finish" => published = {}
  /\ genState = "finish" /\ cache # NoBlock => blockSigs = Commissioners
  /\ published = {} => inbox = {} /\ genesis = {}
  /\ cache # NoBlock => CheckableBlock(cache)
  /\ \A p \in published : CheckableBlock(p.block)
  /\ cache # NoBlock \/ published # {} => \A n \in Nodes : Knows(n)
  /\ inbox \cap genesis \subseteq Restarted

AcceptInv == KeysInv /\ (AgentCommissioner \notin Restarted => BlockInv)

\* A restart adds its node to those that restarted.
LEMMA RestartedGrows ==
  ASSUME Shapes, NEW n \in Nodes, restarts' = Append(restarts, n)
  PROVE  Restarted' = Restarted \cup {n}
  <1>1. /\ restarts \in Seq(Nodes) /\ Len(restarts) \in Nat
        /\ DOMAIN restarts = 1 .. Len(restarts) /\ DOMAIN restarts' = 1 .. Len(restarts) + 1
        /\ restarts'[Len(restarts) + 1] = n
        /\ \A i \in 1 .. Len(restarts) : restarts'[i] = restarts[i]
    BY DEF Shapes
  <1>2. \A i \in 1 .. Len(restarts) + 1 : i \in 1 .. Len(restarts) \/ i = Len(restarts) + 1
    BY <1>1
  <1>3. \A i \in 1 .. Len(restarts) : i \in 1 .. Len(restarts) + 1
    BY <1>1
  <1>4. Len(restarts) + 1 \in 1 .. Len(restarts) + 1
    BY <1>1
  <1> QED BY <1>1, <1>2, <1>3, <1>4 DEF Restarted, Range

\* Who has all keys keeps them until it restarts.
LEMMA KeysStay ==
  ASSUME TypeOK, Shapes, [Next]_vars
  PROVE  /\ Restarted \subseteq Restarted'
         /\ \A n \in Nodes : Knows(n) => Knows(n)'
  <1> USE DEF applyVars, candidateVars, agentVars
  <1>1. CASE UNCHANGED <<known, restarts>>
    BY <1>1 DEF Knows, Restarted
  <1>2. ASSUME NEW n \in Nodes, NEW c \in Commissioners, LearnKey(n, c)
        PROVE  /\ Restarted \subseteq Restarted'
               /\ \A k \in Nodes : Knows(k) => Knows(k)'
    <2>1. /\ restarts' = restarts /\ known' = [known EXCEPT ![n] = @ \cup {c}]
      BY <1>2 DEF LearnKey
    <2>2. \A k \in Nodes : known[k] = Commissioners => known'[k] = Commissioners
      BY <2>1 DEF TypeOK
    <2> QED BY <2>1, <2>2 DEF Knows, Restarted
  <1>3. ASSUME NEW n \in Nodes, Restart(n)
        PROVE  /\ Restarted \subseteq Restarted'
               /\ \A k \in Nodes : Knows(k) => Knows(k)'
    <2>1. /\ restarts' = Append(restarts, n) /\ known' = [known EXCEPT ![n] = {}]
      BY <1>3 DEF Restart
    <2>2. Restarted' = Restarted \cup {n}
      BY <2>1, RestartedGrows
    <2>3. \A k \in Nodes : k # n => known'[k] = known[k]
      BY <2>1 DEF TypeOK
    <2> QED BY <2>2, <2>3 DEF Knows
  <1>4. ASSUME NEW n \in Nodes, EndSync(n) \/ FetchGenesis(n) \/ OnPublishBlock(n)
        PROVE  UNCHANGED <<known, restarts>>
    BY <1>4 DEF EndSync, FetchGenesis, OnPublishBlock
  <1>5. ASSUME NEW c \in Commissioners, Commissioner(c)
        PROVE  UNCHANGED <<known, restarts>>
    BY <1>5 DEF Commissioner, SignApplication, TakeApplication, Vote, OnApplication
  <1>6. ASSUME NEW d \in Candidates, Candidate(d)
        PROVE  UNCHANGED <<known, restarts>>
    BY <1>6 DEF Candidate, GetLetter, AskSignatures, OnCandidateSignature, SendApplications,
                OnApplicationAnswer
  <1>7. CASE Agent
    BY <1>1, <1>7 DEF Agent, GenerateFirstBlock, PublishFirstBlock, FinishPass, SignBlock
  <1>8. CASE UNCHANGED vars
    BY <1>1, <1>8 DEF vars
  <1> QED BY <1>1, <1>2, <1>3, <1>4, <1>5, <1>6, <1>7, <1>8 DEF Next, Node

\* Requests are sent, votes given and candidates registered by nodes with all keys.
LEMMA KeysStep ==
  ASSUME TypeOK, Shapes, KeysInv, [Next]_vars
  PROVE  KeysInv'
  <1> USE DEF applyVars, candidateVars, agentVars
  <1>0. /\ Restarted \subseteq Restarted' /\ \A n \in Nodes : Knows(n) => Knows(n)'
        /\ Commissioners \subseteq Nodes /\ Candidates \subseteq Nodes
        /\ \A m \in apps : m[2].who \in Nodes
        /\ \A n \in Nodes : \A e \in pool[n] : e.who \in Nodes
        /\ ballots \subseteq Nodes
    BY KeysStay DEF Nodes, Shapes, Application, TypeOK
  <1>1. ASSUME UNCHANGED <<state, known, genesis, apps, pool, ballots>>
        PROVE  KeysInv'
    BY <1>0, <1>1 DEF KeysInv
  <1>2. ASSUME NEW n \in Nodes, EndSync(n) \/ FetchGenesis(n) \/ OnPublishBlock(n)
        PROVE  KeysInv'
    <2>1. /\ UNCHANGED <<known, apps, pool, ballots>>
          /\ \A k \in Nodes : state'[k] = "sync" => state[k] = "sync"
          /\ \A k \in Nodes : state'[k] = "normal" => state[k] = "normal" \/ k \in genesis'
          /\ genesis \subseteq genesis'
      BY <1>2 DEF EndSync, FetchGenesis, OnPublishBlock, TypeOK
    <2> QED BY <1>0, <2>1 DEF KeysInv
  <1>3. ASSUME NEW n \in Nodes, NEW c \in Commissioners, LearnKey(n, c)
        PROVE  KeysInv'
    <2>1. /\ UNCHANGED <<state, genesis, apps, pool, ballots>> /\ state[n] = "first"
          /\ \A k \in Nodes : k # n => known'[k] = known[k]
      BY <1>3 DEF LearnKey, TypeOK
    <2> QED BY <1>0, <2>1 DEF KeysInv
  <1>4. ASSUME NEW n \in Nodes, Restart(n)
        PROVE  KeysInv'
    <2>1. /\ apps' = apps /\ genesis' = genesis /\ ballots' \subseteq ballots
          /\ state' = [state EXCEPT ![n] = "sync"] /\ known' = [known EXCEPT ![n] = {}]
          /\ pool' = [pool EXCEPT ![n] = {}]
      BY <1>4 DEF Restart
    <2>2. /\ known'[n] = {} /\ state'[n] = "sync" /\ pool'[n] = {}
          /\ \A k \in Nodes : k # n => /\ known'[k] = known[k] /\ state'[k] = state[k]
                                       /\ pool'[k] = pool[k]
      BY <2>1 DEF TypeOK, Shapes
    <2> QED BY <1>0, <2>1, <2>2 DEF KeysInv
  <1>5. ASSUME NEW c \in Commissioners, NEW answered \in BOOLEAN, Vote(c, answered)
        PROVE  KeysInv'
    <2>1. /\ UNCHANGED <<state, known, genesis, apps, pool>> /\ known[c] = Commissioners
          /\ ballots' = ballots \cup {c}
      BY <1>5 DEF Vote, HaveAll
    <2>2. Knows(c)
      BY <2>1 DEF Knows
    <2> QED BY <1>0, <2>1, <2>2 DEF KeysInv
  <1>6. ASSUME NEW c \in Commissioners, NEW m \in apps, m[1] = c, OnApplication(c, m[2], m[3])
        PROVE  KeysInv'
    <2> DEFINE a == m[2]
    <2>1. /\ UNCHANGED <<state, known, genesis, ballots>> /\ apps' \subseteq apps
          /\ \/ pool' = pool
             \/ ValidApplication(c, a) /\ pool' = [pool EXCEPT ![c] = @ \cup {a}]
      BY <1>6 DEF OnApplication, Shapes
    <2>2. a \in Application /\ Knows(a.who) /\ a.who \in Nodes /\ c \in Nodes
      BY <1>0 DEF KeysInv, Shapes
    <2>3. ValidApplication(c, a) => a \in Checkable
      BY <2>2 DEF ValidApplication, ValidLetter, Checkable, TypeOK
    <2> HIDE DEF a
    <2>4. \A n \in Nodes : \A e \in pool'[n] : e \in pool[n] \/ (e = a /\ a \in Checkable)
      BY <2>1, <2>2, <2>3, ZenonT(40) DEF Shapes
    <2>5. \A n \in Nodes : \A e \in pool'[n] : e \in Checkable /\ Knows(e.who)'
      BY <1>0, <2>2, <2>4 DEF KeysInv
    <2> QED BY <1>0, <2>1, <2>5 DEF KeysInv
  <1>7. ASSUME NEW d \in Candidates, SendApplications(d)
        PROVE  KeysInv'
    <2> DEFINE a == [who |-> d, letter |-> letter[d], signers |-> FirstHalf(sigs[d])]
    <2>1. /\ UNCHANGED <<state, known, genesis, pool, ballots>> /\ known[d] = Commissioners
          /\ apps' = apps \cup {<<c, a, Life(d)>> : c \in known[d]} /\ a.who = d
      BY <1>7 DEF SendApplications, HaveAll
    <2> HIDE DEF a
    <2>2. Knows(d) /\ d \in Nodes
      BY <1>0, <2>1 DEF Knows
    <2>3. \A m \in apps' : Knows(m[2].who)'
      BY <1>0, <2>1, <2>2 DEF KeysInv
    <2> QED BY <1>0, <2>1, <2>3 DEF KeysInv
  <1>8. ASSUME NEW c \in Commissioners, Commissioner(c)
        PROVE  KeysInv'
    <2>1. ASSUME NEW by \in Commissioners, SignApplication(c, by)
          PROVE  UNCHANGED <<state, known, genesis, apps, pool, ballots>>
      BY <2>1 DEF SignApplication
    <2>2. ASSUME NEW answered \in BOOLEAN, TakeApplication(c, answered)
          PROVE  UNCHANGED <<state, known, genesis, apps, pool, ballots>>
      BY <2>2 DEF TakeApplication
    <2> QED BY <1>1, <1>5, <1>6, <1>8, <2>1, <2>2 DEF Commissioner
  <1>9. ASSUME NEW d \in Candidates, Candidate(d)
        PROVE  KeysInv'
    <2>1. \/ UNCHANGED <<state, known, genesis, apps, pool, ballots>>
          \/ SendApplications(d)
      BY <1>9 DEF Candidate, GetLetter, AskSignatures, OnCandidateSignature, OnApplicationAnswer
    <2> QED BY <1>1, <1>7, <2>1
  <1>10. CASE Agent \/ UNCHANGED vars
    <2>1. UNCHANGED <<state, known, genesis, apps, pool, ballots>>
      BY <1>10 DEF Agent, GenerateFirstBlock, PublishFirstBlock, FinishPass, SignBlock, vars
    <2> QED BY <1>1, <2>1
  <1> QED BY <1>2, <1>3, <1>4, <1>8, <1>9, <1>10 DEF Next, Node

\* A block is made when everybody has all keys, and is published once.
LEMMA BlockStays ==
  ASSUME GenesisInv, KeysInv, BlockInv, AgentCommissioner \notin Restarted', [Next]_vars
  PROVE  BlockInv'
  <1> USE DEF applyVars, candidateVars, agentVars
  <1>0. /\ TypeOK /\ Shapes /\ AgentsBlock
        /\ Restarted \subseteq Restarted' /\ \A n \in Nodes : Knows(n) => Knows(n)'
        /\ AgentCommissioner \in Nodes /\ AgentCommissioner \in Commissioners
    BY KeysStay, GenesisAssumption DEF GenesisInv, Nodes
  <1>1. ASSUME UNCHANGED <<agentVars, inbox, genesis>>
        PROVE  BlockInv'
    BY <1>0, <1>1 DEF BlockInv
  <1>2. CASE GenerateFirstBlock
    <2>1. /\ cache' = [applicants |-> commPool, candidates |-> pool[AgentCommissioner],
                       voters |-> ballots]
          /\ genState = "sign" /\ UNCHANGED <<genState, blockSigs, published, inbox, genesis>>
      BY <1>2 DEF GenerateFirstBlock
    <2>2. CheckableBlock(cache')
      BY <1>0, <2>1 DEF CheckableBlock, Shapes, KeysInv
    <2>3. \A n \in Nodes : Knows(n)
      <3>1. Complete(cache')
        BY <1>0, <1>2, BlockComplete
      <3>2. ballots = Commissioners /\ {a.who : a \in pool[AgentCommissioner]} = Candidates
        BY <2>1, <3>1 DEF Complete
      <3> QED BY <1>0, <3>2 DEF KeysInv, Nodes
    <2> QED BY <1>0, <2>1, <2>2, <2>3 DEF BlockInv
  <1>3. CASE PublishFirstBlock
    <2>1. /\ published' = published \cup {[block |-> cache, signers |-> blockSigs]}
          /\ inbox' = Nodes /\ genState' = "finish" /\ genState = "publish"
          /\ UNCHANGED <<cache, blockSigs, genesis>>
          /\ known[AgentCommissioner] = Commissioners /\ AllSigned(Cardinality(blockSigs))
      BY <1>3 DEF PublishFirstBlock, HaveAll
    <2>2. cache # NoBlock /\ published = {} /\ genesis = {}
      BY <1>0, <2>1 DEF AgentsBlock, BlockInv
    <2>3. blockSigs = Commissioners
      <3>1. Cardinality(blockSigs) = Cardinality(Commissioners)
        BY <2>1 DEF AllSigned, Amount
      <3>2. Cardinality(Commissioners) \in Nat
        BY GenesisAssumption, FS_CardinalityType
      <3> QED BY <1>0, <3>1, <3>2, FullSet DEF TypeOK
    <2>4. \A p \in published' : CheckableBlock(p.block)
      BY <2>1, <2>2 DEF BlockInv
    <2> QED BY <1>0, <2>1, <2>2, <2>3, <2>4 DEF BlockInv
  <1>4. CASE FinishPass
    BY <1>0, <1>4 DEF FinishPass, BlockInv
  <1>5. ASSUME NEW c \in Commissioners, SignBlock(c)
        PROVE  BlockInv'
    <2>1. /\ cache # NoBlock /\ c \notin blockSigs /\ genState' \in {genState, "publish"}
          /\ UNCHANGED <<cache, published, inbox, genesis>>
      BY <1>5 DEF SignBlock
    <2>2. genState # "finish"
      BY <2>1 DEF BlockInv
    <2> QED BY <1>0, <2>1, <2>2 DEF BlockInv
  <1>6. ASSUME NEW n \in Nodes, OnPublishBlock(n)
        PROVE  BlockInv'
    <2>1. /\ n \in inbox /\ inbox' = inbox \ {n} /\ genesis' \subseteq genesis \cup {n}
          /\ UNCHANGED agentVars
      BY <1>6 DEF OnPublishBlock
    <2> QED BY <1>0, <2>1 DEF BlockInv
  <1>7. ASSUME NEW n \in Nodes, FetchGenesis(n)
        PROVE  BlockInv'
    <2>1. /\ state[n] = "sync" /\ genesis # {} /\ genesis' = genesis \cup {n}
          /\ UNCHANGED <<inbox, agentVars>>
      BY <1>7 DEF FetchGenesis
    <2>2. published # {} /\ Knows(n)
      BY <2>1 DEF BlockInv
    <2>3. n \in Restarted
      BY <1>0, <2>1, <2>2 DEF Knows, KeysInv
    <2> QED BY <1>0, <2>1, <2>2, <2>3 DEF BlockInv
  <1>8. ASSUME NEW n \in Nodes, Restart(n)
        PROVE  BlockInv'
    <2>1. Restarted' = Restarted \cup {n}
      BY <1>0, <1>8, RestartedGrows DEF Restart
    <2>2. n # AgentCommissioner
      BY <2>1
    <2>3. UNCHANGED <<agentVars, inbox, genesis>>
      BY <1>8, <2>2 DEF Restart
    <2> QED BY <1>1, <2>3
  <1>9. ASSUME NEW n \in Nodes, EndSync(n) \/ \E c \in Commissioners : LearnKey(n, c)
        PROVE  UNCHANGED <<agentVars, inbox, genesis>>
    BY <1>9 DEF EndSync, LearnKey
  <1>10. ASSUME NEW c \in Commissioners, Commissioner(c)
        PROVE  UNCHANGED <<agentVars, inbox, genesis>>
    BY <1>10 DEF Commissioner, SignApplication, TakeApplication, Vote, OnApplication
  <1>11. ASSUME NEW d \in Candidates, Candidate(d)
        PROVE  UNCHANGED <<agentVars, inbox, genesis>>
    BY <1>11 DEF Candidate, GetLetter, AskSignatures, OnCandidateSignature, SendApplications,
                OnApplicationAnswer
  <1>12. CASE UNCHANGED vars
    BY <1>1, <1>12 DEF vars
  <1> QED BY <1>1, <1>2, <1>3, <1>4, <1>5, <1>6, <1>7, <1>8, <1>9, <1>10, <1>11, <1>12
         DEF Next, Agent, Node

\* AcceptInv holds at the start and is kept.
LEMMA AcceptInit == Init => AcceptInv
  BY DEF Init, AcceptInv, KeysInv, BlockInv, Nodes

LEMMA AcceptStep == GenesisInv /\ AcceptInv /\ [Next]_vars => AcceptInv'
  <1> SUFFICES ASSUME GenesisInv, AcceptInv, [Next]_vars PROVE AcceptInv'
    OBVIOUS
  <1>1. TypeOK /\ Shapes /\ KeysInv
    BY DEF GenesisInv, AcceptInv
  <1>2. KeysInv'
    BY <1>1, KeysStep
  <1>3. ASSUME AgentCommissioner \notin Restarted' PROVE BlockInv'
    <2>1. AgentCommissioner \notin Restarted
      BY <1>1, <1>3, KeysStay
    <2> QED BY <1>1, <1>3, <2>1, BlockStays DEF AcceptInv
  <1> QED BY <1>2, <1>3 DEF AcceptInv

(***************************************************************************)
(* Until the agent restarts, every node that has run from the beginning    *)
(* and waits for the genesis block can check it: the block is sent once    *)
(* and what a node cannot check it drops (run 98, validateBlock).          *)
(***************************************************************************)
THEOREM GenesisIsAccepted ==
  Spec => [](AgentCommissioner \notin Restarted => CommitteeCanAccept)
  <1>1. ASSUME GenesisInv, AcceptInv, AgentCommissioner \notin Restarted
        PROVE  CommitteeCanAccept
    <2> SUFFICES ASSUME NEW p \in published, NEW n \in inbox \ Restarted
                 PROVE  ValidBlock(n, p.block, p.signers)
      BY DEF CommitteeCanAccept
    <2>1. /\ TypeOK /\ GenesisUnanimous /\ KeysInv /\ BlockInv /\ n \in Nodes
          /\ AgentCommissioner \in Commissioners
      BY <1>1, GenesisAssumption DEF GenesisInv, AcceptInv, TypeOK
    <2>2. known[n] = Commissioners
      BY <2>1 DEF BlockInv, Knows
    <2>3. state[n] = "first" /\ n \notin genesis
      BY <2>1, <2>2 DEF BlockInv, KeysInv, TypeOK
    <2>4. CheckableBlock(p.block) /\ p.signers = Commissioners /\ p.block.voters = Commissioners
      BY <2>1 DEF BlockInv, GenesisUnanimous
    <2>5. 2 * Cardinality(Commissioners) > Cardinality(Commissioners)
      <3>1. Cardinality(Commissioners) \in Nat /\ Cardinality(Commissioners) # 0
        BY <2>1, GenesisAssumption, FS_CardinalityType, FS_EmptySet
      <3> QED BY <3>1
    <2>6. ValidRaw(n, p.block)
      BY <2>1, <2>2, <2>3, <2>4
         DEF ValidRaw, ValidApply, ValidApplication, ValidLetter, CheckableBlock, Checkable,
             Application, CommApplication
    <2> QED BY <2>2, <2>4, <2>5, <2>6 DEF ValidBlock, Amount
  <1> QED BY <1>1, InitInv, StepInv, AcceptInit, AcceptStep, PTL DEF Spec
==============================================================================
