---------------------------- MODULE ChainProofs -----------------------------
(***************************************************************************)
(* The chain that the nodes make: what holds for any number of nodes,      *)
(* slots, extrinsics and faults, whatever is restarted, reverted or purged.*)
(***************************************************************************)
EXTENDS Chain, FiniteSetTheorems, SequenceTheorems, TLAPS

-----------------------------------------------------------------------------
(* Chains and their prefixes. *)

Chains == Seq(Block)

LEMMA PrefixIs ==
    ASSUME NEW c \in Chains, NEW k \in 0 .. Len(c)
    PROVE  /\ Prefix(c, k) \in Chains
           /\ Len(Prefix(c, k)) = k
           /\ \A i \in 1 .. k : Prefix(c, k)[i] = c[i]
<1>1. Len(c) \in Nat /\ \A i \in 1 .. Len(c) : c[i] \in Block
  BY DEF Chains
<1>2. \A i \in 1 .. k : c[i] \in Block
  BY <1>1
<1> QED
  BY <1>1, <1>2, SubSeqProperties DEF Chains, Prefix

LEMMA IsPrefixMeans ==
    ASSUME NEW c \in Chains, NEW d \in Chains
    PROVE  IsPrefix(c, d) <=>
               Len(c) <= Len(d) /\ \A i \in 1 .. Len(c) : c[i] = d[i]
<1>1. Len(c) \in Nat /\ Len(d) \in Nat
  BY DEF Chains
<1>2. SubSeq(c, 1, Len(c)) = c
  BY SubSeqFull DEF Chains
<1>3. ASSUME Len(c) <= Len(d)
      PROVE  c = SubSeq(d, 1, Len(c)) <=> \A i \in 1 .. Len(c) : c[i] = d[i]
  <2>1. /\ Prefix(d, Len(c)) \in Chains /\ Len(Prefix(d, Len(c))) = Len(c)
        /\ \A i \in 1 .. Len(c) : Prefix(d, Len(c))[i] = d[i]
    BY <1>1, <1>3, PrefixIs
  <2> QED
    BY <2>1, SeqEqual DEF Chains, Prefix
<1> QED
  BY <1>1, <1>2, <1>3 DEF IsPrefix

LEMMA PrefixIsPrefix ==
    ASSUME NEW c \in Chains, NEW k \in 0 .. Len(c)
    PROVE  IsPrefix(Prefix(c, k), c)
<1>1. Len(c) \in Nat
  BY DEF Chains
<1> QED
  BY <1>1, PrefixIs, IsPrefixMeans

LEMMA PrefixesAre ==
    ASSUME NEW c \in Chains, NEW d \in Chains, IsPrefix(c, d)
    PROVE  Len(c) \in 0 .. Len(d) /\ c = Prefix(d, Len(c))
<1>1. /\ Len(c) \in Nat /\ Len(d) \in Nat /\ Len(c) <= Len(d)
      /\ \A i \in 1 .. Len(c) : c[i] = d[i]
  BY IsPrefixMeans DEF Chains
<1>2. /\ Prefix(d, Len(c)) \in Chains /\ Len(Prefix(d, Len(c))) = Len(c)
      /\ \A i \in 1 .. Len(c) : Prefix(d, Len(c))[i] = d[i]
  BY <1>1, PrefixIs
<1> QED
  BY <1>1, <1>2, SeqEqual DEF Chains

LEMMA PrefixReflexive == ASSUME NEW c \in Chains PROVE IsPrefix(c, c)
<1>1. Len(c) \in Nat
  BY DEF Chains
<1> QED
  BY <1>1, IsPrefixMeans

LEMMA PrefixTransitive ==
    ASSUME NEW c \in Chains, NEW d \in Chains, NEW e \in Chains,
           IsPrefix(c, d), IsPrefix(d, e)
    PROVE  IsPrefix(c, e)
<1>1. Len(c) \in Nat /\ Len(d) \in Nat /\ Len(e) \in Nat
  BY DEF Chains
<1> QED
  BY <1>1, IsPrefixMeans

\* Two prefixes of one chain: the shorter is a prefix of the longer.
LEMMA PrefixesOfOne ==
    ASSUME NEW c \in Chains, NEW d \in Chains, NEW e \in Chains,
           IsPrefix(c, e), IsPrefix(d, e)
    PROVE  /\ Len(c) <= Len(d) => IsPrefix(c, d)
           /\ IsPrefix(c, d) \/ IsPrefix(d, c)
<1>1. Len(c) \in Nat /\ Len(d) \in Nat /\ Len(e) \in Nat
  BY DEF Chains
<1> QED
  BY <1>1, IsPrefixMeans

LEMMA GenesisIsPrefix ==
    /\ << >> \in Chains /\ Len(<< >>) = 0
    /\ \A c \in Chains : IsPrefix(<< >>, c) /\ Prefix(c, 0) = << >>
    /\ \A c \in Chains : Len(c) = 0 => c = << >>
<1>1. << >> \in Chains /\ Len(<< >>) = 0
  BY DEF Chains
<1>2. ASSUME NEW c \in Chains PROVE IsPrefix(<< >>, c) /\ Prefix(c, 0) = << >>
  <2>1. Len(c) \in Nat
    BY DEF Chains
  <2>2. IsPrefix(<< >>, c)
    BY <1>1, <2>1, IsPrefixMeans
  <2> QED
    BY <1>1, <2>2, PrefixesAre
<1>3. ASSUME NEW c \in Chains, Len(c) = 0 PROVE c = << >>
  BY <1>1, <1>3, SeqEqual DEF Chains
<1> QED
  BY <1>1, <1>2, <1>3

\* A block on top of a chain.
LEMMA AppendIs ==
    ASSUME NEW c \in Chains, NEW b \in Block
    PROVE  LET d == Append(c, b)
           IN  /\ d \in Chains /\ d # << >> /\ Len(d) = Len(c) + 1
               /\ Last(d) = b /\ Front(d) = c
               /\ \A i \in 0 .. Len(d) :
                      Prefix(d, i) = IF i = Len(d) THEN d ELSE Prefix(c, i)
               /\ IsPrefix(c, d)
<1> DEFINE d == Append(c, b)
<1>1. /\ d \in Chains /\ d # << >> /\ Len(d) = Len(c) + 1 /\ Len(c) \in Nat
      /\ d[Len(c) + 1] = b /\ \A i \in 1 .. Len(c) : d[i] = c[i]
  BY AppendProperties DEF Chains
<1> HIDE DEF d
<1>2. IsPrefix(c, d)
  BY <1>1, IsPrefixMeans
<1>3. Front(d) = c
  BY <1>1, <1>2, PrefixesAre DEF Front, Prefix
<1>4. ASSUME NEW i \in 0 .. Len(d)
      PROVE  Prefix(d, i) = IF i = Len(d) THEN d ELSE Prefix(c, i)
  <2>1. CASE i = Len(d)
    BY <1>1, <2>1, PrefixReflexive, PrefixesAre
  <2>2. CASE i # Len(d)
    <3>1. i \in 0 .. Len(c)
      BY <1>1, <2>2
    <3>2. IsPrefix(Prefix(c, i), d) /\ Prefix(c, i) \in Chains /\ Len(Prefix(c, i)) = i
      BY <1>1, <1>2, <3>1, PrefixIs, PrefixIsPrefix, PrefixTransitive
    <3> QED
      BY <1>1, <2>2, <3>2, PrefixesAre
  <2> QED
    BY <2>1, <2>2
<1> QED
  BY <1>1, <1>2, <1>3, <1>4 DEF Last, d

\* A chain that is not genesis is its last block on top of the others.
LEMMA NextBlock ==
    ASSUME NEW c \in Chains, NEW i \in 1 .. Len(c)
    PROVE  /\ Prefix(c, i - 1) \in Chains /\ c[i] \in Block
           /\ Prefix(c, i) = Append(Prefix(c, i - 1), c[i])
<1>1. Len(c) \in Nat /\ c[i] \in Block
  BY DEF Chains
<1>2. /\ Prefix(c, i - 1) \in Chains /\ Len(Prefix(c, i - 1)) = i - 1
      /\ \A j \in 1 .. i - 1 : Prefix(c, i - 1)[j] = c[j]
      /\ Prefix(c, i) \in Chains /\ Len(Prefix(c, i)) = i
      /\ \A j \in 1 .. i : Prefix(c, i)[j] = c[j]
  BY <1>1, PrefixIs
<1> DEFINE d == Append(Prefix(c, i - 1), c[i])
<1>3. /\ d \in Chains /\ Len(d) = i /\ d[i] = c[i]
      /\ \A j \in 1 .. i - 1 : d[j] = c[j]
  BY <1>1, <1>2, AppendProperties DEF Chains
<1> HIDE DEF d
<1>4. \A j \in 1 .. i : d[j] = Prefix(c, i)[j]
  BY <1>2, <1>3
<1>5. d = Prefix(c, i)
  BY <1>2, <1>3, <1>4, SeqEqual DEF Chains
<1> QED
  BY <1>1, <1>2, <1>5 DEF d

\* A prefix of a prefix.
LEMMA PrefixOfPrefix ==
    ASSUME NEW c \in Chains, NEW k \in 0 .. Len(c), NEW i \in 0 .. k
    PROVE  Prefix(Prefix(c, k), i) = Prefix(c, i)
<1>1. Len(c) \in Nat
  BY DEF Chains
<1>2. /\ Prefix(c, k) \in Chains /\ Len(Prefix(c, k)) = k
      /\ Prefix(Prefix(c, k), i) \in Chains /\ Len(Prefix(Prefix(c, k), i)) = i
      /\ Prefix(c, i) \in Chains /\ Len(Prefix(c, i)) = i
  BY <1>1, PrefixIs
<1>3. \A j \in 1 .. k : Prefix(c, k)[j] = c[j]
  BY PrefixIs
<1>4. \A j \in 1 .. i : Prefix(Prefix(c, k), i)[j] = Prefix(c, k)[j]
  BY <1>2, PrefixIs
<1>5. \A j \in 1 .. i : Prefix(c, i)[j] = c[j]
  BY <1>1, PrefixIs
<1>6. \A j \in 1 .. i : Prefix(Prefix(c, k), i)[j] = Prefix(c, i)[j]
  BY <1>1, <1>3, <1>4, <1>5
<1> QED
  BY <1>2, <1>6, SeqEqual DEF Chains
-----------------------------------------------------------------------------
(* What a round of votes is about. *)

LEMMA MinOfTwo ==
    ASSUME NEW a \in Int, NEW b \in Int
    PROVE  Min({a, b}) \in {a, b} /\ Min({a, b}) <= a /\ Min({a, b}) <= b
<1>1. \E x \in {a, b} : x <= a /\ x <= b
  <2>1. a <= b \/ b <= a
    OBVIOUS
  <2> QED
    BY <2>1
<1>2. \E x \in {a, b} : \A y \in {a, b} : x <= y
  BY <1>1
<1> QED
  BY <1>2 DEF Min

LEMMA MaxOfTwo ==
    ASSUME NEW a \in Int, NEW b \in Int
    PROVE  Max({a, b}) \in {a, b} /\ Max({a, b}) >= a /\ Max({a, b}) >= b
<1>1. \E x \in {a, b} : x >= a /\ x >= b
  <2>1. a >= b \/ b >= a
    OBVIOUS
  <2> QED
    BY <2>1
<1>2. \E x \in {a, b} : \A y \in {a, b} : x >= y
  BY <1>1
<1> QED
  BY <1>2 DEF Max

\* The bounds of a vote.
LEMMA VoteIs ==
    ASSUME NEW n, NEW base \in Chains, NEW c \in Chains, IsPrefix(base, c)
    PROVE  /\ VoteFor(n, base, c) \in Chains
           /\ IsPrefix(base, VoteFor(n, base, c))
           /\ IsPrefix(VoteFor(n, base, c), c)
<1> DEFINE extra == Len(c) - Len(base)
           part == (3 * extra + 2) \div 4
           ahead == Min({extra - VoteLag, part})
           more == Max({0, ahead})
<1>1. /\ Len(base) \in Nat /\ Len(c) \in Nat /\ Len(base) <= Len(c)
      /\ extra \in Nat /\ VoteLag \in Nat
  BY IsPrefixMeans, ChainAssumption DEF Chains
<1>2. part \in Int
  BY <1>1
<1> DEFINE behind == extra - VoteLag
<1>3. behind \in Int /\ behind <= extra
  BY <1>1
<1> HIDE DEF part, behind
<1>4. ahead \in Int /\ ahead <= extra
  <2>1. ahead \in {behind, part} /\ ahead <= behind
    BY <1>2, <1>3, MinOfTwo, Zenon DEF behind
  <2> QED
    BY <1>1, <1>2, <1>3, <2>1
<1> HIDE DEF ahead
<1>5. more \in 0 .. extra
  <2>1. more \in {0, ahead} /\ more >= 0
    BY <1>4, 0 \in Int, MaxOfTwo, Zenon
  <2> QED
    BY <1>1, <1>4, <2>1
<1> DEFINE k == Len(base) + more
<1> HIDE DEF more
<1>6. VoteFor(n, base, c) = Prefix(c, k)
  BY DEF VoteFor, more, ahead, part
<1>7. k \in 0 .. Len(c) /\ Len(base) <= k
  BY <1>1, <1>5
<1> HIDE DEF k
<1>8. Prefix(c, k) \in Chains /\ Len(Prefix(c, k)) = k /\ IsPrefix(Prefix(c, k), c)
  BY <1>7, PrefixIs, PrefixIsPrefix
<1>9. IsPrefix(base, Prefix(c, k))
  BY <1>7, <1>8, PrefixesOfOne
<1> QED
  BY <1>6, <1>8, <1>9

\* What chains over one base have in common is over that base, too.
LEMMA CommonIs ==
    ASSUME NEW S, S \subseteq Chains, S # {}, NEW base \in Chains,
           \A t \in S : IsPrefix(base, t)
    PROVE  LET common == LongestCommonPrefix(S)
           IN  /\ common \in Chains
               /\ \A t \in S : IsPrefix(common, t)
               /\ IsPrefix(base, common)
<1> DEFINE P == CommonPrefixes(S)
<1>1. PICK t0 \in S : TRUE
  OBVIOUS
<1>2. t0 \in Chains /\ Len(t0) \in Nat
  BY <1>1 DEF Chains
<1>3. ASSUME NEW c \in P
      PROVE  /\ c \in Chains /\ Len(c) \in 0 .. Len(t0)
             /\ \A t \in S : IsPrefix(c, t)
  <2>1. /\ \A t \in S : IsPrefix(c, t)
        /\ \E seq \in S : \E l \in 0 .. Len(seq) : c = Prefix(seq, l)
    BY DEF CommonPrefixes, Prefixes, Prefix
  <2>2. c \in Chains
    BY <2>1, PrefixIs
  <2> QED
    BY <1>1, <1>2, <2>1, <2>2, PrefixesAre
<1>4. base \in P
  <2>1. Len(base) \in 0 .. Len(t0) /\ base = Prefix(t0, Len(base))
    BY <1>1, <1>2, PrefixesAre
  <2>2. base \in Prefixes(t0)
    BY <2>1 DEF Prefixes, Prefix
  <2>3. base \in UNION {Prefixes(seq) : seq \in S}
    BY <2>2
  <2> QED
    BY <2>3 DEF CommonPrefixes
<1> HIDE DEF P
<1>5. \E longest \in P : \A other \in P : Len(other) <= Len(longest)
  <2> DEFINE N == Len(t0)
             Rest(c) == (Len(c) + 1) .. N
             T == {Rest(c) : c \in P}
  <2>1. T \subseteq FiniteSubsetsOf(1 .. N) /\ T # {}
    <3>1. ASSUME NEW c \in P PROVE Rest(c) \subseteq 1 .. N /\ IsFiniteSet(Rest(c))
      BY <1>2, <1>3, FS_Interval
    <3> QED
      BY <1>4, <3>1 DEF FiniteSubsetsOf
  <2>2. IsWellFoundedOn(StrictSubsetOrdering(1 .. N), FiniteSubsetsOf(1 .. N))
    BY FS_StrictSubsetOrderingWellFounded
  <2>3. PICK least \in T : \A y \in T : <<y, least>> \notin StrictSubsetOrdering(1 .. N)
    <3> HIDE DEF T
    <3> QED
      BY <2>1, <2>2, WFMin
  <2>4. PICK longest \in P : least = Rest(longest)
    OBVIOUS
  <2>5. ASSUME NEW other \in P, ~(Len(other) <= Len(longest)) PROVE FALSE
    <3>1. /\ Len(other) \in 0 .. N /\ Len(longest) \in 0 .. N
          /\ Len(longest) < Len(other) /\ N \in Nat
      BY <1>2, <1>3, <2>5
    <3>2. Rest(other) \subseteq Rest(longest) /\ Rest(other) # Rest(longest)
      BY <3>1
    <3>3. Rest(other) \in SUBSET (1 .. N) /\ Rest(longest) \in SUBSET (1 .. N)
      BY <3>1
    <3>4. <<Rest(other), Rest(longest)>> \in StrictSubsetOrdering(1 .. N)
      <4> HIDE DEF Rest
      <4> QED
        BY <3>2, <3>3 DEF StrictSubsetOrdering
    <3> QED
      BY <2>3, <2>4, <3>4
  <2> QED
    BY <2>5
<1>6. /\ LongestCommonPrefix(S) \in P
      /\ \A other \in P : Len(other) <= Len(LongestCommonPrefix(S))
  BY <1>5 DEF LongestCommonPrefix, P
<1> QED
  BY <1>1, <1>2, <1>3, <1>4, <1>6, PrefixesOfOne
-----------------------------------------------------------------------------
(* The processes. *)

LEMMA PlanIs ==
    ASSUME NEW n
    PROVE  /\ Len(Plan(n)) \in Nat /\ Len(Plan(n)) >= 4
           /\ \A i \in 1 .. Len(Plan(n)) : Plan(n)[i] \in Task
<1> DEFINE base == <<"txpool", "import-queue", "network", "rpc">>
           aura == IF n \in Authority THEN <<"aura">> ELSE << >>
           voter == IF n \in EnableGrandpa THEN <<"grandpa-voter">> ELSE << >>
<1>1. base \in Seq(Task) /\ Len(base) = 4
  BY DEF Task
<1>2. aura \in Seq(Task)
  <2>1. <<"aura">> \in Seq(Task) /\ << >> \in Seq(Task)
    BY DEF Task
  <2> QED
    BY <2>1
<1>3. voter \in Seq(Task)
  <2>1. <<"grandpa-voter">> \in Seq(Task) /\ << >> \in Seq(Task)
    BY DEF Task
  <2> QED
    BY <2>1
<1>4. Plan(n) = (base \o aura) \o voter
  BY DEF Plan
<1> HIDE DEF base, aura, voter
<1>5. base \o aura \in Seq(Task) /\ Len(base \o aura) = Len(base) + Len(aura)
  BY <1>1, <1>2, ConcatProperties
<1>6. Plan(n) \in Seq(Task) /\ Len(Plan(n)) = Len(base \o aura) + Len(voter)
  BY <1>3, <1>4, <1>5, ConcatProperties
<1>7. Len(aura) \in Nat /\ Len(voter) \in Nat
  BY <1>2, <1>3
<1> QED
  BY <1>1, <1>5, <1>6, <1>7

\* What a step of the chain does to the processes.
ServiceStep ==
    \/ UNCHANGED service
    \/ \E n \in Node :
           \/ new_partial(n) \/ new_full(n)
           \/ Stopped(n) \/ EssentialTaskFailed(n)
           \/ \E task \in Running(n) : TaskEnds(n, task)
           \/ /\ UNCHANGED <<started, ended, faults>>
              /\ DatabaseFree(n) \/ reverting[n] > 0
              /\ \E k \in Nat : reverting' = [reverting EXCEPT ![n] = k]

LEMMA ChainRunsService ==
    ASSUME ServiceTypeOK, [ChainNext]_cvars, \A n \in Node : Revertible(n) \in Int
    PROVE  ServiceStep
<1>1. ASSUME NEW n \in Node, RevertAux(n) PROVE ServiceStep
  <2>1. PICK k \in 1 .. Revertible(n) : reverting' = [reverting EXCEPT ![n] = k]
    BY <1>1 DEF RevertAux
  <2>2. k \in Nat
    BY <2>1
  <2> QED
    BY <1>1, <2>1, <2>2 DEF RevertAux, ServiceStep
<1>2. ASSUME NEW n \in Node, RevertBlock(n) \/ RevertAborted(n) PROVE ServiceStep
  <2>1. PICK k \in {reverting[n] - 1, 0} : reverting' = [reverting EXCEPT ![n] = k]
    BY <1>2 DEF RevertBlock, RevertAborted
  <2>2. k \in Nat /\ reverting[n] > 0 /\ UNCHANGED <<started, ended, faults>>
    BY <1>2 DEF RevertBlock, RevertAborted, ServiceTypeOK
  <2> QED
    BY <2>1, <2>2 DEF ServiceStep
<1>3. ASSUME NEW n \in Node, Start(n) \/ Ends(n) \/ Fails(n) PROVE ServiceStep
  BY <1>3 DEF Start, Ends, Fails, ServiceStep
<1>4. CASE UNCHANGED service
  BY <1>4 DEF ServiceStep
<1> QED
  BY <1>1, <1>2, <1>3, <1>4
     DEF ChainNext, cvars, Tick, GrandpaRound, Submit, Gossip, Sync, Author, Finalize,
         Command, PurgeChain

LEMMA ServiceTypeStep ==
    ASSUME ServiceTypeOK, ServiceStep
    PROVE  ServiceTypeOK'
<1> USE DEF ServiceTypeOK
<1>1. CASE UNCHANGED service
  BY <1>1 DEF service, Plan
<1>2. ASSUME NEW n \in Node, new_partial(n) PROVE ServiceTypeOK'
  BY <1>2, PlanIs DEF new_partial, DatabaseFree
<1>3. ASSUME NEW n \in Node, new_full(n) PROVE ServiceTypeOK'
  <2>1. /\ started' = [started EXCEPT ![n] = started[n] + 1]
        /\ started[n] + 1 \in 0 .. Len(Plan(n))
        /\ UNCHANGED <<ended, reverting, faults>>
    BY <1>3, PlanIs DEF new_full, Complete
  <2> QED
    BY <2>1
<1>4. ASSUME NEW n \in Node, Stopped(n) \/ EssentialTaskFailed(n) PROVE ServiceTypeOK'
  <2>1. /\ started' = [started EXCEPT ![n] = 0] /\ ended' = [ended EXCEPT ![n] = {}]
        /\ UNCHANGED reverting
    BY <1>4 DEF Stopped, EssentialTaskFailed, ProcessEnds
  <2>2. faults' \in 0 .. MaxFaults
    BY <1>4, NodeAssumption DEF Stopped, EssentialTaskFailed, Faulty
  <2>3. started' \in [Node -> Nat] /\ \A m \in Node : started'[m] \in 0 .. Len(Plan(m))
    BY <2>1, PlanIs
  <2>4. /\ ended' \in [Node -> SUBSET Task]
        /\ \A m \in Node : ended'[m] \subseteq {Plan(m)[i] : i \in 1 .. started'[m]}
    <3>1. ASSUME NEW m \in Node, m # n
          PROVE  ended'[m] = ended[m] /\ started'[m] = started[m]
      BY <2>1, <3>1
    <3> QED
      BY <2>1, <3>1
  <2> QED
    BY <2>1, <2>2, <2>3, <2>4
<1>5. ASSUME NEW n \in Node, NEW task \in Running(n), TaskEnds(n, task)
      PROVE  ServiceTypeOK'
  <2>1. task \in {Plan(n)[i] : i \in 1 .. started[n]} /\ task \in Task
    BY <1>5, PlanIs DEF Running
  <2> QED
    BY <1>5, <2>1, NodeAssumption DEF TaskEnds, Faulty
<1>6. ASSUME NEW n \in Node, UNCHANGED <<started, ended, faults>>,
             NEW k \in Nat, reverting' = [reverting EXCEPT ![n] = k]
      PROVE  ServiceTypeOK'
  BY <1>6
<1> QED
  BY <1>1, <1>2, <1>3, <1>4, <1>5, <1>6 DEF ServiceStep
-----------------------------------------------------------------------------
(* The authorities: one or two of them. *)

LEMMA AuthoritiesAre ==
    /\ Range(authorities) \subseteq Node /\ Range(authorities) # {}
    /\ Len(authorities) \in {1, 2}
    /\ IsFiniteSet(Range(authorities))
    /\ Cardinality(Range(authorities)) <= Len(authorities)
<1>1. CASE ChainSpec = "dev"
  <2>1. authorities = <<Alice>>
    BY <1>1 DEF authorities, development_config_genesis
  <2>2. Len(authorities) = 1 /\ Range(authorities) = {Alice}
    BY <2>1 DEF Range
  <2>3. IsFiniteSet({Alice}) /\ Cardinality({Alice}) = 1
    BY FS_Singleton
  <2> QED
    BY <2>2, <2>3, ChainAssumption
<1>2. CASE ChainSpec # "dev"
  <2>1. authorities = <<Alice, Bob>>
    BY <1>2 DEF authorities, local_config_genesis
  <2>2. Len(authorities) = 2 /\ Range(authorities) = {Alice} \union {Bob}
    BY <2>1 DEF Range
  <2>3. IsFiniteSet({Alice}) /\ Cardinality({Alice}) = 1
    BY FS_Singleton
  <2>4. /\ IsFiniteSet({Alice} \union {Bob})
        /\ Cardinality({Alice} \union {Bob}) <= 2
    BY <2>3, FS_AddElement
  <2> QED
    BY <2>2, <2>4, ChainAssumption
<1> QED
  BY <1>1, <1>2

-----------------------------------------------------------------------------
(* What a node keeps on disk. *)

DiskTypes == /\ slot \in 0 .. MaxSlot
             /\ blocks \in [Node -> SUBSET Chains]
             /\ {best, final, vote} \subseteq [Node -> Chains]

\* A database has the blocks that its blocks are built on, and the node builds, votes
\* and finalizes among them.  During `revert` no process runs, the voter state is
\* rooted at the final block, and fewer blocks are to go than there are above it.
StorageIsSound(n) ==
    /\ {best[n], final[n], vote[n]} \subseteq blocks[n]
    /\ IsPrefix(final[n], best[n]) /\ IsPrefix(final[n], vote[n])
    /\ \A c \in blocks[n] : \A i \in 0 .. Len(c) : Prefix(c, i) \in blocks[n]
    /\ reverting[n] > 0 =>
           /\ started[n] = 0
           /\ reverting[n] <= Revertible(n)
           /\ vote[n] = final[n]

StorageInv == ServiceTypeOK /\ DiskTypes /\ \A n \in Node : StorageIsSound(n)

PoolTypes == {pool, watched} \subseteq [Node -> SUBSET Tx]

LEMMA DiskIs ==
    ASSUME DiskTypes, NEW n \in Node
    PROVE  /\ blocks[n] \subseteq Chains
           /\ best[n] \in Chains /\ final[n] \in Chains /\ vote[n] \in Chains
           /\ Len(best[n]) \in Nat /\ Len(final[n]) \in Nat
           /\ Revertible(n) \in Int
<1>1. best[n] \in Chains /\ final[n] \in Chains /\ vote[n] \in Chains
  BY DEF DiskTypes
<1>2. Len(best[n]) \in Nat /\ Len(final[n]) \in Nat
  BY <1>1 DEF Chains
<1> QED
  BY <1>1, <1>2 DEF DiskTypes, Revertible

LEMMA NotRunning ==
    ASSUME NEW n \in Node, started[n] = 0
    PROVE  Running(n) = {}
BY DEF Running

\* A node whose disk is left alone and that does not start with a `revert` half done.
LEMMA StorageUntouched ==
    ASSUME NEW n \in Node, StorageIsSound(n),
           blocks'[n] = blocks[n], best'[n] = best[n], final'[n] = final[n],
           vote'[n] = vote[n],
           reverting'[n] > 0 => started'[n] = 0 /\ reverting'[n] = reverting[n]
    PROVE  StorageIsSound(n)'
BY DEF StorageIsSound, Revertible

\* The steps of processes, pools and time.
LEMMA StorageKept ==
    ASSUME StorageInv, ServiceTypeOK', UNCHANGED disk, slot' \in 0 .. MaxSlot,
           \/ UNCHANGED service
           \/ \E n \in Node : Start(n) \/ Ends(n) \/ Fails(n) \/ RevertAborted(n)
    PROVE  StorageInv'
<1>1. DiskTypes'
  BY DEF StorageInv, DiskTypes, disk
<1>2. ASSUME NEW m \in Node
      PROVE  reverting'[m] > 0 => started'[m] = 0 /\ reverting'[m] = reverting[m]
  <2>1. reverting[m] > 0 => started[m] = 0
    BY DEF StorageInv, StorageIsSound
  <2>2. CASE UNCHANGED service
    BY <2>1, <2>2 DEF service
  <2>3. ASSUME NEW n \in Node, Start(n)
        PROVE  reverting'[m] > 0 => started'[m] = 0 /\ reverting'[m] = reverting[m]
    <3>1. UNCHANGED reverting /\ (m # n => started'[m] = started[m])
      BY <2>3 DEF Start, new_partial, new_full, StorageInv, ServiceTypeOK
    <3>2. reverting[n] = 0
      <4>1. reverting[n] \in Nat /\ started[n] \in Nat
        BY DEF StorageInv, ServiceTypeOK
      <4>2. reverting[n] > 0 => started[n] = 0
        BY DEF StorageInv, StorageIsSound
      <4>3. reverting[n] = 0 \/ started[n] > 0
        BY <2>3 DEF Start, new_partial, new_full, DatabaseFree
      <4> QED
        BY <4>1, <4>2, <4>3
    <3> QED
      BY <2>1, <3>1, <3>2
  <2>4. ASSUME NEW n \in Node, Ends(n)
        PROVE  reverting'[m] > 0 => started'[m] = 0 /\ reverting'[m] = reverting[m]
    <3>1. UNCHANGED reverting /\ started' = [started EXCEPT ![n] = 0]
      BY <2>4 DEF Ends, Stopped, EssentialTaskFailed, ProcessEnds
    <3> QED
      BY <2>1, <3>1 DEF StorageInv, ServiceTypeOK
  <2>5. ASSUME NEW n \in Node, Fails(n)
        PROVE  reverting'[m] > 0 => started'[m] = 0 /\ reverting'[m] = reverting[m]
    BY <2>1, <2>5 DEF Fails, TaskEnds
  <2>6. ASSUME NEW n \in Node, RevertAborted(n)
        PROVE  reverting'[m] > 0 => started'[m] = 0 /\ reverting'[m] = reverting[m]
    BY <2>1, <2>6 DEF RevertAborted, StorageInv, ServiceTypeOK
  <2> QED
    BY <2>2, <2>3, <2>4, <2>5, <2>6
<1>3. ASSUME NEW m \in Node PROVE StorageIsSound(m)'
  BY <1>2, StorageUntouched DEF StorageInv, disk
<1> QED
  BY <1>1, <1>3 DEF StorageInv

\* A running node that changes its own disk: only its part of the invariant is at stake.
LEMMA StorageOfOne ==
    ASSUME StorageInv, UNCHANGED <<service, slot>>, NEW n \in Node,
           NEW c, NEW head, NEW finality, NEW voted, c \subseteq Chains,
           {head, finality, voted} \subseteq c,
           blocks' = [blocks EXCEPT ![n] = c],
           best' = [best EXCEPT ![n] = head],
           final' = [final EXCEPT ![n] = finality],
           vote' = [vote EXCEPT ![n] = voted],
           IsPrefix(finality, head), IsPrefix(finality, voted),
           \A d \in c : \A i \in 0 .. Len(d) : Prefix(d, i) \in c,
           reverting[n] = 0
    PROVE  StorageInv'
<1>1. DiskTypes'
  BY DEF StorageInv, DiskTypes
<1>2. ServiceTypeOK'
  BY ServiceTypeStep DEF StorageInv, ServiceStep
<1>3. ASSUME NEW m \in Node, m # n PROVE StorageIsSound(m)'
  BY <1>3, StorageUntouched DEF StorageInv, DiskTypes, StorageIsSound, service
<1>4. StorageIsSound(n)'
  <2>1. /\ blocks'[n] = c /\ best'[n] = head /\ final'[n] = finality /\ vote'[n] = voted
        /\ reverting'[n] = 0
    BY DEF StorageInv, DiskTypes, service
  <2> QED
    BY <2>1 DEF StorageIsSound
<1> QED
  BY <1>1, <1>2, <1>3, <1>4 DEF StorageInv

LEMMA StorageImport ==
    ASSUME StorageInv, UNCHANGED <<service, slot>>, NEW n \in Node, reverting[n] = 0,
           NEW c \in Chains, Imports(n, c), IsPrefix(final[n], c),
           \A i \in 0 .. Len(c) : i # Len(c) => Prefix(c, i) \in blocks[n]
    PROVE  StorageInv'
<1> DEFINE all == blocks[n] \union {c}
           head == IF Prefers(n, c) THEN c ELSE best[n]
<1>1. DiskTypes /\ StorageIsSound(n)
  BY DEF StorageInv
<1>2. /\ blocks' = [blocks EXCEPT ![n] = all]
      /\ best' = [best EXCEPT ![n] = head]
      /\ final' = [final EXCEPT ![n] = final[n]]
      /\ vote' = [vote EXCEPT ![n] = vote[n]]
  BY <1>1 DEF Imports, Moves, DiskTypes
<1>3. all \subseteq Chains /\ {head, final[n], vote[n]} \subseteq all
  BY <1>1, DiskIs DEF StorageIsSound
<1>4. IsPrefix(final[n], head) /\ IsPrefix(final[n], vote[n])
  BY <1>1 DEF StorageIsSound
<1>5. ASSUME NEW d \in all, NEW i \in 0 .. Len(d) PROVE Prefix(d, i) \in all
  <2>1. CASE d \in blocks[n]
    BY <1>1, <1>5, <2>1 DEF StorageIsSound
  <2>2. CASE d = c
    BY <1>5, <2>2, PrefixReflexive, PrefixesAre
  <2> QED
    BY <2>1, <2>2
<1> HIDE DEF all, head
<1> QED
  BY <1>2, <1>3, <1>4, <1>5, StorageOfOne

\* A node that runs has no `revert` half done.
LEMMA RunningIsWhole ==
    ASSUME StorageInv, NEW n \in Node, Running(n) # {}
    PROVE  reverting[n] = 0
<1>1. started[n] # 0
  BY NotRunning
<1>2. reverting[n] \in Nat /\ started[n] \in Nat
  BY DEF StorageInv, ServiceTypeOK
<1> QED
  BY <1>1, <1>2 DEF StorageInv, StorageIsSound

LEMMA StorageAuthor ==
    ASSUME StorageInv, PoolTypes, NEW n \in Node, Author(n)
    PROVE  StorageInv'
<1>1. /\ DiskTypes /\ StorageIsSound(n) /\ best[n] \in Chains /\ final[n] \in Chains
      /\ blocks[n] \subseteq Chains
  BY DiskIs DEF StorageInv
<1>2. PICK txs \in SUBSET pool[n] :
          Imports(n, Append(best[n], [slot |-> slot, txs |-> txs]))
  BY DEF Author
<1> DEFINE block == [slot |-> slot, txs |-> txs]
           c == Append(best[n], block)
<1>3. block \in Block
  BY <1>1, <1>2 DEF Block, DiskTypes, PoolTypes
<1> HIDE DEF block
<1>4. /\ c \in Chains /\ IsPrefix(best[n], c)
      /\ \A i \in 0 .. Len(c) : i # Len(c) => Prefix(c, i) = Prefix(best[n], i)
      /\ Len(c) = Len(best[n]) + 1 /\ Len(best[n]) \in Nat
  BY <1>1, <1>3, AppendIs DEF Chains
<1>5. IsPrefix(final[n], c)
  BY <1>1, <1>4, PrefixTransitive DEF StorageIsSound
<1>6. \A i \in 0 .. Len(c) : i # Len(c) => Prefix(c, i) \in blocks[n]
  BY <1>1, <1>4 DEF StorageIsSound
<1>7. Imports(n, c) /\ UNCHANGED <<service, slot>> /\ Running(n) # {}
  BY <1>2 DEF Author, MayAuthor, block
<1> HIDE DEF c
<1> QED
  BY <1>4, <1>5, <1>6, <1>7, StorageImport, RunningIsWhole

\* The block that a node takes from a peer.
LEMMA SyncIs ==
    ASSUME StorageInv, NEW n \in Node, NEW m \in Node, Sync(n, m)
    PROVE  \E i \in 1 .. Len(best[m]) :
               LET c == Prefix(best[m], i)
               IN  /\ c \in Chains /\ c \in blocks[m]
                   /\ Imports(n, c) /\ IsPrefix(final[n], c)
                   /\ \A j \in 0 .. Len(c) : j # Len(c) => Prefix(c, j) \in blocks[n]
<1>1. /\ DiskTypes /\ StorageIsSound(n) /\ StorageIsSound(m) /\ best[m] \in Chains
      /\ Len(best[m]) \in Nat
  BY DiskIs DEF StorageInv
<1>2. DOMAIN best[m] = 1 .. Len(best[m])
  BY <1>1 DEF Chains
<1>3. PICK i \in 1 .. Len(best[m]) :
          /\ Prefix(Prefix(best[m], i), i - 1) \in blocks[n]
          /\ IsPrefix(final[n], Prefix(best[m], i))
          /\ Imports(n, Prefix(best[m], i))
  BY <1>2 DEF Sync
<1> DEFINE c == Prefix(best[m], i)
<1>4. c \in Chains /\ c \in blocks[m] /\ Len(c) = i
  BY <1>1, PrefixIs DEF StorageIsSound
<1>5. ASSUME NEW j \in 0 .. Len(c), j # Len(c) PROVE Prefix(c, j) \in blocks[n]
  <2>1. j \in 0 .. i - 1 /\ i - 1 \in 0 .. Len(c)
    BY <1>4, <1>5
  <2>2. Prefix(Prefix(c, i - 1), j) = Prefix(c, j) /\ Len(Prefix(c, i - 1)) = i - 1
    BY <1>4, <2>1, PrefixIs, PrefixOfPrefix
  <2> QED
    BY <1>1, <1>3, <2>1, <2>2 DEF StorageIsSound
<1> QED
  BY <1>3, <1>4, <1>5

LEMMA StorageSync ==
    ASSUME StorageInv, NEW n \in Node, NEW m \in Node, Sync(n, m)
    PROVE  StorageInv'
<1>1. Running(n) # {} /\ UNCHANGED <<service, slot>>
  BY DEF Sync, Follows
<1>2. reverting[n] = 0
  BY <1>1, RunningIsWhole
<1>3. PICK i \in 1 .. Len(best[m]) :
          LET c == Prefix(best[m], i)
          IN  /\ c \in Chains
              /\ Imports(n, c) /\ IsPrefix(final[n], c)
              /\ \A j \in 0 .. Len(c) : j # Len(c) => Prefix(c, j) \in blocks[n]
  BY SyncIs
<1> DEFINE c == Prefix(best[m], i)
<1>4. /\ c \in Chains /\ Imports(n, c) /\ IsPrefix(final[n], c)
      /\ \A j \in 0 .. Len(c) : j # Len(c) => Prefix(c, j) \in blocks[n]
  BY <1>3
<1> HIDE DEF c
<1> QED
  BY <1>1, <1>2, <1>4, StorageImport

\* A round binds its voters to a chain that each of them has, over what it was bound to.
LEMMA RoundBinds ==
    ASSUME StorageInv, NEW Q, GrandpaRound(Q), Q \subseteq Range(authorities)
    PROVE  \E common \in Chains :
               /\ vote' = [n \in Node |-> IF n \in Q THEN common ELSE vote[n]]
               /\ \A n \in Q \intersect Node :
                      common \in blocks[n] /\ IsPrefix(vote[n], common)
<1>1. Q # {} /\ Q \subseteq Node
  <2>1. ASSUME Q = {} PROVE FALSE
    <3>1. Cardinality(Q) = 0 /\ Len(authorities) \in Nat
      BY <2>1, FS_EmptySet, AuthoritiesAre
    <3> QED
      BY <3>1 DEF GrandpaRound, Supermajority
  <2> QED
    BY <2>1, AuthoritiesAre
<1> DEFINE Bound(S) == [n \in Node |-> IF n \in Q THEN LongestCommonPrefix(S) ELSE vote[n]]
<1>2. PICK base \in {vote[n] : n \in Q} :
          /\ \A n \in Q : IsPrefix(vote[n], base) /\ base \in blocks[n]
          /\ \E choice \in [Q -> UNION {Longest(Over(n, base)) : n \in Q}] :
                 /\ \A n \in Q : choice[n] \in Longest(Over(n, base))
                 /\ vote' = Bound({VoteFor(n, base, choice[n]) : n \in Q})
  BY Zenon DEF GrandpaRound
<1>3. PICK choice \in [Q -> UNION {Longest(Over(n, base)) : n \in Q}] :
          /\ \A n \in Q : choice[n] \in Longest(Over(n, base))
          /\ vote' = Bound({VoteFor(n, base, choice[n]) : n \in Q})
  BY <1>2
<1> DEFINE S == {VoteFor(n, base, choice[n]) : n \in Q}
           common == LongestCommonPrefix(S)
<1>4. base \in Chains
  BY <1>1, <1>2, DiskIs DEF StorageInv
<1>5. ASSUME NEW n \in Q
      PROVE  /\ choice[n] \in blocks[n] /\ choice[n] \in Chains
             /\ VoteFor(n, base, choice[n]) \in Chains
             /\ IsPrefix(base, VoteFor(n, base, choice[n]))
             /\ IsPrefix(VoteFor(n, base, choice[n]), choice[n])
  <2>1. choice[n] \in blocks[n] /\ IsPrefix(base, choice[n])
    BY <1>3 DEF Longest, Over
  <2>2. choice[n] \in Chains
    BY <1>1, <2>1, DiskIs DEF StorageInv
  <2> QED
    BY <1>4, <2>1, <2>2, VoteIs
<1>6. S \subseteq Chains /\ S # {} /\ \A t \in S : IsPrefix(base, t)
  BY <1>1, <1>5
<1>7. /\ common \in Chains /\ IsPrefix(base, common)
      /\ \A t \in S : IsPrefix(common, t)
  <2> HIDE DEF S
  <2> QED
    BY <1>4, <1>6, CommonIs
<1>8. ASSUME NEW n \in Q PROVE common \in blocks[n] /\ IsPrefix(vote[n], common)
  <2>1. IsPrefix(common, VoteFor(n, base, choice[n]))
    BY <1>7
  <2> HIDE DEF common
  <2>2. IsPrefix(common, choice[n])
    BY <1>5, <1>7, <2>1, PrefixTransitive
  <2>3. common = Prefix(choice[n], Len(common)) /\ Len(common) \in 0 .. Len(choice[n])
    BY <1>5, <1>7, <2>2, PrefixesAre
  <2>4. common \in blocks[n]
    BY <1>1, <1>5, <2>3 DEF StorageInv, StorageIsSound
  <2>5. IsPrefix(vote[n], common)
    BY <1>1, <1>2, <1>4, <1>7, DiskIs, PrefixTransitive DEF StorageInv
  <2> QED
    BY <2>4, <2>5
<1>9. vote' = [n \in Node |-> IF n \in Q THEN common ELSE vote[n]]
  BY <1>3
<1> HIDE DEF common
<1> QED
  BY <1>1, <1>7, <1>8, <1>9

LEMMA StorageRound ==
    ASSUME StorageInv, NEW Q, GrandpaRound(Q), Q \subseteq Range(authorities)
    PROVE  StorageInv'
<1>1. PICK common \in Chains :
          /\ vote' = [n \in Node |-> IF n \in Q THEN common ELSE vote[n]]
          /\ \A n \in Q \intersect Node :
                 common \in blocks[n] /\ IsPrefix(vote[n], common)
  BY RoundBinds
<1>2. UNCHANGED <<service, slot, blocks, best, final>>
  BY DEF GrandpaRound
<1>3. DiskTypes'
  BY <1>1, <1>2 DEF StorageInv, DiskTypes
<1>4. ServiceTypeOK'
  BY <1>2, ServiceTypeStep DEF StorageInv, ServiceStep
<1>5. ASSUME NEW n \in Node, n \notin Q PROVE StorageIsSound(n)'
  BY <1>1, <1>2, <1>5, StorageUntouched DEF StorageInv, StorageIsSound, service
<1>6. ASSUME NEW n \in Node, n \in Q PROVE StorageIsSound(n)'
  <2>1. reverting[n] = 0
    BY <1>6, RunningIsWhole DEF GrandpaRound, Votes
  <2>2. vote'[n] = common /\ common \in blocks[n] /\ IsPrefix(vote[n], common)
    BY <1>1, <1>6
  <2>3. IsPrefix(final[n], common)
    BY <2>2, DiskIs, PrefixTransitive DEF StorageInv, StorageIsSound
  <2> QED
    BY <1>2, <2>1, <2>2, <2>3 DEF StorageInv, StorageIsSound, service
<1> QED
  BY <1>3, <1>4, <1>5, <1>6 DEF StorageInv

LEMMA StorageFinalize ==
    ASSUME StorageInv, NEW n \in Node, Finalize(n)
    PROVE  StorageInv'
<1>1. /\ DiskTypes /\ StorageIsSound(n) /\ blocks[n] \subseteq Chains
      /\ best[n] \in Chains /\ final[n] \in Chains /\ vote[n] \in Chains
  BY DiskIs DEF StorageInv
<1>2. PICK c \in Justified(n) :
          /\ IsPrefix(final[n], c)
          /\ Moves(n, HeadOver(n, c), c)
          /\ blocks' = [blocks EXCEPT ![n] = {d \in @ : IsPrefix(c, d) \/ IsPrefix(d, c)}]
          /\ vote' = [vote EXCEPT ![n] = BoundOver(n, c)]
  BY DEF Finalize
<1> DEFINE kept == {d \in blocks[n] : IsPrefix(c, d) \/ IsPrefix(d, c)}
           head == HeadOver(n, c)
           voted == BoundOver(n, c)
<1>3. c \in blocks[n] /\ c \in Chains
  BY <1>1, <1>2 DEF Justified
<1>4. /\ blocks' = [blocks EXCEPT ![n] = kept]
      /\ best' = [best EXCEPT ![n] = head]
      /\ final' = [final EXCEPT ![n] = c]
      /\ vote' = [vote EXCEPT ![n] = voted]
  BY <1>1, <1>2 DEF Moves, DiskTypes
<1>5. IsPrefix(c, c)
  BY <1>3, PrefixReflexive
<1>6. /\ kept \subseteq Chains /\ {head, c, voted} \subseteq kept
      /\ IsPrefix(c, head) /\ IsPrefix(c, voted)
  BY <1>1, <1>3, <1>5 DEF HeadOver, BoundOver, StorageIsSound
<1>7. ASSUME NEW d \in kept, NEW i \in 0 .. Len(d) PROVE Prefix(d, i) \in kept
  <2>1. d \in Chains /\ Prefix(d, i) \in blocks[n]
    BY <1>1, <1>7 DEF StorageIsSound
  <2>2. Prefix(d, i) \in Chains /\ IsPrefix(Prefix(d, i), d)
    BY <2>1, PrefixIs, PrefixIsPrefix
  <2>3. CASE IsPrefix(c, d)
    BY <1>3, <2>1, <2>2, <2>3, PrefixesOfOne
  <2>4. CASE IsPrefix(d, c)
    BY <1>3, <2>1, <2>2, <2>4, PrefixTransitive
  <2> QED
    BY <1>7, <2>3, <2>4
<1>8. UNCHANGED <<service, slot>> /\ reverting[n] = 0
  BY RunningIsWhole DEF Finalize
<1> HIDE DEF kept, head, voted
<1> QED
  BY <1>4, <1>6, <1>7, <1>8, StorageOfOne

LEMMA StorageRevertAux ==
    ASSUME StorageInv, ServiceTypeOK', NEW n \in Node, RevertAux(n)
    PROVE  StorageInv'
<1>1. DiskTypes /\ StorageIsSound(n) /\ final[n] \in Chains
  BY DiskIs DEF StorageInv
<1>2. PICK k \in 1 .. Revertible(n) : reverting' = [reverting EXCEPT ![n] = k]
  BY DEF RevertAux
<1>3. /\ started[n] = 0 /\ UNCHANGED <<started, slot, blocks, best, final>>
      /\ vote' = [vote EXCEPT ![n] = final[n]]
  BY DEF RevertAux, AuxReverted, DatabaseFree
<1>4. k \in Int /\ k <= Revertible(n)
  BY <1>1, <1>2, DiskIs
<1>5. IsPrefix(final[n], final[n])
  BY <1>1, PrefixReflexive
<1>6. /\ vote'[n] = final[n] /\ reverting'[n] = k
      /\ \A m \in Node \ {n} : vote'[m] = vote[m] /\ reverting'[m] = reverting[m]
  BY <1>1, <1>2, <1>3 DEF StorageInv, DiskTypes, ServiceTypeOK
<1>7. DiskTypes'
  BY <1>1, <1>3 DEF DiskTypes
<1>8. ASSUME NEW m \in Node, m # n PROVE StorageIsSound(m)'
  BY <1>3, <1>6, <1>8, StorageUntouched DEF StorageInv, StorageIsSound
<1>9. StorageIsSound(n)'
  BY <1>1, <1>3, <1>4, <1>5, <1>6 DEF StorageIsSound, Revertible
<1> QED
  BY <1>7, <1>8, <1>9 DEF StorageInv

LEMMA StorageRevertBlock ==
    ASSUME StorageInv, ServiceTypeOK', NEW n \in Node, RevertBlock(n)
    PROVE  StorageInv'
<1>1. /\ DiskTypes /\ StorageIsSound(n) /\ blocks[n] \subseteq Chains
      /\ best[n] \in Chains /\ final[n] \in Chains
      /\ Len(best[n]) \in Nat /\ Len(final[n]) \in Nat
  BY DiskIs DEF StorageInv
<1> DEFINE length == Len(best[n]) - 1
           target == Prefix(best[n], length)
           kept == BlocksWithoutBest(n)
<1>2. /\ best' = [best EXCEPT ![n] = target]
      /\ blocks' = [blocks EXCEPT ![n] = kept]
      /\ reverting' = [reverting EXCEPT ![n] = reverting[n] - 1]
      /\ reverting[n] > 0
      /\ UNCHANGED <<started, slot, final, vote>>
  BY <1>1 DEF RevertBlock, DiskTypes, StorageInv, ServiceTypeOK
<1>3. /\ length \in 0 .. Len(best[n]) /\ Len(final[n]) <= length
      /\ reverting[n] - 1 <= length - Len(final[n])
      /\ started[n] = 0 /\ vote[n] = final[n]
  <2>1. /\ reverting[n] \in Nat /\ reverting[n] <= Len(best[n]) - Len(final[n])
        /\ started[n] = 0 /\ vote[n] = final[n] /\ reverting[n] > 0
    BY <1>1, <1>2 DEF StorageIsSound, Revertible, StorageInv, ServiceTypeOK
  <2>2. \A a, f, r \in Nat :
            r > 0 /\ r <= a - f => /\ a - 1 \in 0 .. a /\ f <= a - 1
                                  /\ r - 1 <= (a - 1) - f
    OBVIOUS
  <2> QED
    BY <1>1, <2>1, <2>2, Zenon
<1>4. /\ target \in Chains /\ Len(target) = length /\ target \in blocks[n]
      /\ IsPrefix(target, best[n])
  BY <1>1, <1>3, PrefixIs, PrefixIsPrefix DEF StorageIsSound
<1>5. \A c \in blocks[n] : Len(c) <= length => c \in kept
  <2> SUFFICES ASSUME NEW c \in blocks[n], Len(c) <= length PROVE c \in kept
      OBVIOUS
  <2>1. c \in Chains /\ Len(c) \in Nat
    BY <1>1 DEF Chains
  <2>2. ~IsPrefix(best[n], c)
    BY <1>1, <2>1, IsPrefixMeans
  <2> QED
    BY <1>1, <2>1, <2>2 DEF BlocksWithoutBest
<1>6. {target, final[n]} \subseteq kept /\ IsPrefix(final[n], target)
  <2>1. target \in kept /\ final[n] \in kept
    BY <1>1, <1>3, <1>4, <1>5 DEF StorageIsSound
  <2>2. IsPrefix(final[n], target)
    BY <1>1, <1>3, <1>4, PrefixesOfOne DEF StorageIsSound
  <2> QED
    BY <2>1, <2>2
<1>7. ASSUME NEW c \in kept, NEW i \in 0 .. Len(c) PROVE Prefix(c, i) \in kept
  <2>1. /\ c \in Chains /\ Len(c) \in Nat /\ c \in blocks[n]
        /\ ~IsPrefix(best[n], c)
        /\ reverting[n] = 1 => Len(c) < Len(best[n])
    BY <1>1 DEF Chains, BlocksWithoutBest
  <2>2. /\ Prefix(c, i) \in Chains /\ IsPrefix(Prefix(c, i), c)
        /\ Len(Prefix(c, i)) = i /\ Prefix(c, i) \in blocks[n]
    BY <1>1, <2>1, PrefixIs, PrefixIsPrefix DEF StorageIsSound
  <2>3. ~IsPrefix(best[n], Prefix(c, i))
    BY <1>1, <2>1, <2>2, PrefixTransitive
  <2>4. reverting[n] = 1 => Len(Prefix(c, i)) < Len(best[n])
    BY <1>1, <2>1, <2>2
  <2> QED
    BY <2>2, <2>3, <2>4 DEF BlocksWithoutBest
<1>8. /\ blocks'[n] = kept /\ best'[n] = target /\ reverting'[n] = reverting[n] - 1
      /\ \A m \in Node \ {n} : /\ blocks'[m] = blocks[m] /\ best'[m] = best[m]
                               /\ reverting'[m] = reverting[m]
  BY <1>1, <1>2 DEF StorageInv, DiskTypes, ServiceTypeOK
<1>9. DiskTypes'
  <2>1. kept \subseteq Chains
    BY <1>1 DEF BlocksWithoutBest
  <2> HIDE DEF target, kept
  <2> QED
    BY <1>1, <1>2, <1>4, <2>1 DEF DiskTypes
<1>10. ASSUME NEW m \in Node, m # n PROVE StorageIsSound(m)'
  BY <1>2, <1>8, <1>10, StorageUntouched DEF StorageInv, StorageIsSound
<1>11. StorageIsSound(n)'
  <2> HIDE DEF target, kept
  <2>1. IsPrefix(final[n], final[n])
    BY <1>1, PrefixReflexive
  <2>2. reverting'[n] <= Len(best'[n]) - Len(final[n])
    BY <1>3, <1>4, <1>8
  <2> QED
    BY <1>2, <1>3, <1>6, <1>7, <1>8, <2>1, <2>2 DEF StorageIsSound, Revertible
<1> QED
  BY <1>9, <1>10, <1>11 DEF StorageInv

LEMMA StoragePurge ==
    ASSUME StorageInv, NEW n \in Node, PurgeChain(n)
    PROVE  StorageInv'
<1>1. DiskTypes /\ << >> \in Chains /\ Len(<< >>) = 0 /\ Prefix(<< >>, 0) = << >>
  BY GenesisIsPrefix DEF StorageInv
<1>2. IsPrefix(<< >>, << >>)
  BY <1>1, PrefixReflexive
<1>3. /\ UNCHANGED <<service, slot>> /\ reverting[n] = 0
      /\ blocks' = [blocks EXCEPT ![n] = {<< >>}]
      /\ best' = [best EXCEPT ![n] = << >>]
      /\ final' = [final EXCEPT ![n] = << >>]
      /\ vote' = [vote EXCEPT ![n] = << >>]
  BY DEF PurgeChain, DatabaseFree
<1>4. \A d \in {<< >>} : \A i \in 0 .. Len(d) : Prefix(d, i) \in {<< >>}
  BY <1>1
<1> QED
  BY <1>1, <1>2, <1>3, <1>4, StorageOfOne

LEMMA StorageInitial == ChainInit => StorageInv
<1> SUFFICES ASSUME ChainInit PROVE StorageInv
    OBVIOUS
<1>1. << >> \in Chains /\ Len(<< >>) = 0 /\ Prefix(<< >>, 0) = << >>
  BY GenesisIsPrefix
<1>2. IsPrefix(<< >>, << >>)
  BY <1>1, PrefixReflexive
<1>3. ServiceTypeOK
  BY PlanIs, NodeAssumption DEF ChainInit, ServiceInit, ServiceTypeOK
<1>4. DiskTypes
  BY <1>1, ChainAssumption DEF ChainInit, DiskTypes
<1>5. ASSUME NEW n \in Node PROVE StorageIsSound(n)
  BY <1>1, <1>2 DEF ChainInit, ServiceInit, StorageIsSound
<1> QED
  BY <1>3, <1>4, <1>5 DEF StorageInv

LEMMA StorageStep ==
    ASSUME StorageInv, PoolTypes, [ChainNext]_cvars
    PROVE  StorageInv'
<1>1. ServiceTypeOK'
  BY DiskIs, ChainRunsService, ServiceTypeStep DEF StorageInv
<1>2. slot \in 0 .. MaxSlot
  BY DEF StorageInv, DiskTypes
<1>3. CASE Tick
  <2>1. slot' \in 0 .. MaxSlot
    BY <1>2, <1>3, ChainAssumption DEF Tick
  <2> QED
    BY <1>1, <1>3, <2>1, StorageKept DEF Tick
<1>4. ASSUME NEW Q \in SUBSET Range(authorities), GrandpaRound(Q) PROVE StorageInv'
  BY <1>4, StorageRound
<1>5. ASSUME NEW n \in Node,
             \/ \E t \in Tx : Submit(n, t)
             \/ \E m \in Node : Gossip(n, m)
             \/ Start(n) \/ Ends(n) \/ Fails(n) \/ RevertAborted(n)
      PROVE  StorageInv'
  <2>1. UNCHANGED <<slot, disk>>
    BY <1>5 DEF Submit, Gossip, Start, Ends, Fails, RevertAborted
  <2>2. \/ UNCHANGED service
        \/ Start(n) \/ Ends(n) \/ Fails(n) \/ RevertAborted(n)
    BY <1>5 DEF Submit, Gossip
  <2> QED
    BY <1>1, <1>2, <2>1, <2>2, StorageKept
<1>6. CASE UNCHANGED cvars
  BY <1>1, <1>2, <1>6, StorageKept DEF cvars
<1> QED
  BY <1>1, <1>3, <1>4, <1>5, <1>6, StorageAuthor, StorageSync, StorageFinalize,
     StorageRevertAux, StorageRevertBlock, StoragePurge
     DEF ChainNext, Command

-----------------------------------------------------------------------------
(* What chains and pools hold. *)

LEMMA ExecutedIs ==
    ASSUME NEW c \in Chains
    PROVE  /\ Executed(c) \subseteq Tx
           /\ \A b \in Block : Executed(Append(c, b)) = Executed(c) \union b.txs
<1>1. DOMAIN c = 1 .. Len(c) /\ Len(c) \in Nat /\ \A i \in 1 .. Len(c) : c[i] \in Block
  BY DEF Chains
<1>2. Executed(c) \subseteq Tx
  BY <1>1 DEF Executed, Block
<1>3. ASSUME NEW b \in Block PROVE Executed(Append(c, b)) = Executed(c) \union b.txs
  <2> DEFINE d == Append(c, b)
  <2>1. /\ DOMAIN d = 1 .. Len(c) + 1 /\ d[Len(c) + 1] = b
        /\ \A i \in 1 .. Len(c) : d[i] = c[i]
    BY AppendProperties DEF Chains
  <2> HIDE DEF d
  <2>2. 1 .. Len(c) + 1 = (1 .. Len(c)) \union {Len(c) + 1}
    BY <1>1
  <2>3. Executed(d) = Executed(c) \union b.txs
    BY <1>1, <2>1, <2>2 DEF Executed
  <2> QED
    BY <2>3 DEF d
<1> QED
  BY <1>2, <1>3

\* Of each account, the nonces that a chain has used are those below its next one,
\* each used once.
NoncesUsedOnce(c) ==
    /\ \A t \in Executed(c) : t.nonce < account_nonce(c, t.who)
    /\ \A t, u \in Executed(c) : ~Rivals(t, u)

\* What every block of every node went through.
Ledger(c) == /\ c # << >> => execute_block(Front(c), Last(c))
             /\ NoncesUsedOnce(c)

\* A block whose extrinsics have the nonces that are due uses none twice.
LEMMA NoncesGrow ==
    ASSUME NEW c \in Chains, NoncesUsedOnce(c), NEW b \in Block, apply_extrinsics(c, b.txs)
    PROVE  NoncesUsedOnce(Append(c, b))
<1> DEFINE d == Append(c, b)
           Old(who) == {t \in Executed(c) : t.who = who}
           Own(who) == {t \in b.txs : t.who = who}
           old(who) == Cardinality(Old(who))
           own(who) == Cardinality(Own(who))
<1>1. /\ d \in Chains /\ Executed(c) \subseteq Tx /\ b.txs \subseteq Tx
      /\ Executed(d) = Executed(c) \union b.txs
  BY ExecutedIs, AppendIs DEF Block
<1> HIDE DEF d
<1>2. ASSUME NEW who
      PROVE  /\ IsFiniteSet(Old(who)) /\ IsFiniteSet(Own(who))
             /\ old(who) \in Nat /\ own(who) \in Nat
             /\ account_nonce(c, who) = old(who)
             /\ account_nonce(d, who) = Cardinality(Old(who) \union Own(who))
  <2>1. Old(who) \in SUBSET Tx /\ Own(who) \in SUBSET Tx
    BY <1>1
  <2>2. IsFiniteSet(Old(who)) /\ IsFiniteSet(Own(who))
    BY <2>1, FS_Subset, ChainAssumption
  <2>3. {t \in Executed(d) : t.who = who} = Old(who) \union Own(who)
    BY <1>1
  <2> QED
    BY <2>2, <2>3, FS_CardinalityType DEF account_nonce
<1>3. ASSUME NEW t \in b.txs
      PROVE  /\ {u.nonce : u \in Own(t.who)} =
                    old(t.who) .. (old(t.who) + own(t.who) - 1)
             /\ t \in Own(t.who)
  BY <1>2 DEF apply_extrinsics
<1>4. \A t \in Executed(c) : t \in Old(t.who)
  OBVIOUS
<1>5. \A who : \A t \in Old(who) : t \in Executed(c) /\ t.who = who
  OBVIOUS
<1>6. \A who : \A t \in Own(who) : t \in b.txs /\ t.who = who
  OBVIOUS
<1> HIDE DEF Old, Own, old, own
<1>7. ASSUME NEW t \in b.txs
      PROVE  /\ t.nonce >= old(t.who) /\ t.nonce < old(t.who) + own(t.who)
             /\ t.nonce \in Nat
  <2>1. t.nonce \in {u.nonce : u \in Own(t.who)}
    BY <1>3
  <2>2. t.nonce \in old(t.who) .. (old(t.who) + own(t.who) - 1)
    BY <1>3, <2>1
  <2>3. old(t.who) \in Nat /\ own(t.who) \in Nat
    BY <1>2
  <2> QED
    BY <2>2, <2>3
<1>8. ASSUME NEW t \in Executed(c)
      PROVE  t.nonce < old(t.who) /\ t.nonce \in Nat
  BY <1>1, <1>2, ChainAssumption DEF NoncesUsedOnce
<1>9. ASSUME NEW t \in Executed(c), NEW u \in b.txs, t.who = u.who
      PROVE  t.nonce < u.nonce
  <2>1. t.nonce < old(t.who) /\ t.nonce \in Nat /\ old(t.who) \in Nat
    BY <1>2, <1>8
  <2>2. u.nonce >= old(u.who) /\ u.nonce \in Nat
    BY <1>7
  <2> QED
    BY <1>9, <2>1, <2>2
<1>10. ASSUME NEW who
       PROVE  account_nonce(d, who) = old(who) + own(who)
  <2>1. ASSUME NEW t \in Old(who), t \in Own(who) PROVE FALSE
    <3>1. t \in Executed(c) /\ t \in b.txs
      BY <1>5, <1>6, <2>1
    <3> QED
      BY <1>8, <1>9, <3>1
  <2>2. Old(who) \intersect Own(who) = {}
    BY <2>1
  <2>3. Cardinality(Old(who) \union Own(who)) =
            Cardinality(Old(who)) + Cardinality(Own(who))
            - Cardinality(Old(who) \intersect Own(who))
    BY <1>2, FS_Union
  <2>4. Cardinality(Old(who) \union Own(who)) = old(who) + own(who) - 0
    BY <2>2, <2>3, FS_EmptySet DEF old, own
  <2> QED
    BY <1>2, <2>4
<1>11. ASSUME NEW t \in Executed(d) PROVE t.nonce < account_nonce(d, t.who)
  <2>1. old(t.who) \in Nat /\ own(t.who) \in Nat
    BY <1>2
  <2>2. t.nonce \in Nat /\ t.nonce < old(t.who) + own(t.who)
    BY <1>1, <1>7, <1>8, <2>1
  <2> QED
    BY <1>10, <2>2
<1>12. ASSUME NEW t \in b.txs, NEW u \in b.txs, Rivals(t, u) PROVE FALSE
  <2> DEFINE S == Own(t.who)
             due == old(t.who)
             T == due .. (due + Cardinality(S) - 1)
             f == [x \in S |-> x.nonce]
  <2>1. t \in S /\ u \in S /\ t # u /\ f[t] = f[u]
    <3>1. t \in S /\ u \in S /\ t # u /\ t.nonce = u.nonce
      BY <1>3, <1>12 DEF Rivals
    <3> QED
      BY <3>1
  <2>2. T = {x.nonce : x \in S}
    BY <1>3 DEF own
  <2>3. f \in Surjection(S, T)
    <3> HIDE DEF T, S
    <3> QED
      BY <2>2 DEF Surjection
  <2>4. due \in Nat /\ Cardinality(S) \in Nat /\ IsFiniteSet(S)
    BY <1>2, FS_CardinalityType
  <2>5. Cardinality(T) = Cardinality(S)
    <3> DEFINE k == Cardinality(S)
    <3>1. k \in Nat /\ due \in Nat
      BY <2>4
    <3> HIDE DEF S, due, k
    <3>2. Cardinality(due .. (due + k - 1)) =
              IF due > due + k - 1 THEN 0 ELSE (due + k - 1) - due + 1
      BY <3>1, FS_Interval
    <3> QED
      BY <3>1, <3>2 DEF k
  <2>6. f \in Injection(S, T)
    <3> HIDE DEF S, T, f
    <3> QED
      BY <2>3, <2>4, <2>5, FS_SurjSameCardinalityImpliesInj
  <2> HIDE DEF S, T, f
  <2> QED
    BY <2>1, <2>6 DEF Injection, IsInjective
<1>13. ASSUME NEW t \in Executed(d), NEW u \in Executed(d), Rivals(t, u) PROVE FALSE
  <2>1. CASE t \in b.txs /\ u \in b.txs
    BY <1>12, <1>13, <2>1
  <2>2. CASE t \in Executed(c) /\ u \in Executed(c)
    BY <1>13, <2>2 DEF NoncesUsedOnce
  <2>3. ASSUME NEW x \in Executed(c), NEW y \in b.txs, x.who = y.who, x.nonce = y.nonce
        PROVE  FALSE
    BY <1>8, <1>9, <2>3
  <2> QED
    BY <1>1, <1>13, <2>1, <2>2, <2>3 DEF Rivals
<1> QED
  BY <1>11, <1>13 DEF NoncesUsedOnce, d

\* The account nonce of a chain is a number.
LEMMA NonceIs ==
    ASSUME NEW c \in Chains, NEW who
    PROVE  account_nonce(c, who) \in Nat
<1>1. {t \in Executed(c) : t.who = who} \in SUBSET Tx
  BY ExecutedIs
<1>2. IsFiniteSet({t \in Executed(c) : t.who = who})
  BY <1>1, FS_Subset, ChainAssumption
<1> QED
  BY <1>2, FS_CardinalityType DEF account_nonce

\* The block that an author puts on its best chain.
LEMMA AuthorIs ==
    ASSUME DiskTypes, PoolTypes, NEW n \in Node, Author(n)
    PROVE  \E b \in Block : /\ b.slot = slot /\ b.txs \subseteq pool[n]
                            /\ execute_block(best[n], b)
                            /\ Imports(n, Append(best[n], b))
<1>1. PICK txs \in SUBSET pool[n] :
          /\ execute_block(best[n], [slot |-> slot, txs |-> txs])
          /\ Imports(n, Append(best[n], [slot |-> slot, txs |-> txs]))
  BY DEF Author
<1>2. [slot |-> slot, txs |-> txs] \in Block
  BY <1>1 DEF Block, DiskTypes, PoolTypes
<1> QED
  BY <1>1, <1>2

\* Blocks appear nowhere but at their author: the others copy them.
LEMMA BlocksComeFrom ==
    ASSUME StorageInv, PoolTypes, [ChainNext]_cvars,
           NEW n \in Node, NEW c, c \in blocks'[n]
    PROVE  \/ \E m \in Node : c \in blocks[m]
           \/ /\ Author(n) /\ best[n] \in blocks[n] /\ best[n] \in Chains
              /\ \E b \in Block : /\ b.slot = slot /\ b.txs \subseteq pool[n]
                                  /\ execute_block(best[n], b)
                                  /\ c = Append(best[n], b)
<1> DEFINE Known == \E m \in Node : c \in blocks[m]
           Made == /\ Author(n) /\ best[n] \in blocks[n] /\ best[n] \in Chains
                   /\ \E b \in Block : /\ b.slot = slot /\ b.txs \subseteq pool[n]
                                       /\ execute_block(best[n], b)
                                       /\ c = Append(best[n], b)
<1>1. DiskTypes /\ \A m \in Node : StorageIsSound(m)
  BY DEF StorageInv
<1>2. ASSUME NEW m \in Node, NEW d, Imports(m, d)
      PROVE  c \in blocks[n] \/ (m = n /\ c = d)
  BY <1>1, <1>2 DEF Imports, DiskTypes
<1>3. ASSUME NEW m \in Node, Author(m) PROVE Known \/ Made
  <2>1. PICK b \in Block : /\ b.slot = slot /\ b.txs \subseteq pool[m]
                           /\ execute_block(best[m], b)
                           /\ Imports(m, Append(best[m], b))
    BY <1>1, <1>3, AuthorIs
  <2>2. CASE c \in blocks[n]
    BY <2>2
  <2>3. CASE m = n /\ c = Append(best[m], b)
    <3>1. best[n] \in blocks[n] /\ best[n] \in Chains
      BY <1>1, DiskIs DEF StorageIsSound
    <3> QED
      BY <1>3, <2>1, <2>3, <3>1
  <2> QED
    BY <1>2, <2>1, <2>2, <2>3
<1>4. ASSUME NEW m \in Node, NEW p \in Node, Sync(m, p) PROVE Known
  <2>1. PICK i \in 1 .. Len(best[p]) :
            /\ Prefix(best[p], i) \in blocks[p]
            /\ Imports(m, Prefix(best[p], i))
    BY <1>4, SyncIs
  <2> QED
    BY <1>2, <2>1
<1>5. ASSUME NEW m \in Node, Finalize(m) \/ RevertBlock(m) PROVE Known
  <2>1. c \in blocks[n]
    BY <1>1, <1>5 DEF Finalize, RevertBlock, BlocksWithoutBest, DiskTypes
  <2> QED
    BY <2>1
<1>6. ASSUME NEW m \in Node, PurgeChain(m) PROVE Known
  <2>1. CASE m # n
    BY <1>1, <1>6, <2>1 DEF PurgeChain, DiskTypes
  <2>2. CASE m = n
    <3>1. c = << >>
      BY <1>1, <1>6, <2>2 DEF PurgeChain, DiskTypes
    <3>2. best[n] \in blocks[n] /\ best[n] \in Chains /\ Len(best[n]) \in Nat
      BY <1>1, DiskIs DEF StorageIsSound
    <3>3. Prefix(best[n], 0) = << >> /\ 0 \in 0 .. Len(best[n])
      BY <3>2, GenesisIsPrefix
    <3>4. << >> \in blocks[n]
      BY <1>1, <3>2, <3>3 DEF StorageIsSound
    <3> QED
      BY <3>1, <3>4
  <2> QED
    BY <2>1, <2>2
<1>7. ASSUME UNCHANGED blocks PROVE Known
  BY <1>7
<1> HIDE DEF Known, Made
<1>8. Known \/ Made
  BY <1>3, <1>4, <1>5, <1>6, <1>7
     DEF ChainNext, cvars, disk, Tick, GrandpaRound, Submit, Gossip, Start, Ends, Fails,
         Command, RevertAux, RevertAborted
<1> QED
  BY <1>8 DEF Known, Made

LEMMA PoolTypesStep ==
    ASSUME StorageInv, PoolTypes, [ChainNext]_cvars
    PROVE  PoolTypes'
<1> USE DEF PoolTypes
<1>1. ASSUME NEW n \in Node, NEW head, NEW finality, Moves(n, head, finality)
      PROVE  PoolTypes'
  <2>1. best[n] \in Chains
    BY DiskIs DEF StorageInv
  <2>2. Executed(best[n]) \subseteq Tx
    BY <2>1, ExecutedIs
  <2>3. PoolAt(n, head) \subseteq Tx
    BY <2>2 DEF PoolAt
  <2> QED
    BY <1>1, <2>3 DEF Moves
<1>2. ASSUME NEW n \in Node,
             \/ Author(n) \/ Finalize(n)
             \/ \E m \in Node : Sync(n, m)
      PROVE  PoolTypes'
  <2>1. CASE Author(n)
    BY <1>1, <2>1 DEF Author, Imports
  <2>2. CASE Finalize(n)
    BY <1>1, <2>2 DEF Finalize
  <2>3. ASSUME NEW m \in Node, Sync(n, m) PROVE PoolTypes'
    BY <1>1, <2>3 DEF Sync, Imports
  <2> QED
    BY <1>2, <2>1, <2>2, <2>3
<1>3. ASSUME NEW n \in Node, NEW t \in Tx, Submit(n, t) PROVE PoolTypes'
  BY <1>3 DEF Submit
<1>4. ASSUME NEW n \in Node, NEW m \in Node, Gossip(n, m) PROVE PoolTypes'
  BY <1>4 DEF Gossip
<1>5. ASSUME NEW n \in Node, Ends(n) PROVE PoolTypes'
  BY <1>5 DEF Ends
<1>6. CASE UNCHANGED <<pool, watched>>
  BY <1>6
<1> QED
  BY <1>2, <1>3, <1>4, <1>5, <1>6
     DEF ChainNext, cvars, memory, Tick, GrandpaRound, Start, Fails,
         Command, RevertAux, RevertBlock, RevertAborted, PurgeChain

\* Every chain that any node keeps went through the runtime block by block.
LedgerInv == \A n \in Node : \A c \in blocks[n] : Ledger(c)

LEMMA LedgerStep ==
    ASSUME StorageInv, PoolTypes, LedgerInv, [ChainNext]_cvars
    PROVE  LedgerInv'
<1>1. ASSUME NEW n \in Node, NEW c, c \in blocks'[n] PROVE Ledger(c)
  <2>1. CASE \E m \in Node : c \in blocks[m]
    BY <2>1 DEF LedgerInv
  <2>2. ASSUME best[n] \in blocks[n], best[n] \in Chains,
               NEW b \in Block, execute_block(best[n], b), c = Append(best[n], b)
        PROVE  Ledger(c)
    <3>1. Front(c) = best[n] /\ Last(c) = b
      BY <2>2, AppendIs
    <3>2. NoncesUsedOnce(c)
      BY <2>2, NoncesGrow DEF LedgerInv, Ledger, execute_block
    <3> QED
      BY <2>2, <3>1, <3>2 DEF Ledger
  <2> QED
    BY <1>1, <2>1, <2>2, BlocksComeFrom
<1> QED
  BY <1>1 DEF LedgerInv

\* What a process remembers.  Its pool has at most one extrinsic for a nonce, and none
\* that its best chain has overtaken, so that giving up a fork cannot bring a rival
\* back into it.  There is no memory where there is no process.
MemoryIsSound(n) ==
    /\ \A t, u \in pool[n] : ~Rivals(t, u)
    /\ \A t \in pool[n] : validate_transaction(best[n], t)
    /\ watched[n] \subseteq pool[n] \union Executed(best[n])
    /\ started[n] = 0 => pool[n] = {} /\ watched[n] = {}

MemoryInv == \A n \in Node : MemoryIsSound(n)

LEMMA MemoryKept ==
    ASSUME NEW n \in Node, MemoryIsSound(n), best'[n] = best[n],
           pool'[n] = pool[n], watched'[n] = watched[n], started'[n] = 0 => started[n] = 0
    PROVE  MemoryIsSound(n)'
<1>1. /\ \A t, u \in pool'[n] : ~Rivals(t, u)
      /\ \A t \in pool'[n] : validate_transaction(best'[n], t)
      /\ watched'[n] \subseteq pool'[n] \union Executed(best'[n])
  BY DEF MemoryIsSound
<1> QED
  BY <1>1 DEF MemoryIsSound

\* A process that takes another head: a rival of what waits is not on the old chain.
LEMMA MemoryMoves ==
    ASSUME StorageInv, LedgerInv, PoolTypes, MemoryInv, UNCHANGED service,
           NEW n \in Node, Running(n) # {},
           NEW head, NEW finality, Moves(n, head, finality)
    PROVE  MemoryInv'
<1>1. /\ best[n] \in Chains /\ NoncesUsedOnce(best[n]) /\ MemoryIsSound(n)
      /\ best \in [Node -> Chains]
  BY DiskIs DEF StorageInv, StorageIsSound, LedgerInv, Ledger, MemoryInv, DiskTypes
<1>2. /\ best'[n] = head /\ pool'[n] = PoolAt(n, head)
      /\ watched'[n] \subseteq watched[n]
      /\ \A t \in watched'[n] : t \in Executed(head) \/ validate_transaction(head, t)
      /\ \A m \in Node : m # n => /\ best'[m] = best[m] /\ pool'[m] = pool[m]
                                  /\ watched'[m] = watched[m]
  BY <1>1 DEF Moves, PoolTypes
<1>3. ASSUME NEW t \in pool[n], NEW u \in Executed(best[n]), t.who = u.who
      PROVE  t.nonce # u.nonce
  <2>1. u.nonce < account_nonce(best[n], u.who)
    BY <1>1 DEF NoncesUsedOnce
  <2>2. t.nonce >= account_nonce(best[n], t.who)
    BY <1>1 DEF MemoryIsSound, validate_transaction
  <2>3. account_nonce(best[n], t.who) \in Nat
    BY <1>1, NonceIs
  <2>4. t.nonce \in Nat /\ u.nonce \in Nat
    BY <1>1, ExecutedIs, ChainAssumption DEF PoolTypes
  <2> QED
    BY <1>3, <2>1, <2>2, <2>3, <2>4
<1>4. \A t, u \in PoolAt(n, head) : ~Rivals(t, u)
  BY <1>1, <1>3 DEF PoolAt, MemoryIsSound, NoncesUsedOnce, Rivals
<1>5. \A t \in PoolAt(n, head) : validate_transaction(head, t)
  BY DEF PoolAt
<1>6. watched'[n] \subseteq PoolAt(n, head) \union Executed(head)
  BY <1>1, <1>2 DEF PoolAt, MemoryIsSound
<1>7. started'[n] # 0
  BY NotRunning DEF service
<1>8. MemoryIsSound(n)'
  BY <1>2, <1>4, <1>5, <1>6, <1>7 DEF MemoryIsSound
<1>9. ASSUME NEW m \in Node, m # n PROVE MemoryIsSound(m)'
  BY <1>2, <1>9, MemoryKept DEF MemoryInv, service
<1> QED
  BY <1>8, <1>9 DEF MemoryInv

\* An extrinsic that the pool takes.
LEMMA MemoryAccepts ==
    ASSUME StorageInv, PoolTypes, MemoryInv, UNCHANGED <<service, best>>,
           NEW n \in Node, NEW t, Accepts(n, t),
           pool' = [pool EXCEPT ![n] = @ \union {t}],
           \/ UNCHANGED watched
           \/ watched' = [watched EXCEPT ![n] = @ \union {t}]
    PROVE  MemoryInv'
<1>1. MemoryIsSound(n)
  BY DEF MemoryInv
<1>2. /\ pool'[n] = pool[n] \union {t} /\ watched'[n] \subseteq watched[n] \union {t}
      /\ \A m \in Node : m # n => pool'[m] = pool[m] /\ watched'[m] = watched[m]
  BY DEF PoolTypes
<1>3. /\ validate_transaction(best[n], t)
      /\ \A u \in pool[n] : ~Rivals(t, u) /\ ~Rivals(u, t)
      /\ ~Rivals(t, t)
  BY DEF Accepts, Rivals
<1>4. started[n] # 0
  BY NotRunning DEF Accepts
<1>5. \A u, w \in pool'[n] : ~Rivals(u, w)
  BY <1>1, <1>2, <1>3 DEF MemoryIsSound
<1>6. \A u \in pool'[n] : validate_transaction(best[n], u)
  BY <1>1, <1>2, <1>3 DEF MemoryIsSound
<1>7. MemoryIsSound(n)'
  BY <1>1, <1>2, <1>4, <1>5, <1>6 DEF MemoryIsSound, service
<1>8. ASSUME NEW m \in Node, m # n PROVE MemoryIsSound(m)'
  BY <1>2, <1>8, MemoryKept DEF MemoryInv, service
<1> QED
  BY <1>7, <1>8 DEF MemoryInv

\* A node whose database is changed while no process runs remembers nothing.
LEMMA MemoryOfNone ==
    ASSUME MemoryInv, NEW n \in Node, started[n] = 0,
           UNCHANGED <<started, pool, watched>>,
           \A m \in Node : m # n => best'[m] = best[m]
    PROVE  MemoryInv'
<1>1. MemoryIsSound(n)'
  BY DEF MemoryInv, MemoryIsSound
<1>2. ASSUME NEW m \in Node, m # n PROVE MemoryIsSound(m)'
  BY <1>2, MemoryKept DEF MemoryInv
<1> QED
  BY <1>1, <1>2 DEF MemoryInv

LEMMA MemoryStep ==
    ASSUME StorageInv, PoolTypes, LedgerInv, MemoryInv, [ChainNext]_cvars
    PROVE  MemoryInv'
<1>1. DiskTypes /\ ServiceTypeOK /\ \A n \in Node : StorageIsSound(n)
  BY DEF StorageInv
<1>2. ASSUME NEW n \in Node, NEW t \in Tx, Submit(n, t) PROVE MemoryInv'
  <2>1. UNCHANGED <<service, best>>
    BY <1>2 DEF Submit, disk
  <2> QED
    BY <1>2, <2>1, MemoryAccepts DEF Submit
<1>3. ASSUME NEW n \in Node, NEW m \in Node, Gossip(n, m) PROVE MemoryInv'
  <2>1. UNCHANGED <<service, best, watched>>
    BY <1>3 DEF Gossip, disk
  <2> QED
    BY <1>3, <2>1, MemoryAccepts DEF Gossip
<1>4. ASSUME NEW n \in Node, Author(n) PROVE MemoryInv'
  <2>1. Running(n) # {} /\ UNCHANGED service
    BY <1>4 DEF Author, MayAuthor
  <2>2. PICK c : Imports(n, c)
    BY <1>4 DEF Author
  <2> QED
    BY <2>1, <2>2, MemoryMoves DEF Imports
<1>5. ASSUME NEW n \in Node, NEW m \in Node, Sync(n, m) PROVE MemoryInv'
  <2>1. Running(n) # {} /\ UNCHANGED service
    BY <1>5 DEF Sync, Follows
  <2>2. PICK c : Imports(n, c)
    BY <1>5 DEF Sync
  <2> QED
    BY <2>1, <2>2, MemoryMoves DEF Imports
<1>6. ASSUME NEW n \in Node, Finalize(n) PROVE MemoryInv'
  <2>1. Running(n) # {} /\ UNCHANGED service
    BY <1>6 DEF Finalize
  <2>2. PICK c : Moves(n, HeadOver(n, c), c)
    BY <1>6 DEF Finalize
  <2> QED
    BY <2>1, <2>2, MemoryMoves
<1>7. ASSUME NEW n \in Node, RevertBlock(n) \/ PurgeChain(n) PROVE MemoryInv'
  <2>1. started[n] = 0
    BY <1>1, <1>7 DEF RevertBlock, PurgeChain, DatabaseFree, StorageIsSound
  <2>2. /\ UNCHANGED <<started, pool, watched>>
        /\ \A m \in Node : m # n => best'[m] = best[m]
    BY <1>1, <1>7 DEF RevertBlock, PurgeChain, service, memory, DiskTypes
  <2> QED
    BY <2>1, <2>2, MemoryOfNone
<1>8. ASSUME NEW n \in Node, Ends(n) PROVE MemoryInv'
  <2>1. /\ pool'[n] = {} /\ watched'[n] = {} /\ UNCHANGED best
        /\ \A m \in Node : m # n => /\ pool'[m] = pool[m] /\ watched'[m] = watched[m]
                                    /\ started'[m] = started[m]
    BY <1>1, <1>8 DEF Ends, Stopped, EssentialTaskFailed, ProcessEnds, PoolTypes,
                      ServiceTypeOK, disk
  <2>2. MemoryIsSound(n)'
    BY <2>1 DEF MemoryIsSound
  <2>3. ASSUME NEW m \in Node, m # n PROVE MemoryIsSound(m)'
    BY <2>1, <2>3, MemoryKept DEF MemoryInv
  <2> QED
    BY <2>2, <2>3 DEF MemoryInv
<1>9. ASSUME UNCHANGED <<best, pool, watched>>,
             \A m \in Node : started'[m] = 0 => started[m] = 0
      PROVE  MemoryInv'
  BY <1>9, MemoryKept DEF MemoryInv
<1>10. ASSUME NEW n \in Node, Start(n) PROVE MemoryInv'
  <2>1. UNCHANGED <<best, pool, watched>>
    BY <1>10 DEF Start, disk
  <2>2. ASSUME NEW m \in Node, started'[m] = 0 PROVE started[m] = 0
    BY <1>1, <1>10, <2>2 DEF Start, new_partial, new_full, ServiceTypeOK
  <2> QED
    BY <1>9, <2>1, <2>2
<1>11. ASSUME UNCHANGED <<started, best, pool, watched>> PROVE MemoryInv'
  BY <1>9, <1>11
<1>12. ASSUME NEW n \in Node, Fails(n) PROVE MemoryInv'
  BY <1>11, <1>12 DEF Fails, TaskEnds, disk, memory
<1>13. ASSUME NEW n \in Node, RevertAux(n) \/ RevertAborted(n) PROVE MemoryInv'
  BY <1>11, <1>13 DEF RevertAux, RevertAborted, disk, memory
<1>14. ASSUME Tick \/ UNCHANGED cvars \/ \E Q \in SUBSET Range(authorities) : GrandpaRound(Q)
       PROVE  MemoryInv'
  BY <1>11, <1>14 DEF Tick, GrandpaRound, cvars, service, disk, memory
<1> QED
  BY <1>2, <1>3, <1>4, <1>5, <1>6, <1>7, <1>8, <1>10, <1>12, <1>13, <1>14
     DEF ChainNext, Command

-----------------------------------------------------------------------------
(* Slots and their blocks. *)

\* Only a node in an authority role runs an Aura worker.
LEMMA AuthorsAre ==
    ASSUME ServiceTypeOK, NEW n \in Node, "aura" \in Running(n)
    PROVE  n \in Authority
<1> SUFFICES ASSUME n \notin Authority PROVE FALSE
    OBVIOUS
<1> DEFINE Other == Task \ {"aura"}
           base == <<"txpool", "import-queue", "network", "rpc">>
           voter == IF n \in EnableGrandpa THEN <<"grandpa-voter">> ELSE << >>
<1>1. base \in Seq(Other)
  BY DEF Task
<1>2. voter \in Seq(Other)
  <2>1. <<"grandpa-voter">> \in Seq(Other) /\ << >> \in Seq(Other)
    BY DEF Task
  <2> QED
    BY <2>1
<1>3. Plan(n) = (base \o << >>) \o voter
  BY DEF Plan
<1>4. "aura" \notin Other
  OBVIOUS
<1> HIDE DEF base, voter, Other
<1>5. base \o << >> \in Seq(Other)
  BY <1>1, ConcatProperties
<1>6. Plan(n) \in Seq(Other)
  BY <1>2, <1>3, <1>5, ConcatProperties
<1>7. PICK i \in 1 .. started[n] : Plan(n)[i] = "aura"
  BY DEF Running
<1>8. i \in 1 .. Len(Plan(n))
  BY <1>7, PlanIs DEF ServiceTypeOK
<1>9. Plan(n)[i] \in Other
  BY <1>6, <1>8
<1> QED
  BY <1>4, <1>7, <1>9

LEMMA SlotAuthorIs ==
    ASSUME slot \in 0 .. MaxSlot
    PROVE  SlotAuthor \in Range(authorities) /\ SlotAuthor \in Node
<1> DEFINE i == 1 + (slot % Len(authorities))
<1>1. Len(authorities) \in {1, 2} /\ DOMAIN authorities = 1 .. Len(authorities)
  <2>1. authorities = <<Alice>> \/ authorities = <<Alice, Bob>>
    BY DEF authorities, development_config_genesis, local_config_genesis
  <2> QED
    BY <2>1
<1>2. i \in DOMAIN authorities
  <2>1. slot \in Nat /\ Len(authorities) \in Nat /\ Len(authorities) > 0
    BY <1>1, ChainAssumption
  <2>2. \A a, k \in Nat : k > 0 => 1 + (a % k) \in 1 .. k
    OBVIOUS
  <2> QED
    BY <1>1, <2>1, <2>2
<1>3. authorities[i] \in Range(authorities)
  BY <1>2 DEF Range
<1> QED
  BY <1>3, AuthoritiesAre DEF SlotAuthor

\* Blocks of later slots do not exist, and an author that is still to make the block of
\* this slot makes its first one.
SlotIsFree ==
    "aura" \in Running(SlotAuthor) /\ SlotAuthor \notin waits =>
        \A m \in Node : \A c \in blocks[m] : c # << >> => LastSlot(c) < slot

SlotsArePast ==
    \A m \in Node : \A c \in blocks[m] :
        LastSlot(c) \in 0 .. slot /\ (c # << >> => LastSlot(c) > 0)

SlotInv == /\ waits \subseteq Authority
           /\ SlotsArePast /\ SlotIsFree /\ OneBlockPerSlot

\* A step in which no block is made.
LEMMA SlotNoBlock ==
    ASSUME SlotInv, UNCHANGED slot, waits' \subseteq Authority,
           \A m \in Node : \A c \in blocks'[m] : \E p \in Node : c \in blocks[p],
           "aura" \in Running(SlotAuthor)' /\ SlotAuthor \notin waits' =>
               "aura" \in Running(SlotAuthor) /\ SlotAuthor \notin waits
    PROVE  SlotInv'
<1>1. SlotAuthor' = SlotAuthor
  BY DEF SlotAuthor
<1>2. SlotsArePast'
  BY DEF SlotInv, SlotsArePast
<1>3. SlotIsFree'
  BY <1>1 DEF SlotInv, SlotIsFree
<1>4. OneBlockPerSlot'
  BY DEF SlotInv, OneBlockPerSlot
<1> QED
  BY <1>2, <1>3, <1>4 DEF SlotInv

LEMMA SlotAuthored ==
    ASSUME StorageInv, PoolTypes, SlotInv, NEW n \in Node, Author(n)
    PROVE  SlotInv'
<1>1. /\ slot \in 0 .. MaxSlot /\ slot \in Nat /\ DiskTypes /\ ServiceTypeOK
      /\ best[n] \in Chains /\ best[n] \in blocks[n]
  BY DiskIs, ChainAssumption DEF StorageInv, DiskTypes, StorageIsSound
<1>2. PICK b \in Block : /\ b.slot = slot /\ execute_block(best[n], b)
                         /\ Imports(n, Append(best[n], b))
  BY <1>1, AuthorIs
<1> DEFINE c == Append(best[n], b)
<1>3. c # << >> /\ LastSlot(c) = slot
  BY <1>1, <1>2, AppendIs DEF LastSlot
<1>4. /\ blocks' = [blocks EXCEPT ![n] = @ \union {c}]
      /\ UNCHANGED slot /\ waits' = waits \union {n}
      /\ n = SlotAuthor /\ "aura" \in Running(n) /\ n \notin waits
  BY <1>2 DEF Imports, Author, MayAuthor
<1> HIDE DEF c
<1>5. ASSUME NEW m \in Node, NEW d \in blocks'[m]
      PROVE  d = c \/ \E p \in Node : d \in blocks[p]
  BY <1>1, <1>4, <1>5 DEF DiskTypes
<1>6. slot > 0
  BY <1>1, <1>2 DEF execute_block, SlotInv, SlotsArePast
<1>7. \A m \in Node : \A d \in blocks[m] : LastSlot(d) < slot
  <2>1. ASSUME NEW m \in Node, NEW d \in blocks[m] PROVE LastSlot(d) < slot
    <3>1. CASE d = << >>
      BY <1>6, <3>1 DEF LastSlot
    <3>2. CASE d # << >>
      BY <1>4, <3>2 DEF SlotInv, SlotIsFree
    <3> QED
      BY <3>1, <3>2
  <2> QED
    BY <2>1
<1>8. SlotsArePast'
  BY <1>1, <1>3, <1>4, <1>5, <1>6 DEF SlotInv, SlotsArePast
<1>9. SlotIsFree'
  <2>1. SlotAuthor' = SlotAuthor
    BY <1>4 DEF SlotAuthor
  <2> QED
    BY <1>4, <2>1 DEF SlotIsFree
<1>10. OneBlockPerSlot'
  <2>1. ASSUME NEW m \in Node, NEW p \in Node, NEW d \in blocks'[m], NEW e \in blocks'[p],
               d # << >>, LastSlot(d) = LastSlot(e)
        PROVE  d = e
    <3>1. CASE d = c /\ e = c
      BY <3>1
    <3>2. CASE d = c /\ e # c
      BY <1>1, <1>3, <1>5, <1>7, <2>1, <3>2 DEF SlotInv, SlotsArePast
    <3>3. CASE d # c /\ e = c
      BY <1>1, <1>3, <1>5, <1>7, <2>1, <3>3 DEF SlotInv, SlotsArePast
    <3>4. CASE d # c /\ e # c
      BY <1>5, <2>1, <3>4 DEF SlotInv, OneBlockPerSlot
    <3> QED
      BY <3>1, <3>2, <3>3, <3>4
  <2> QED
    BY <2>1 DEF OneBlockPerSlot
<1>11. waits' \subseteq Authority
  BY <1>1, <1>4, AuthorsAre DEF SlotInv
<1> QED
  BY <1>8, <1>9, <1>10, <1>11 DEF SlotInv

LEMMA SlotTicks ==
    ASSUME StorageInv, SlotInv, Tick
    PROVE  SlotInv'
<1>1. slot \in Nat /\ slot' = slot + 1 /\ UNCHANGED blocks /\ waits' = {}
  BY ChainAssumption DEF StorageInv, DiskTypes, Tick, disk
<1>2. SlotsArePast'
  BY <1>1 DEF SlotInv, SlotsArePast
<1>3. SlotIsFree'
  BY <1>1 DEF SlotInv, SlotsArePast, SlotIsFree
<1>4. OneBlockPerSlot'
  BY <1>1 DEF SlotInv, OneBlockPerSlot
<1> QED
  BY <1>1, <1>2, <1>3, <1>4 DEF SlotInv

LEMMA SlotStep ==
    ASSUME StorageInv, StorageInv', PoolTypes, SlotInv, [ChainNext]_cvars
    PROVE  SlotInv'
<1>1. /\ ServiceTypeOK /\ ServiceTypeOK' /\ waits \subseteq Authority
      /\ SlotAuthor \in Node
  BY SlotAuthorIs DEF StorageInv, DiskTypes, SlotInv
<1>2. CASE Tick
  BY <1>2, SlotTicks
<1>3. CASE \E n \in Node : Author(n)
  BY <1>3, SlotAuthored
<1> DEFINE sa == SlotAuthor
           RunsNext(n) == {Plan(n)[i] : i \in 1 .. started'[n]} \ ended'[n]
<1>4. ASSUME ~\E n \in Node : Author(n), UNCHANGED slot, waits' \subseteq Authority,
             "aura" \in RunsNext(sa) /\ sa \notin waits' =>
                 "aura" \in Running(sa) /\ sa \notin waits
      PROVE  SlotInv'
  <2>1. SlotAuthor' = sa
    BY <1>4 DEF SlotAuthor
  <2>2. Running(SlotAuthor)' = RunsNext(sa)
    BY <2>1 DEF Running, Plan
  <2> HIDE DEF RunsNext
  <2>3. "aura" \in Running(SlotAuthor)' /\ SlotAuthor \notin waits' =>
            "aura" \in Running(SlotAuthor) /\ SlotAuthor \notin waits
    BY <1>4, <2>1, <2>2
  <2> QED
    BY <1>4, <2>3, BlocksComeFrom, SlotNoBlock
<1>5. ASSUME NEW n \in Node, Start(n), ~\E m \in Node : Author(m) PROVE SlotInv'
  <2>1. /\ UNCHANGED <<slot, ended>>
        /\ \A m \in Node : m # n => started'[m] = started[m]
    BY <1>1, <1>5 DEF Start, new_partial, new_full, ServiceTypeOK
  <2>2. /\ waits \subseteq waits' /\ waits' \subseteq waits \union {n}
        /\ "aura" \in RunsNext(n) \ Running(n) => n \in waits'
        /\ waits' # waits => "aura" \in RunsNext(n)
    BY <1>5 DEF Start, AuraStarts, Running, Plan
  <2>3. "aura" \in RunsNext(n) => n \in Authority
    <3>1. (ServiceTypeOK /\ "aura" \in Running(n) => n \in Authority)'
      BY AuthorsAre, PTL
    <3> QED
      BY <1>1, <3>1 DEF Running, Plan
  <2>4. sa # n => RunsNext(sa) = Running(sa)
    BY <1>1, <2>1 DEF Running
  <2> HIDE DEF RunsNext
  <2> QED
    BY <1>1, <1>4, <1>5, <2>1, <2>2, <2>3, <2>4
<1>6. ASSUME NEW n \in Node, Ends(n), ~\E m \in Node : Author(m) PROVE SlotInv'
  <2>1. /\ UNCHANGED slot /\ waits' = waits \ {n} /\ started'[n] = 0
        /\ \A m \in Node : m # n => started'[m] = started[m] /\ ended'[m] = ended[m]
    BY <1>1, <1>6 DEF Ends, Stopped, EssentialTaskFailed, ProcessEnds, ServiceTypeOK
  <2>2. RunsNext(n) = {} /\ (sa # n => RunsNext(sa) = Running(sa))
    BY <1>1, <2>1 DEF Running
  <2> HIDE DEF RunsNext
  <2> QED
    BY <1>1, <1>4, <1>6, <2>1, <2>2
<1>7. ASSUME ~\E n \in Node : Author(n), UNCHANGED <<slot, started, waits>>,
             \A m \in Node : ended[m] \subseteq ended'[m]
      PROVE  SlotInv'
  <2>1. RunsNext(sa) \subseteq Running(sa)
    BY <1>1, <1>7 DEF Running
  <2> HIDE DEF RunsNext
  <2> QED
    BY <1>1, <1>4, <1>7, <2>1
<1>8. ASSUME NEW n \in Node, Fails(n), ~\E m \in Node : Author(m) PROVE SlotInv'
  <2>1. /\ UNCHANGED <<slot, started, waits>>
        /\ \A m \in Node : ended[m] \subseteq ended'[m]
    BY <1>1, <1>8 DEF Fails, TaskEnds, memory, ServiceTypeOK
  <2> QED
    BY <1>7, <1>8, <2>1
<1>9. ASSUME NEW n \in Node, Command(n), ~\E m \in Node : Author(m) PROVE SlotInv'
  <2>1. UNCHANGED <<slot, started, ended, waits>>
    BY <1>9 DEF Command, RevertAux, RevertBlock, RevertAborted, PurgeChain, service, memory
  <2> QED
    BY <1>7, <1>9, <2>1
<1>10. ASSUME NEW n \in Node, ~\E m \in Node : Author(m),
              \/ \E t \in Tx : Submit(n, t)
              \/ \E m \in Node : Gossip(n, m) \/ Sync(n, m)
              \/ Finalize(n)
       PROVE  SlotInv'
  <2>1. UNCHANGED <<slot, started, ended, waits>>
    BY <1>10 DEF Submit, Gossip, Sync, Finalize, service
  <2> QED
    BY <1>7, <1>10, <2>1
<1>11. ASSUME ~\E m \in Node : Author(m),
              UNCHANGED cvars \/ \E Q \in SUBSET Range(authorities) : GrandpaRound(Q)
       PROVE  SlotInv'
  <2>1. UNCHANGED <<slot, started, ended, waits>>
    BY <1>11 DEF GrandpaRound, cvars, service, memory
  <2> QED
    BY <1>7, <1>11, <2>1
<1> QED
  BY <1>2, <1>3, <1>5, <1>6, <1>8, <1>9, <1>10, <1>11 DEF ChainNext

-----------------------------------------------------------------------------
(* The inductive invariant. *)

ChainInv == StorageInv /\ PoolTypes /\ LedgerInv /\ MemoryInv /\ SlotInv

LEMMA ChainInitial == ChainInit => ChainInv
<1> SUFFICES ASSUME ChainInit PROVE ChainInv
    OBVIOUS
<1>1. StorageInv /\ PoolTypes
  BY StorageInitial DEF PoolTypes, ChainInit
<1>2. Executed(<< >>) = {}
  BY DEF Executed
<1>3. LedgerInv
  BY <1>2 DEF ChainInit, LedgerInv, Ledger, NoncesUsedOnce
<1>4. ASSUME NEW n \in Node PROVE MemoryIsSound(n)
  <2>1. pool[n] = {} /\ watched[n] = {}
    BY DEF ChainInit
  <2> QED
    BY <2>1 DEF MemoryIsSound
<1>5. SlotInv
  BY DEF ChainInit, SlotInv, SlotsArePast, SlotIsFree, OneBlockPerSlot, LastSlot
<1> QED
  BY <1>1, <1>3, <1>4, <1>5 DEF ChainInv, MemoryInv

LEMMA ChainInductive == ChainInv /\ [ChainNext]_cvars => ChainInv'
<1> SUFFICES ASSUME ChainInv, [ChainNext]_cvars PROVE ChainInv'
    OBVIOUS
<1>1. StorageInv' /\ PoolTypes'
  BY StorageStep, PoolTypesStep DEF ChainInv
<1> QED
  BY <1>1, LedgerStep, MemoryStep, SlotStep DEF ChainInv

LEMMA ChainIsSound == ChainSpecification => []ChainInv
BY ChainInitial, ChainInductive, PTL DEF ChainSpecification

\* Every database is closed under parents, holds only blocks that the runtime took and
\* none from the future; no pool holds two rivals; only nodes in an authority role
\* have an Aura worker that waits: for any nodes, extrinsics, faults and commands.
THEOREM ChainTypeCorrect == ChainSpecification => []ChainTypeOK
<1>1. ChainInv => ChainTypeOK
  <2> SUFFICES ASSUME ChainInv PROVE ChainTypeOK
      OBVIOUS
  <2>1. /\ ServiceTypeOK /\ slot \in 0 .. MaxSlot
        /\ blocks \in [Node -> SUBSET Seq(Block)]
        /\ {best, final, vote} \subseteq [Node -> Seq(Block)]
        /\ {pool, watched} \subseteq [Node -> SUBSET Tx]
        /\ waits \subseteq Authority
    BY DEF ChainInv, StorageInv, DiskTypes, Chains, PoolTypes, SlotInv
  <2>2. ASSUME NEW n \in Node, NEW c \in blocks[n], c # << >>
        PROVE  /\ Front(c) \in blocks[n] /\ execute_block(Front(c), Last(c))
               /\ LastSlot(c) <= slot
    <3>1. /\ c \in Chains /\ Len(c) \in Nat /\ StorageIsSound(n) /\ Ledger(c)
          /\ LastSlot(c) \in 0 .. slot
      BY DiskIs DEF ChainInv, StorageInv, LedgerInv, SlotInv, SlotsArePast, Chains
    <3>2. Len(c) # 0
      BY <2>2, <3>1, GenesisIsPrefix
    <3>3. Front(c) \in blocks[n]
      <4>1. Len(c) - 1 \in 0 .. Len(c)
        BY <3>1, <3>2
      <4> QED
        BY <3>1, <4>1 DEF Front, Prefix, StorageIsSound
    <3> QED
      BY <2>1, <2>2, <3>1, <3>3 DEF Ledger
  <2>3. ASSUME NEW n \in Node
        PROVE  /\ {best[n], final[n]} \subseteq blocks[n]
               /\ \A t, u \in pool[n] : ~Rivals(t, u)
    BY DEF ChainInv, StorageInv, StorageIsSound, MemoryInv, MemoryIsSound
  <2> QED
    BY <2>1, <2>2, <2>3 DEF ChainTypeOK
<1> QED
  BY <1>1, ChainIsSound, PTL

\* A node builds on what it holds final, and its voter on a block that its database
\* still has, also when `revert` is interrupted at any block and the node then
\* started: the blocks that it takes off are above the new vote.
THEOREM HeadsStaySound == ChainSpecification => []HeadsAreSound
<1>1. ASSUME ChainInv PROVE HeadsAreSound
  <2>1. ASSUME NEW n \in Node
        PROVE  /\ IsPrefix(final[n], best[n]) /\ IsPrefix(final[n], vote[n])
               /\ vote[n] \in blocks[n]
    <3>1. StorageIsSound(n)
      BY <1>1 DEF ChainInv, StorageInv
    <3> QED
      BY <3>1 DEF StorageIsSound
  <2> QED
    BY <2>1, Zenon DEF HeadsAreSound
<1> QED
  BY <1>1, ChainIsSound, PTL

\* No slot gets a second block, though Aura keeps no record of the slots it authored
\* in: not by a restart, a revert or a purge within the slot.
THEOREM OneBlockInASlot == ChainSpecification => []OneBlockPerSlot
<1>1. ChainInv => OneBlockPerSlot
  BY DEF ChainInv, SlotInv
<1> QED
  BY <1>1, ChainIsSound, PTL

\* While its process lives, a node loses no extrinsic that somebody watches: the forks
\* it leaves give theirs back to the pool.
THEOREM NothingIsForgotten == ChainSpecification => []NothingForgotten
<1>1. ASSUME ChainInv PROVE NothingForgotten
  <2>1. ASSUME NEW n \in Node
        PROVE  watched[n] \subseteq pool[n] \union Executed(best[n])
    <3>1. MemoryIsSound(n)
      BY <1>1 DEF ChainInv, MemoryInv
    <3> QED
      BY <3>1 DEF MemoryIsSound
  <2> QED
    BY <2>1, Zenon DEF NothingForgotten
<1> QED
  BY <1>1, ChainIsSound, PTL

-----------------------------------------------------------------------------
(* Finality. *)

\* With one or two authorities, more than two thirds of them are all of them.
LEMMA SupermajorityIsAll ==
    ASSUME NEW S, S \subseteq Range(authorities), Supermajority(S)
    PROVE  S = Range(authorities)
<1> DEFINE R == Range(authorities)
<1>1. IsFiniteSet(R) /\ Len(authorities) \in {1, 2} /\ Cardinality(R) <= Len(authorities)
  BY AuthoritiesAre
<1>2. S \in SUBSET R
  OBVIOUS
<1>3. /\ IsFiniteSet(S) /\ Cardinality(S) <= Cardinality(R)
      /\ Cardinality(S) = Cardinality(R) => S = R
      /\ Cardinality(S) \in Nat /\ Cardinality(R) \in Nat
  <2> HIDE DEF R
  <2> QED
    BY <1>1, <1>2, FS_Subset, FS_CardinalityType
<1> HIDE DEF R
<1>4. 3 * Cardinality(S) > 2 * Len(authorities)
  BY DEF Supermajority
<1>5. \A s, r \in Nat, len \in {1, 2} : s <= r /\ r <= len /\ 3 * s > 2 * len => s = r
  OBVIOUS
<1> QED
  BY <1>1, <1>3, <1>4, <1>5 DEF R

\* What a node may take as final: every authority's vote is on it, or a peer has it.
LEMMA JustifiedIs ==
    ASSUME NEW n \in Node, NEW c \in Justified(n)
    PROVE  \/ \A q \in Range(authorities) : IsPrefix(c, vote[q])
           \/ \E m \in Node : final[m] = c
<1> DEFINE votes == {q \in Range(authorities) : Votes(q) /\ IsPrefix(c, vote[q])}
<1>1. Supermajority(votes) \/ \E m \in Node : final[m] = c
  BY DEF Justified
<1>2. votes \subseteq Range(authorities) /\ \A q \in votes : IsPrefix(c, vote[q])
  OBVIOUS
<1> HIDE DEF votes
<1> QED
  BY <1>1, <1>2, SupermajorityIsAll

\* How a step changes what nodes hold final.
LEMMA FinalComesFrom ==
    ASSUME StorageInv, [ChainNext]_cvars, NEW n \in Node
    PROVE  \/ final'[n] = final[n]
           \/ final'[n] = << >>
           \/ \A q \in Range(authorities) : IsPrefix(final'[n], vote[q])
           \/ \E m \in Node : final'[n] = final[m]
<1>1. final \in [Node -> Chains]
  BY DEF StorageInv, DiskTypes
<1>2. ASSUME NEW m \in Node, Author(m) \/ \E p \in Node : Sync(m, p)
      PROVE  final'[n] = final[n]
  <2>1. final' = [final EXCEPT ![m] = final[m]]
    BY <1>2 DEF Author, Sync, Imports, Moves
  <2> QED
    BY <1>1, <2>1
<1>3. ASSUME NEW m \in Node, PurgeChain(m)
      PROVE  final'[n] = final[n] \/ final'[n] = << >>
  BY <1>1, <1>3 DEF PurgeChain
<1>4. ASSUME NEW m \in Node, Finalize(m)
      PROVE  \/ final'[n] = final[n]
             \/ \A q \in Range(authorities) : IsPrefix(final'[n], vote[q])
             \/ \E p \in Node : final'[n] = final[p]
  <2>1. PICK c \in Justified(m) : final' = [final EXCEPT ![m] = c]
    BY <1>4 DEF Finalize, Moves
  <2>2. final'[n] = IF n = m THEN c ELSE final[n]
    BY <1>1, <2>1
  <2> QED
    BY <2>2, JustifiedIs
<1>5. CASE UNCHANGED final
  BY <1>5
<1> QED
  BY <1>2, <1>3, <1>4, <1>5
     DEF ChainNext, cvars, disk, Tick, GrandpaRound, Submit, Gossip, Start, Ends, Fails,
         Command, RevertAux, RevertBlock, RevertAborted

\* An authority that no command touches is never bound to less than it was.
LEMMA VoteGrows ==
    ASSUME StorageInv, [ChainNext]_cvars,
           NEW q \in Range(authorities), [~Command(q)]_cvars
    PROVE  \/ IsPrefix(vote[q], vote'[q])
           \/ /\ Finalize(q)
              /\ \E c \in Justified(q) : /\ ~IsPrefix(c, vote[q])
                                         /\ vote'[q] = c
<1>1. /\ q \in Node /\ vote \in [Node -> Chains] /\ vote[q] \in Chains
      /\ IsPrefix(vote[q], vote[q])
  BY AuthoritiesAre, DiskIs, PrefixReflexive DEF StorageInv, DiskTypes
<1>2. ASSUME NEW Q \in SUBSET Range(authorities), GrandpaRound(Q)
      PROVE  IsPrefix(vote[q], vote'[q])
  BY <1>1, <1>2, RoundBinds
<1>3. ASSUME NEW n \in Node, Finalize(n), n # q
      PROVE  vote'[q] = vote[q]
  BY <1>1, <1>3 DEF Finalize
<1>4. CASE Finalize(q)
  <2>1. PICK c \in Justified(q) : vote' = [vote EXCEPT ![q] = BoundOver(q, c)]
    BY <1>4 DEF Finalize
  <2>2. vote'[q] = BoundOver(q, c)
    BY <1>1, <2>1
  <2> QED
    BY <1>1, <1>4, <2>2 DEF BoundOver
<1>5. ASSUME NEW n \in Node, Command(n), n # q PROVE vote'[q] = vote[q]
  BY <1>1, <1>5 DEF Command, RevertAux, RevertBlock, RevertAborted, PurgeChain, disk
<1>6. ASSUME Command(q) PROVE UNCHANGED vote
  BY <1>6 DEF cvars, disk
<1>7. ASSUME NEW n \in Node, Author(n) \/ \E m \in Node : Sync(n, m)
      PROVE  UNCHANGED vote
  BY <1>7 DEF Author, Sync, Imports
<1>8. ASSUME NEW n \in Node,
             \/ \E t \in Tx : Submit(n, t)
             \/ \E m \in Node : Gossip(n, m)
             \/ Start(n) \/ Ends(n) \/ Fails(n)
      PROVE  UNCHANGED vote
  BY <1>8 DEF Submit, Gossip, Start, Ends, Fails, disk
<1>9. ASSUME Tick \/ UNCHANGED cvars PROVE UNCHANGED vote
  BY <1>9 DEF Tick, cvars, disk
<1>10. CASE UNCHANGED vote
  BY <1>1, <1>10
<1> QED
  BY <1>1, <1>2, <1>3, <1>4, <1>5, <1>6, <1>7, <1>8, <1>9, <1>10 DEF ChainNext

\* Whatever any node holds final, q is bound to it.
FinalIsBound(q) == \A n \in Node : IsPrefix(final[n], vote[q])

LEMMA FinalIsBoundStep ==
    ASSUME StorageInv, StorageInv', [ChainNext]_cvars,
           NEW q \in Range(authorities), [~Command(q)]_cvars, FinalIsBound(q)
    PROVE  FinalIsBound(q)'
<1>1. q \in Node /\ vote[q] \in Chains /\ vote'[q] \in Chains
  <2>1. q \in Node
    BY AuthoritiesAre
  <2> QED
    BY <2>1 DEF StorageInv, DiskTypes
<1>2. \A c \in Justified(q) : IsPrefix(c, vote[q])
  BY <1>1, JustifiedIs DEF FinalIsBound
<1>3. IsPrefix(vote[q], vote'[q])
  BY <1>2, VoteGrows
<1>4. ASSUME NEW n \in Node PROVE IsPrefix(final'[n], vote'[q])
  <2>1. final'[n] \in Chains
    BY DEF StorageInv, DiskTypes
  <2>2. IsPrefix(final'[n], vote[q])
    BY <1>1, FinalComesFrom, GenesisIsPrefix DEF FinalIsBound
  <2> QED
    BY <1>1, <1>3, <2>1, <2>2, PrefixTransitive
<1> QED
  BY <1>4 DEF FinalIsBound

\* Finality is never contradicted as long as one authority is neither reverted nor
\* purged, for any number of nodes, whoever of the others is stopped, reverted or
\* purged: GRANDPA needs the votes of both authorities of the presets, and the voter
\* state of one that keeps it is bound to all that anyone holds final.
THEOREM FinalityAgrees ==
    ASSUME NEW q \in Range(authorities)
    PROVE  ChainSpecification /\ [][~Command(q)]_cvars => []FinalAgree
<1>1. ChainInit => FinalIsBound(q)
  <2> SUFFICES ASSUME ChainInit, NEW n \in Node PROVE IsPrefix(final[n], vote[q])
      BY Zenon DEF FinalIsBound
  <2>1. final[n] = << >> /\ vote[q] = << >> /\ << >> \in Chains
    BY AuthoritiesAre, GenesisIsPrefix DEF ChainInit
  <2> QED
    BY <2>1, GenesisIsPrefix
<1>2. /\ ChainInv /\ ChainInv' /\ FinalIsBound(q)
      /\ [ChainNext]_cvars /\ [~Command(q)]_cvars
      => FinalIsBound(q)'
  BY FinalIsBoundStep DEF ChainInv
<1>3. ChainInv /\ FinalIsBound(q) => FinalAgree
  <2> SUFFICES ASSUME ChainInv, FinalIsBound(q), NEW n \in Node, NEW m \in Node
               PROVE  IsPrefix(final[n], final[m]) \/ IsPrefix(final[m], final[n])
      BY DEF FinalAgree
  <2>1. q \in Node
    BY AuthoritiesAre
  <2>2. final[n] \in Chains /\ final[m] \in Chains /\ vote[q] \in Chains
    BY <2>1, DiskIs DEF ChainInv, StorageInv
  <2> QED
    BY <2>2, PrefixesOfOne DEF FinalIsBound
<1> QED
  BY <1>1, <1>2, <1>3, ChainIsSound, PTL DEF ChainSpecification

\* Finality is never contradicted in a network of authorities alone, whichever of them
\* are stopped, reverted or purged, even all of them: what is final at a node is
\* below its own vote, and a round goes on from the highest of the votes.
THEOREM FinalityOfAuthoritiesAgrees ==
    ASSUME Node \subseteq Range(authorities)
    PROVE  ChainSpecification => []FinalAgree
<1>1. ChainInit => FinalAgree
  <2>1. << >> \in Chains
    BY GenesisIsPrefix
  <2>2. IsPrefix(<< >>, << >>)
    BY <2>1, PrefixReflexive
  <2>3. ASSUME ChainInit, NEW n \in Node PROVE final[n] = << >>
    BY <2>3 DEF ChainInit
  <2> QED
    BY <2>2, <2>3 DEF FinalAgree
<1>2. ASSUME ChainInv, FinalAgree, [ChainNext]_cvars PROVE FinalAgree'
  <2>1. ASSUME NEW n \in Node
        PROVE  final[n] \in Chains /\ final'[n] \in Chains /\ vote[n] \in Chains
    <3>1. StorageInv /\ StorageInv'
      BY <1>2, ChainInductive DEF ChainInv
    <3> QED
      BY <3>1 DEF StorageInv, DiskTypes
  <2>2. ASSUME NEW n \in Node, NEW m \in Node
        PROVE  IsPrefix(final'[n], final[m]) \/ IsPrefix(final[m], final'[n])
    <3>1. CASE \E p \in Node : final'[n] = final[p]
      BY <1>2, <3>1 DEF FinalAgree
    <3>2. CASE final'[n] = << >>
      BY <2>1, <3>2, GenesisIsPrefix
    <3>3. CASE \A q \in Range(authorities) : IsPrefix(final'[n], vote[q])
      <4>1. IsPrefix(final'[n], vote[m])
        BY <3>3
      <4>2. IsPrefix(final[m], vote[m])
        BY <1>2 DEF ChainInv, StorageInv, StorageIsSound
      <4> QED
        BY <2>1, <4>1, <4>2, PrefixesOfOne
    <3> QED
      BY <1>2, <3>1, <3>2, <3>3, FinalComesFrom DEF ChainInv
  <2>3. ASSUME NEW n \in Node, NEW m \in Node
        PROVE  IsPrefix(final'[n], final'[m]) \/ IsPrefix(final'[m], final'[n])
    <3>1. CASE \E p \in Node : final'[n] = final[p] \/ final'[m] = final[p]
      BY <2>2, <3>1
    <3>2. CASE final'[n] = << >> \/ final'[m] = << >>
      BY <2>1, <3>2, GenesisIsPrefix
    <3>3. CASE \A q \in Range(authorities) : /\ IsPrefix(final'[n], vote[q])
                                            /\ IsPrefix(final'[m], vote[q])
      <4>1. IsPrefix(final'[n], vote[m]) /\ IsPrefix(final'[m], vote[m])
        BY <3>3
      <4> QED
        BY <2>1, <4>1, PrefixesOfOne
    <3> QED
      BY <1>2, <3>1, <3>2, <3>3, FinalComesFrom DEF ChainInv
  <2> QED
    BY <2>3 DEF FinalAgree
<1> QED
  BY <1>1, <1>2, ChainIsSound, PTL DEF ChainSpecification

=============================================================================
