------------------------------- MODULE Chain --------------------------------
(***************************************************************************)
(* The chain that the nodes of service.rs make: Aura authors, the import   *)
(* queue and LongestChain choose a best chain, GRANDPA finalizes, the pool *)
(* holds what waits.  These parts belong to the SDK and are modelled from  *)
(* how new_full configures and joins them, with the runtime APIs they call.*)
(*                                                                         *)
(* A block is what it holds, and a chain the sequence of its blocks, so a  *)
(* chain is its own hash and << >> is genesis.  There are no messages: a   *)
(* node reads its peers' state in a step of its own, at any time.  Slots   *)
(* pass for all nodes at once (clocks that differ are not modelled).       *)
(***************************************************************************)
EXTENDS NodeService, FiniteSets, SequencesExt

CONSTANTS Alice, Bob,     \* the authorities of the genesis presets
          ChainSpec,      \* "dev" or "local_testnet"
          ForceAuthoring, \* config.force_authoring
          VoteLag,        \* blocks the voting rule stays behind the best one
          Endpoint,       \* the nodes whose RPC the users' clients call
          Tx,             \* the signed extrinsics they submit
          MaxSlot         \* bounds time

ASSUME ChainAssumption ==
    /\ {Alice, Bob} \union Endpoint \subseteq Node
    /\ ChainSpec \in {"dev", "local_testnet"}
    /\ ForceAuthoring \in BOOLEAN
    /\ VoteLag \in Nat /\ MaxSlot \in Nat
    /\ IsFiniteSet(Tx) /\ \A t \in Tx : t.nonce \in Nat

VARIABLES slot,      \* the current Aura slot
          blocks,    \* each node's database: the chains it has imported
          best,      \* and its best chain,
          final,     \* its finalized chain,
          vote,      \* the chain that its GRANDPA voter state is bound to
          pool,      \* in memory: the transaction pool,
          watched,   \* the extrinsics of submit-and-watch subscriptions,
          waits      \* and the nodes whose Aura worker is done with this slot

disk == <<blocks, best, final, vote>>
memory == <<pool, watched, waits>>
cvars == <<service, slot, disk, memory>>

development_config_genesis == <<Alice>>
local_config_genesis == <<Alice, Bob>>

\* The Aura and GRANDPA authorities: the same accounts, GRANDPA weight 1 each.
authorities == IF ChainSpec = "dev" THEN development_config_genesis
                                    ELSE local_config_genesis

SlotAuthor == authorities[1 + (slot % Len(authorities))]
-----------------------------------------------------------------------------
(* What a chain says. *)

Executed(c) == UNION {c[i].txs : i \in DOMAIN c}

account_nonce(c, who) == Cardinality({t \in Executed(c) : t.who = who})

MUT_validate_transaction(c, t) == t \notin Executed(c)

\* CheckNonce: neither used nor overtaken.  A later nonce waits in the pool.
validate_transaction(c, t) == t.nonce >= account_nonce(c, t.who)

\* Some order of txs has every nonce where it is due.
apply_extrinsics(c, txs) ==
    \A t \in txs :
        LET own == {u \in txs : u.who = t.who}
            due == account_nonce(c, t.who)
        IN  {u.nonce : u \in own} = due .. (due + Cardinality(own) - 1)

\* The slot of the last block; genesis is before slot 1.
LastSlot(c) == IF c = << >> THEN 0 ELSE Last(c).slot

\* AllowMultipleBlocksPerSlot is false: a block's slot is after its parent's.
execute_block(c, b) == b.slot > LastSlot(c) /\ apply_extrinsics(c, b.txs)

Prefix(c, length) == SubSeq(c, 1, length)

Rivals(t, u) == t # u /\ t.who = u.who /\ t.nonce = u.nonce
-----------------------------------------------------------------------------
Block == [slot : 0 .. MaxSlot, txs : SUBSET Tx]

ChainTypeOK ==
    /\ ServiceTypeOK
    /\ slot \in 0 .. MaxSlot
    /\ blocks \in [Node -> SUBSET Seq(Block)]
    /\ {best, final, vote} \subseteq [Node -> Seq(Block)]
    /\ {pool, watched} \subseteq [Node -> SUBSET Tx]
    /\ \A n \in Node :
        /\ {best[n], final[n]} \subseteq blocks[n]
        /\ \A c \in blocks[n] : c # << >> =>
               /\ Front(c) \in blocks[n]
               /\ execute_block(Front(c), Last(c))
               /\ LastSlot(c) <= slot
        /\ \A t, u \in pool[n] : ~Rivals(t, u)
    /\ waits \subseteq Authority

ChainInit == /\ ServiceInit
             /\ slot = 0
             /\ blocks = [n \in Node |-> {<< >>}]
             /\ best = [n \in Node |-> << >>]
             /\ final = [n \in Node |-> << >>]
             /\ vote = [n \in Node |-> << >>]
             /\ pool = [n \in Node |-> {}]
             /\ watched = [n \in Node |-> {}]
             /\ waits = {}
-----------------------------------------------------------------------------
(* The pool and the node's view of the chain. *)

Accepts(n, t) == /\ {"txpool", "network"} \subseteq Running(n)
                 /\ t \notin pool[n]
                 /\ validate_transaction(best[n], t)
                 /\ \A u \in pool[n] : ~Rivals(t, u)

\* system_accountNextIndex counts what waits in the pool, too.
account_nextIndex(n, who) ==
    account_nonce(best[n], who) + Cardinality({t \in pool[n] : t.who = who})

\* author_submitAndWatchExtrinsic, of an extrinsic signed for a nonce that the node
\* told: the runtime's, or the RPC's.
Submit(n, t) == /\ n \in Endpoint /\ "rpc" \in Running(n)
                /\ t.nonce \in {account_nonce(best[n], t.who),
                               account_nextIndex(n, t.who)}
                /\ Accepts(n, t)
                /\ pool' = [pool EXCEPT ![n] = @ \union {t}]
                /\ watched' = [watched EXCEPT ![n] = @ \union {t}]
                /\ UNCHANGED <<service, slot, disk, waits>>

Connected(n, m) == n # m /\ "network" \in Running(n) /\ "network" \in Running(m)

Gossip(n, m) == /\ Connected(n, m)
                /\ \E t \in pool[m] :
                       /\ Accepts(n, t)
                       /\ pool' = [pool EXCEPT ![n] = @ \union {t}]
                /\ UNCHANGED <<service, slot, disk, watched, waits>>

MUT_PoolAt(n, head) == {t \in pool[n] : validate_transaction(head, t)}

\* The pool on a new best chain: what the old one executed and the new one did
\* not is submitted again, what the new one executed or overtook is dropped.
PoolAt(n, head) ==
    {t \in pool[n] \union Executed(best[n]) : validate_transaction(head, t)}

\* The node moves to another head and finality.  A subscription ends when its
\* extrinsic is final, or when a rival took its nonce.
Moves(n, head, finality) ==
    /\ best' = [best EXCEPT ![n] = head]
    /\ final' = [final EXCEPT ![n] = finality]
    /\ pool' = [pool EXCEPT ![n] = PoolAt(n, head)]
    /\ watched' = [watched EXCEPT ![n] =
           {t \in @ \ Executed(finality) :
               t \in Executed(head) \/ validate_transaction(head, t)}]

\* LongestChain, among the chains that keep what is final; the first one stays.
Prefers(n, c) == Len(c) > Len(best[n])

Imports(n, c) ==
    /\ blocks' = [blocks EXCEPT ![n] = @ \union {c}]
    /\ Moves(n, IF Prefers(n, c) THEN c ELSE best[n], final[n])
    /\ UNCHANGED vote
-----------------------------------------------------------------------------
(* Aura. *)

\* The sync oracle: an authority that is one of several and has no peer waits.
Offline(n) == \A m \in Node : ~Connected(n, m)

MayAuthor(n) == /\ "aura" \in Running(n)
                /\ n = SlotAuthor
                /\ n \notin waits
                /\ ForceAuthoring \/ Len(authorities) = 1 \/ ~Offline(n)

Author(n) ==
    /\ MayAuthor(n)
    /\ \E txs \in SUBSET pool[n] :
           LET block == [slot |-> slot, txs |-> txs]
           IN  /\ execute_block(best[n], block)
               /\ Imports(n, Append(best[n], block))
    /\ waits' = waits \union {n}
    /\ UNCHANGED <<service, slot>>

\* The node's import queue gets what a peer has.
Follows(n, m) == Connected(n, m) /\ "import-queue" \in Running(n)

\* It takes the next block of the peer's best chain.
Sync(n, m) ==
    /\ Follows(n, m)
    /\ \E i \in DOMAIN best[m] :
           LET c == Prefix(best[m], i)
           IN  /\ c \notin blocks[n] /\ Prefix(c, i - 1) \in blocks[n]
               /\ IsPrefix(final[n], c)
               /\ execute_block(Prefix(c, i - 1), c[i])
               /\ Imports(n, c)
    /\ UNCHANGED <<service, slot, waits>>
-----------------------------------------------------------------------------
(* GRANDPA. *)

MUT_Supermajority(Q) == 2 * Cardinality(Q) >= Len(authorities)

Supermajority(Q) == 3 * Cardinality(Q) > 2 * Len(authorities)

\* The voter needs a keystore, which only authorities get, and a key in it.
Votes(n) == /\ {"grandpa-voter", "network"} \subseteq Running(n)
            /\ n \in Authority \intersect Range(authorities)

\* The voting rule keeps VoteLag blocks behind the best chain over the base and
\* within the first three quarters of what is not final, but not below the base.
VoteFor(n, base, c) ==
    LET extra == Len(c) - Len(base)
        ahead == Min({extra - VoteLag, (3 * extra + 2) \div 4})
    IN  Prefix(c, Len(base) + Max({0, ahead}))

Longest(S) == {c \in S : \A d \in S : Len(d) <= Len(c)}

Over(n, base) == {c \in blocks[n] : IsPrefix(base, c)}

\* A round of voters whose states meet in one base.  Each votes for a chain over
\* it, and all are bound to what the votes have in common.
GrandpaRound(Q) ==
    /\ Supermajority(Q) /\ \A n \in Q : Votes(n)
    /\ \E base \in {vote[n] : n \in Q} :
        /\ \A n \in Q : IsPrefix(vote[n], base) /\ base \in blocks[n]
        /\ \E choice \in [Q -> UNION {Longest(Over(n, base)) : n \in Q}] :
            /\ \A n \in Q : choice[n] \in Longest(Over(n, base))
            /\ LET common == LongestCommonPrefix(
                                 {VoteFor(n, base, choice[n]) : n \in Q})
               IN  vote' = [n \in Node |-> IF n \in Q THEN common ELSE vote[n]]
    /\ vote' # vote
    /\ UNCHANGED <<service, slot, blocks, best, final, memory>>

\* Chains of which a node can see that they are final: the votes of a
\* supermajority, or a peer's commit message.
Justified(n) ==
    LET votes(c) == {q \in Range(authorities) : Votes(q) /\ IsPrefix(c, vote[q])}
    IN  {c \in blocks[n] : \/ Supermajority(votes(c))
                           \/ \E m \in Node : Connected(n, m) /\ final[m] = c}

MUT_HeadOver(n, c) == best[n]

\* A best chain without the finalized block is given up for that block.
HeadOver(n, c) == IF IsPrefix(c, best[n]) THEN best[n] ELSE c

\* A voter that is behind the round that finalized c catches up with it.
BoundOver(n, c) == IF IsPrefix(c, vote[n]) THEN vote[n] ELSE c

Finalize(n) ==
    /\ {"grandpa-voter", "network"} \subseteq Running(n)
    /\ \E c \in Justified(n) :
        /\ Len(c) > Len(final[n]) /\ IsPrefix(final[n], c)
        /\ Moves(n, HeadOver(n, c), c)
        /\ blocks' = [blocks EXCEPT ![n] =
               {d \in @ : IsPrefix(c, d) \/ IsPrefix(d, c)}]
        /\ vote' = [vote EXCEPT ![n] = BoundOver(n, c)]
    /\ UNCHANGED <<service, slot, waits>>
-----------------------------------------------------------------------------
(* The process and the maintenance commands. *)

MUT_AuraStarts(n) == waits

\* The Aura worker waits for the next slot: it does not author in the one in
\* which it was started.
AuraStarts(n) == waits \union {n}

Start(n) == /\ new_partial(n) \/ new_full(n)
            /\ waits' = IF "aura" \in Running(n)' \ Running(n) THEN AuraStarts(n)
                        ELSE waits
            /\ UNCHANGED <<slot, disk, pool, watched>>

Ends(n) == /\ Stopped(n) \/ EssentialTaskFailed(n)
           /\ pool' = [pool EXCEPT ![n] = {}]
           /\ watched' = [watched EXCEPT ![n] = {}]
           /\ waits' = waits \ {n}
           /\ UNCHANGED <<slot, disk>>

Fails(n) == (\E task \in Running(n) : TaskEnds(n, task)) /\ UNCHANGED <<slot, disk, memory>>

Revertible(n) == Len(best[n]) - Len(final[n])

MUT_AuxReverted(n) == vote[n]

\* sc_consensus_grandpa::revert writes a new voter state, rooted at the final block.
AuxReverted(n) == final[n]

\* `revert`, first part: aux_revert.  The blocks are taken off after it.
RevertAux(n) ==
    /\ DatabaseFree(n)
    /\ \E k \in 1 .. Revertible(n) : reverting' = [reverting EXCEPT ![n] = k]
    /\ vote' = [vote EXCEPT ![n] = AuxReverted(n)]
    /\ UNCHANGED <<started, ended, faults, slot, blocks, best, final, memory>>

\* What is left without the best block; with the last one that is taken off go the
\* forks that are as high.
BlocksWithoutBest(n) ==
    {c \in blocks[n] :
        /\ ~IsPrefix(best[n], c)
        /\ reverting[n] = 1 => Len(c) < Len(best[n])}

\* The second part: one block for each transaction of the database.
RevertBlock(n) ==
    /\ reverting[n] > 0
    /\ best' = [best EXCEPT ![n] = Prefix(@, Len(@) - 1)]
    /\ blocks' = [blocks EXCEPT ![n] = BlocksWithoutBest(n)]
    /\ reverting' = [reverting EXCEPT ![n] = @ - 1]
    /\ UNCHANGED <<started, ended, faults, slot, final, vote, memory>>

\* The command is interrupted, between its two parts or between two blocks.
RevertAborted(n) == /\ reverting[n] > 0
                    /\ reverting' = [reverting EXCEPT ![n] = 0]
                    /\ UNCHANGED <<started, ended, faults, slot, disk, memory>>

PurgeChain(n) == /\ DatabaseFree(n)
                 /\ blocks' = [blocks EXCEPT ![n] = {<< >>}]
                 /\ best' = [best EXCEPT ![n] = << >>]
                 /\ final' = [final EXCEPT ![n] = << >>]
                 /\ vote' = [vote EXCEPT ![n] = << >>]
                 /\ UNCHANGED <<service, slot, memory>>

Command(n) == RevertAux(n) \/ RevertBlock(n) \/ RevertAborted(n) \/ PurgeChain(n)
-----------------------------------------------------------------------------
Tick == /\ slot < MaxSlot
        /\ slot' = slot + 1
        /\ waits' = {}
        /\ UNCHANGED <<service, disk, pool, watched>>

ChainNext ==
    \/ Tick
    \/ \E Q \in SUBSET Range(authorities) : GrandpaRound(Q)
    \/ \E n \in Node :
           \/ \E t \in Tx : Submit(n, t)
           \/ \E m \in Node : Gossip(n, m) \/ Sync(n, m)
           \/ Author(n) \/ Finalize(n)
           \/ Start(n) \/ Ends(n) \/ Fails(n) \/ Command(n)

ChainSpecification == ChainInit /\ [][ChainNext]_cvars
-----------------------------------------------------------------------------
\* What one node holds final no other node contradicts, through stops, lost
\* tasks, reverted blocks and a purged database: a supermajority is bound.
FinalAgree ==
    \A n, m \in Node : IsPrefix(final[n], final[m]) \/ IsPrefix(final[m], final[n])

\* A node builds on what it holds final, and its voter on a block that its
\* database still has: a voter state that points nowhere keeps it from starting.
HeadsAreSound ==
    \A n \in Node : /\ IsPrefix(final[n], best[n])
                    /\ IsPrefix(final[n], vote[n]) /\ vote[n] \in blocks[n]

\* A slot has one block, whoever restarts within it: Aura keeps no record of the
\* slots it authored in.
OneBlockPerSlot ==
    \A n, m \in Node : \A c \in blocks[n], d \in blocks[m] :
        c # << >> /\ LastSlot(c) = LastSlot(d) => c = d

\* As long as the process lives, an extrinsic that somebody watches waits in the
\* pool or is on the best chain: no fork or late block makes the node forget it.
NothingForgotten ==
    \A n \in Node : watched[n] \subseteq pool[n] \union Executed(best[n])
=============================================================================
