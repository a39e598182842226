---------------------------- MODULE AuditLedger ----------------------------
(***************************************************************************)
(* The audit ledger: the exam-audit chaincode on Hyperledger Fabric and    *)
(* the blockchain service in front of it (FabricService, EventsService,    *)
(* MerkleService).  A client's recordEvent is a transaction that the       *)
(* orderer puts in a block some time later; an event can be queried, and   *)
(* proved to be in its block, once the block is committed.  Fabric itself  *)
(* (ordering, block cutting) is external and modelled as the services use  *)
(* it: the header's dataHash is, as merkle.service.ts says of it, the root *)
(* of the binary tree over the transactions of the block.                  *)
(*                                                                         *)
(* SHA-256 is an injective constructor: a leaf is <<tx>>, an inner node    *)
(* the pair of its children.  This module has the state of the ledger and  *)
(* its steps; ExamSession composes it with a service that records events.  *)
(***************************************************************************)
EXTENDS Integers, Sequences, SequencesExt, FiniteSets

CONSTANTS
    MaxMessageCount     \* the orderer's largest block

ASSUME MaxMessageCountAssumption == MaxMessageCount \in Nat \ {0}

VARIABLES
    pending,    \* the transactions the orderer has, in order
    blocks,     \* the committed blocks: [data |-> transactions, dataHash |-> root]
    txs         \* the number of transactions proposed: the next txId

ledger == <<pending, blocks, txs>>

(* The orderer may hold transactions of other clients already. *)
LedgerInit(earlier, event) ==
    /\ pending = [i \in 1..earlier |-> [txId |-> i, event |-> event]]
    /\ blocks = <<>>
    /\ txs = earlier

----------------------------------------------------------------------------
(* The tree over the transactions of a block *)

Leaf(tx) == <<tx.txId>>
Node(left, right) == <<left, right>>

Leaves(data) == [i \in DOMAIN data |-> Leaf(data[i])]

(* One level up: neighbours are combined, an odd node is promoted as it is. *)
NextLevel(level) ==
    [i \in 1..(Len(level) + 1) \div 2 |->
        IF 2 * i <= Len(level) THEN Node(level[2 * i - 1], level[2 * i])
        ELSE level[2 * i - 1]]

(* As if an odd last node were hashed with itself. *)
SiblingPromoted(level, i) ==
    IF i % 2 = 1 THEN <<[hash |-> level[i], position |-> "left"]>>
    ELSE IF i + 1 < Len(level) THEN <<[hash |-> level[i + 2], position |-> "right"]>>
    ELSE <<[hash |-> level[i + 1], position |-> "right"]>>

(* The sibling of position i (from 0) in a level: none for an odd last node.*)
Sibling(level, i) ==
    IF i % 2 = 1 THEN <<[hash |-> level[i], position |-> "left"]>>
    ELSE IF i + 1 < Len(level) THEN <<[hash |-> level[i + 2], position |-> "right"]>>
    ELSE <<>>

(* One round of the loop: the sibling is noted, and the target's parent is  *)
(* the target of the next level.                                            *)
NextRound(at) ==
    IF Len(at.level) <= 1 THEN at
    ELSE [level |-> NextLevel(at.level), index |-> at.index \div 2,
          proof |-> at.proof \o Sibling(at.level, at.index)]

Rounds(leaves, target) ==
    LET at[k \in Nat] == IF k = 0 THEN [level |-> leaves, index |-> target, proof |-> <<>>]
                         ELSE NextRound(at[k - 1])
    IN  at

(* Every round that changes anything shortens the level: there are fewer of *)
(* them than leaves.                                                        *)
ComputeMerkleProof(leaves, target) == Rounds(leaves, target)[Len(leaves)].proof

MerkleRoot(leaves) == Rounds(leaves, 0)[Len(leaves)].level[1]

Combined(hash, node) ==
    IF node.position = "left" THEN Node(node.hash, hash) ELSE Node(hash, node.hash)

Hashes(leaf, proof) ==
    LET hash[k \in Nat] == IF k = 0 THEN leaf ELSE Combined(hash[k - 1], proof[k])
    IN  hash

RecomputeRoot(leaf, proof) == Hashes(leaf, proof)[Len(proof)]

----------------------------------------------------------------------------
(* Queries: the chaincode's read functions and the services over them *)

CommittedTxs == UNION {Range(blocks[b].data) : b \in DOMAIN blocks}

(* The event getEvent and verifyEvent find: an event's id is a hash of its  *)
(* transaction's id, so the id stands for both.                             *)
IsCommitted(eventId) == \E tx \in CommittedTxs : tx.txId = eventId
EventOf(eventId) == CHOOSE tx \in CommittedTxs : tx.txId = eventId

(* qscc's GetBlockByTxID, parsed. *)
BlockOf(eventId) ==
    blocks[CHOOSE b \in DOMAIN blocks : \E tx \in Range(blocks[b].data) : tx.txId = eventId]

(* The position of a transaction among the envelopes of its block.          *)
TxIndex(block, eventId) ==
    (CHOOSE i \in DOMAIN block.data : block.data[i].txId = eventId) - 1

(* The proof that an event is in its block: its leaf, the path, the root.   *)
GetMerkleProof(eventId) ==
    LET block == BlockOf(eventId)
        index == TxIndex(block, eventId)
    IN [txHash |-> Leaf(block.data[index + 1]),
        proof |-> ComputeMerkleProof(Leaves(block.data), index),
        merkleRoot |-> block.dataHash]

VerifyMerkleProof(proof) == RecomputeRoot(proof.txHash, proof.proof) = proof.merkleRoot

(* EventsService.verifyEvent *)
VerifyEvent(eventId) == IsCommitted(eventId) /\ VerifyMerkleProof(GetMerkleProof(eventId))

----------------------------------------------------------------------------
(* The steps of the ledger *)

(* submitTransaction('recordEvent', ...) got past endorsement, where the    *)
(* chaincode validates the event and gives it its id and its keys, and is   *)
(* with the orderer.                                                        *)
RecordEvent(event) ==
    /\ pending' = Append(pending, [txId |-> txs + 1, event |-> event])
    /\ txs' = txs + 1
    /\ UNCHANGED blocks

(* The orderer cuts a block: at MaxMessageCount or when its timer ends. *)
CutBlock ==
    \E n \in 1..Len(pending) :
        /\ n = Len(pending) \/ n = MaxMessageCount
        /\ n <= MaxMessageCount
        /\ LET data == SubSeq(pending, 1, n)
           IN blocks' = Append(blocks, [data |-> data, dataHash |-> MerkleRoot(Leaves(data))])
        /\ pending' = SubSeq(pending, n + 1, Len(pending))
        /\ UNCHANGED txs

============================================================================
