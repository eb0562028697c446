----------------------------- MODULE MerkleTree ------------------------------
(***************************************************************************)
(* The binary Merkle tree of packages/crypto, with which the router folds  *)
(* its buffers: layers of nodes, the last node of an odd layer paired with *)
(* itself.  Hashes are the terms of MerkleMountainRange.                   *)
(***************************************************************************)
EXTENDS MerkleMountainRange

\* Mutated form of Sibling: the last node of an odd layer has its neighbour's sibling.
SiblingLeft(layer, i) ==
    IF i % 2 = 0 THEN IF i + 2 <= Len(layer) THEN layer[i + 2] ELSE layer[Max({1, i})]
    ELSE layer[i]

\* The sibling of the i-th node, counting from 0.
Sibling(layer, i) ==
    IF i % 2 = 0 THEN IF i + 2 <= Len(layer) THEN layer[i + 2] ELSE layer[i + 1]
    ELSE layer[i]

LayerAbove(layer) ==
    LET next[i \in 0 .. (Len(layer) + 1) \div 2] ==
            IF i = 0 THEN <<>>
            ELSE Append(next[i - 1], HashNode(layer[2 * i - 1], Sibling(layer, 2 * i - 2)))
    IN  next[(Len(layer) + 1) \div 2]

\* All layers, the leaves first: one is put on top of the last until that is a single node.
Layers(leaves) ==
    LET leaf == [i \in 1 .. Len(leaves) |-> HashLeaf(leaves[i])]
        layers[n \in 0 .. Len(leaves)] ==
            IF n = 0 THEN <<leaf>>
            ELSE LET below == layers[n - 1]
                 IN  IF Len(Last(below)) <= 1 THEN below ELSE Append(below, LayerAbove(Last(below)))
    IN  layers[Len(leaves)]

MerkleRoot(leaves) == IF leaves = <<>> THEN EmptyRoot ELSE Last(Layers(leaves))[1]

\* The proof of the leaf at index, from 0: its sibling in every layer but the top.
MerkleProof(leaves, index) ==
    LET layers == Layers(leaves)
    IN  [siblings |-> [n \in 1 .. Len(layers) - 1 |-> Sibling(layers[n], Shifted(index, n - 1))],
         index |-> index]

VerifyMerkleProof(leaf, proof, root) ==
    LET up[n \in 0 .. Len(proof.siblings)] ==
            IF n = 0 THEN HashLeaf(leaf)
            ELSE IF Bit(proof.index, n - 1) = 0 THEN HashNode(up[n - 1], proof.siblings[n])
            ELSE HashNode(proof.siblings[n], up[n - 1])
    IN  up[Len(proof.siblings)] = root
=============================================================================
