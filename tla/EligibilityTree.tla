--------------------------- MODULE EligibilityTree ---------------------------
(***************************************************************************)
(* packages/zk-protocol/src/merkle.ts: the tree of identity commitments    *)
(* that a snapshot freezes, the paths in it by which voters prove that     *)
(* they are in, and the verification of a path, which the circuit repeats. *)
(* The tree is sparse: it has 2^TREE_DEPTH_V1 places, of which only those  *)
(* of the leaves and their ancestors are computed.                         *)
(*                                                                         *)
(* A commitment is a field element, hence a number; its decimal encoding   *)
(* is canonical, so that equal elements are equal strings.  Poseidon of    *)
(* two children is the pair of them: equal for equal children only.        *)
(***************************************************************************)
EXTENDS Integers, Sequences, FiniteSets, TLC

CONSTANTS
  TREE_DEPTH_V1,   \* 20
  ZERO_LEAF_V1     \* the reserved field element that stands in empty places

ASSUME TreeAssumption == TREE_DEPTH_V1 \in Nat \ {0} /\ ZERO_LEAF_V1 \in Nat

Levels == 0..TREE_DEPTH_V1

HashMerkleNodeV1(left, right) == <<left, right>>

\* deriveZeroValuesV1: the node over nothing but empty places, by level
ZeroValues ==
  LET zero[level \in Levels] ==
        IF level = 0 THEN ZERO_LEAF_V1 ELSE HashMerkleNodeV1(zero[level - 1], zero[level - 1])
  IN zero

\* the codes buildMerkleTreeV1 may throw
BuildErrors(identityCommitments) ==
  LET range == {identityCommitments[i] : i \in DOMAIN identityCommitments} IN
  UNION {IF identityCommitments = <<>> THEN {"EMPTY_MERKLE_TREE"} ELSE {},
         IF Len(identityCommitments) > 2 ^ TREE_DEPTH_V1 THEN {"MERKLE_TREE_CAPACITY_EXCEEDED"} ELSE {},
         IF Cardinality(range) < Len(identityCommitments) THEN {"DUPLICATE_MERKLE_LEAF"} ELSE {},
         IF ZERO_LEAF_V1 \in range THEN {"RESERVED_MERKLE_LEAF"} ELSE {}}

\* the i-th computed node of a layer, or the empty one of that level
Node(layer, level, i) == IF i \in DOMAIN layer THEN layer[i] ELSE ZeroValues[level]

\* layers: the nodes computed at each level, from the sorted leaves up
Layers(leaves) ==
  LET layer[level \in Levels] ==
        IF level = 0 THEN leaves
        ELSE LET current == layer[level - 1] IN
             [i \in 1..((Len(current) + 1) \div 2) |->
                HashMerkleNodeV1(current[2 * i - 1], Node(current, level - 1, 2 * i))]
  IN layer

\* the sorted commitments, of which no two are equal where a tree is built
Ascending(identityCommitments) ==
  LET range == {identityCommitments[i] : i \in DOMAIN identityCommitments} IN
  [n \in DOMAIN identityCommitments |->
     CHOOSE leaf \in range : Cardinality({other \in range : other <= leaf}) = n]

\* buildMerkleTreeV1, where it does not throw
BuildMerkleTreeV1(identityCommitments) ==
  LET layers == Layers(Ascending(identityCommitments)) IN
  [leaves |-> layers[0], layers |-> layers, root |-> layers[TREE_DEPTH_V1][1]]

\* Mutant of Sibling: the next node, on whichever side.
SiblingAfter(index) == index + 1

\* index ^ 1
Sibling(index) == IF index % 2 = 0 THEN index + 1 ELSE index - 1

\* proof: for the leaf of that index, counted from 0, its sibling and side by level
MerkleProof(tree, leafIndex) ==
  LET index[level \in Levels] ==
        IF level = 0 THEN leafIndex ELSE index[level - 1] \div 2
      below == Levels \ {TREE_DEPTH_V1}
  IN [pathElements |-> [level \in below |->
                          Node(tree.layers[level], level, Sibling(index[level]) + 1)],
      pathIndices |-> [level \in below |-> index[level] % 2]]

\* the circuit's template of that name: up the path, on the side each index says
MerkleRootV1(leaf, proof) ==
  LET hashes[level \in Levels] ==
        IF level = 0 THEN leaf
        ELSE LET element == proof.pathElements[level - 1] IN
             IF proof.pathIndices[level - 1] = 0
             THEN HashMerkleNodeV1(hashes[level - 1], element)
             ELSE HashMerkleNodeV1(element, hashes[level - 1])
  IN hashes[TREE_DEPTH_V1]

\* the same in TypeScript, compared with a root
VerifyMerkleProofV1(leaf, proof, expectedRoot) == MerkleRootV1(leaf, proof) = expectedRoot
-----------------------------------------------------------------------------
\* What the tree should be: all its places, the leaves in ascending order in the
\* first of them, hashed pairwise.
CompleteRoot(leaves) ==
  LET nodes[level \in Levels] ==
        IF level = 0
        THEN [i \in Nat |-> IF i < Len(leaves) THEN leaves[i + 1] ELSE ZERO_LEAF_V1]
        ELSE [i \in Nat |-> HashMerkleNodeV1(nodes[level - 1][2 * i],
                                             nodes[level - 1][2 * i + 1])]
  IN nodes[TREE_DEPTH_V1][0]
=============================================================================
