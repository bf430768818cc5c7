------------------------ MODULE MCEligibilityRegistry ------------------------
\* An instance of EligibilityRegistry for TLC.
EXTENDS EligibilityRegistry

CONSTANTS a1, a2, r1

\* one person, alone or before a record without a reference
MCBatches == {<<r1>>, <<r1, NoReference>>}
MCSymmetry == Permutations(Registrars)

\* Every list of up to four commitments, with repetitions and with the reserved leaf,
\* and every full or nearly full tree: it is refused for a reason, or its root is that
\* of the complete tree over the same commitments, and the path of one leaf proves no
\* other.  That it proves its own is RollIsProvable.
MCLists == UNION {[1..n -> 0..4] : n \in 0..4} \cup {[i \in 1..n |-> 10 - i] : n \in 5..9}

ASSUME TreesAreRight ==
  \A l \in MCLists :
    BuildErrors(l) = {} =>
      LET tree == BuildMerkleTreeV1(l) IN
      /\ tree.root = CompleteRoot(tree.leaves)
      /\ {tree.leaves[i] : i \in DOMAIN tree.leaves} = {l[i] : i \in DOMAIN l}
      /\ \A i, j \in DOMAIN l :
           i # j => ~VerifyMerkleProofV1(tree.leaves[i], MerkleProof(tree, j - 1), tree.root)

\* What Elections takes for granted: two trees have one root exactly when their leaves
\* are the same set.
ASSUME RootsAreSets ==
  \A l, m \in {l \in MCLists : BuildErrors(l) = {}} :
    BuildMerkleTreeV1(l).root = BuildMerkleTreeV1(m).root
      <=> {l[i] : i \in DOMAIN l} = {m[i] : i \in DOMAIN m}
=============================================================================
