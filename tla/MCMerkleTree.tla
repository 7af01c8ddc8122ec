---------------------------- MODULE MCMerkleTree ----------------------------
(* MerkleTree for TLC. *)
EXTENDS MerkleTree, TLC

LeafSymmetry == Permutations(NoteLeaves)
=============================================================================
